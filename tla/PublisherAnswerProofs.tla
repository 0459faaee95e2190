------------------------ MODULE PublisherAnswerProofs ------------------------
(***************************************************************************)
(* The answers Publisher gives: a success is backed by facts, a refusal    *)
(* for a reused id names a real reuse, a request succeeds once and is      *)
(* never published again when it has an answer, and so Publisher           *)
(* implements PublishContract.                                             *)
(***************************************************************************)
EXTENDS PublisherProofs

(* The owner has used the id of r for another request.                     *)
Reused(r) ==
  \E q \in Slots : log[q].author = "owner" /\ Req(q).id = r.id /\ Req(q) # r

(* Success a of request r is backed: r's own commit was installed on the   *)
(* head r expects, and run a.run was dispatched for it and runs on it.     *)
Backed(r, a) ==
  /\ a.head \in installed
  /\ commits[a.head].slot \in Slots
  /\ Req(commits[a.head].slot) = r
  /\ commits[a.head].parent = r.base
  /\ a.run \in DOMAIN runs
  /\ runs[a.run] = [head |-> a.head, claims |-> a.head]

Justified(r, a) ==
  /\ a.code = "OK" => Backed(r, a)
  /\ a.code = "REQUEST_ID_REUSE" => Reused(r)

(* Only the owner's comments get a publish job, and bot comments answer    *)
(* requests of the owner.                                                  *)
CommentInv(k) ==
  /\ Phase(k) \notin {"none", "posted", "ignored"} => log[k].author = "owner"
  /\ log[k].author = "bot" =>
       \E q \in Slots : log[q].author = "owner" /\ Req(q) = Req(k)
  /\ Justified(Req(k), log[k].ans)

(* A job that has made a commit holds the one it made; it is not installed *)
(* before the push and is afterwards, and the run it found is its own.     *)
JobInv(k) ==
  /\ Phase(k) \in {"lease", "explain", "dispatch", "confirm"} =>
       /\ jobs[k].cand \in DOMAIN commits
       /\ commits[jobs[k].cand].slot = k
       /\ commits[jobs[k].cand].parent = Req(k).base
  /\ Phase(k) = "lease" => jobs[k].cand \notin installed
  /\ Phase(k) \in {"dispatch", "confirm"} => jobs[k].cand \in installed
  /\ Phase(k) = "confirm" => /\ jobs[k].run \in DOMAIN runs
                             /\ runs[jobs[k].run].claims = jobs[k].cand
  /\ Justified(Req(k), jobs[k].ans)

AnswerInv == \A k \in Slots : CommentInv(k) /\ JobInv(k)

(* Steps only add: comments, commits, runs and installations stay.         *)
Grows ==
  /\ Slots \subseteq Slots'
  /\ \A i \in Slots : log'[i] = log[i]
  /\ DOMAIN commits \subseteq DOMAIN commits'
  /\ \A c \in DOMAIN commits : commits'[c] = commits[c]
  /\ installed \subseteq installed'
  /\ DOMAIN runs \subseteq DOMAIN runs'
  /\ \A i \in DOMAIN runs : runs'[i] = runs[i]

(* What justified an answer once justifies it for good.                    *)
LEMMA JustifiedForGood ==
  ASSUME TypeOK, Grows, NEW r, NEW a, Justified(r, a)
  PROVE  Justified(r, a)'
<1>1. Backed(r, a) => Backed(r, a)'
  <2> SUFFICES ASSUME Backed(r, a) PROVE Backed(r, a)'
    OBVIOUS
  <2>1. a.head \in DOMAIN commits /\ commits[a.head].slot \in Slots
    BY DEF Backed, TypeOK
  <2>2. commits'[a.head] = commits[a.head]
    BY <2>1 DEF Grows
  <2> QED BY <2>1, <2>2 DEF Backed, Grows, Req
<1>2. Reused(r) => Reused(r)'
  BY DEF Reused, Grows, Req
<1> QED BY <1>1, <1>2 DEF Justified

(* A refusal of one of the other codes needs no justification.             *)
LEMMA FailureJustified ==
  ASSUME NEW r, NEW c, c \notin {"OK", "REQUEST_ID_REUSE"}
  PROVE  Justified(r, Failure(c))
  BY DEF Justified, Failure

(* Whether it was replayed does not matter.                                *)
LEMMA SameJustification ==
  ASSUME NEW r, NEW a, NEW b, Justified(r, b),
         a.code = b.code, a.head = b.head, a.run = b.run
  PROVE  Justified(r, a)
  BY DEF Justified, Backed

(* An answer taken from earlier results is justified as they were.         *)
LEMMA FromPriorJustified ==
  ASSUME TypeOK, AnswerInv, NEW k \in Slots,
         FindResults(Req(k).id) # {}
  PROVE  Justified(Req(k), FromPrior(k, FindResults(Req(k).id)))
<1> DEFINE prior == FindResults(Req(k).id)
           p == CHOOSE p \in prior : \A q \in prior : p <= q
<1>1. prior \in SUBSET Slots /\ prior \in SUBSET Nat
  BY FindResultsType DEF TypeOK, Slots
<1>2. \A q \in prior : log[q].author = "bot" /\ Req(q).id = Req(k).id
  BY DEF FindResults
<1>3. CASE \E q \in prior : Req(q) # Req(k)
  <2>1. PICK q \in prior : Req(q) # Req(k)
    BY <1>3
  <2>2. PICK o \in Slots : log[o].author = "owner" /\ Req(o) = Req(q)
    BY <1>1, <1>2 DEF AnswerInv, CommentInv
  <2>3. Reused(Req(k))
    BY <1>2, <2>1, <2>2 DEF Reused
  <2>4. FromPrior(k, prior) = Failure("REQUEST_ID_REUSE")
    BY <1>3 DEF FromPrior
  <2> QED BY <2>3, <2>4 DEF Justified, Failure
<1>4. CASE \A q \in prior : Req(q) = Req(k)
  <2>1. p \in prior
    BY <1>1, OldestExists
  <2>2. Justified(Req(k), log[p].ans)
    BY <1>1, <1>4, <2>1 DEF AnswerInv, CommentInv
  <2>3. FromPrior(k, prior) = [log[p].ans EXCEPT !.replay = TRUE]
    BY <1>4 DEF FromPrior
  <2>4. log[p].ans \in Answer
    <3>1. log[p] \in Comment
      BY <1>1, <2>1 DEF TypeOK, Slots
    <3> QED BY <3>1 DEF Comment
  <2>5. /\ FromPrior(k, prior).code = log[p].ans.code
        /\ FromPrior(k, prior).head = log[p].ans.head
        /\ FromPrior(k, prior).run = log[p].ans.run
    BY <2>3, <2>4 DEF Answer
  <2> QED BY <2>2, <2>5, SameJustification
<1> QED BY <1>3, <1>4

(* The job of comment k goes on to phase p with what it has.               *)
Moves(k, p) ==
  /\ OnlyJob(k)
  /\ jobs'[k].phase = p /\ jobs'[k].ans = jobs[k].ans
  /\ jobs'[k].cand = jobs[k].cand /\ jobs'[k].run = jobs[k].run

(* It has answer a to post.                                                *)
Answers(k, a) ==
  OnlyJob(k) /\ jobs'[k].phase = "post" /\ jobs'[k].ans = a

LEMMA GotoMoves ==
  ASSUME TypeOK, NEW k \in Slots, NEW p \in Phases, Goto(k, p)
  PROVE  Moves(k, p)
<1>1. [jobs[k] EXCEPT !.phase = p] \in Job
  BY JobType DEF Job
<1>2. jobs' = [jobs EXCEPT ![k] = [jobs[k] EXCEPT !.phase = p]]
  BY DEF Goto
<1>3. OnlyJob(k) /\ jobs'[k] = [jobs[k] EXCEPT !.phase = p]
  BY <1>1, <1>2, SetJob
<1> QED BY <1>3, JobType DEF Job, Moves

LEMMA FailureAnswers ==
  ASSUME TypeOK, NEW k \in Slots, NEW c \in Codes, Reply(k, Failure(c))
  PROVE  Answers(k, Failure(c))
  BY FailureType, ReplyEffect DEF Answers

LEMMA FromPriorAnswers ==
  ASSUME TypeOK, NEW k \in Slots, NEW prior \in SUBSET Slots, prior # {},
         Reply(k, FromPrior(k, prior))
  PROVE  Answers(k, FromPrior(k, prior))
  BY FromPriorType, ReplyEffect DEF Answers

Kept == UNCHANGED <<log, repoVars>>

(* The refusals that rest on nothing but the request and what is read.     *)
Refusals == Codes \ {"none", "OK", "REQUEST_ID_REUSE"}

Refuses(k) == \E c \in Refusals : Answers(k, Failure(c))

(* What the steps before the push do to their job, and what they have read *)
(* when they do it.                                                        *)
LEMMA StepsBeforePush ==
  ASSUME TypeOK, NEW k \in Slots
  PROVE  /\ Ignore(k) => Kept /\ Phase(k) = "posted" /\ Moves(k, "ignored")
         /\ Crash(k) => Kept /\ Phase(k) \in Working /\ Moves(k, "dead")
         /\ Start(k) => /\ Kept /\ Phase(k) = "pending"
                        /\ Moves(k, "lookup") \/ Refuses(k)
         /\ LookupPrior(k) =>
              /\ Kept /\ Phase(k) = "lookup"
              /\ \/ Moves(k, "collide")
                 \/ /\ FindResults(Req(k).id) # {}
                    /\ Answers(k, FromPrior(k, FindResults(Req(k).id)))
         /\ CheckCollision(k) =>
              /\ Kept /\ Phase(k) = "collide"
              /\ \/ Moves(k, "recheck")
                 \/ /\ \E q \in FindRequests(Req(k).id) : Req(q) # Req(k)
                    /\ Answers(k, Failure("REQUEST_ID_REUSE"))
         /\ LookupLocked(k) =>
              /\ Kept /\ Phase(k) = "recheck"
              /\ \/ Moves(k, "task") /\ FindResults(Req(k).id) = {}
                 \/ /\ FindResults(Req(k).id) # {}
                    /\ Answers(k, FromPrior(k, FindResults(Req(k).id)))
         /\ CheckTask(k) => /\ Kept /\ Phase(k) = "task"
                            /\ Moves(k, "head") \/ Refuses(k)
         /\ CheckHead(k) => /\ Kept /\ Phase(k) = "head"
                            /\ Moves(k, "build") \/ Refuses(k)
         /\ ApiFailure(k) =>
              /\ Kept /\ Phase(k) \in {"task", "head", "build", "explain"}
              /\ Refuses(k)
<1> USE DEF Kept, Refuses, Refusals
<1>1. Ignore(k) => Kept /\ Phase(k) = "posted" /\ Moves(k, "ignored")
  BY GotoMoves DEF Ignore, Phases
<1>2. Crash(k) => Kept /\ Phase(k) \in Working /\ Moves(k, "dead")
  BY GotoMoves DEF Crash, Phases
<1>3. Start(k) => /\ Kept /\ Phase(k) = "pending"
                  /\ Moves(k, "lookup") \/ Refuses(k)
  <2> SUFFICES ASSUME Start(k) PROVE Moves(k, "lookup") \/ Refuses(k)
    BY DEF Start
  <2>1. CASE Reply(k, Failure("INVALID_SCHEMA"))
    BY <2>1, FailureAnswers DEF Codes
  <2>2. CASE Reply(k, Failure("BRANCH_TASK_MISMATCH"))
    BY <2>2, FailureAnswers DEF Codes
  <2>3. CASE Goto(k, "lookup")
    BY <2>3, GotoMoves DEF Phases, Working
  <2> QED BY <2>1, <2>2, <2>3 DEF Start
<1>4. LookupPrior(k) =>
        /\ Kept /\ Phase(k) = "lookup"
        /\ \/ Moves(k, "collide")
           \/ /\ FindResults(Req(k).id) # {}
              /\ Answers(k, FromPrior(k, FindResults(Req(k).id)))
  BY FromPriorAnswers, FindResultsType, GotoMoves
  DEF LookupPrior, Phases, Working
<1>5. CheckCollision(k) =>
        /\ Kept /\ Phase(k) = "collide"
        /\ \/ Moves(k, "recheck")
           \/ /\ \E q \in FindRequests(Req(k).id) : Req(q) # Req(k)
              /\ Answers(k, Failure("REQUEST_ID_REUSE"))
  BY FailureAnswers, GotoMoves DEF CheckCollision, Phases, Working, Codes
<1>6. LookupLocked(k) =>
        /\ Kept /\ Phase(k) = "recheck"
        /\ \/ Moves(k, "task") /\ FindResults(Req(k).id) = {}
           \/ /\ FindResults(Req(k).id) # {}
              /\ Answers(k, FromPrior(k, FindResults(Req(k).id)))
  BY FromPriorAnswers, FindResultsType, GotoMoves
  DEF LookupLocked, Phases, Working
<1>7. CheckTask(k) => /\ Kept /\ Phase(k) = "task"
                      /\ Moves(k, "head") \/ Refuses(k)
  BY FailureAnswers, GotoMoves DEF CheckTask, Phases, Working, Codes
<1>8. CheckHead(k) => /\ Kept /\ Phase(k) = "head"
                      /\ Moves(k, "build") \/ Refuses(k)
  BY FailureAnswers, GotoMoves DEF CheckHead, Phases, Working, Codes
<1>9. ApiFailure(k) =>
        /\ Kept /\ Phase(k) \in {"task", "head", "build", "explain"}
        /\ Refuses(k)
  BY FailureAnswers DEF ApiFailure, Codes
<1> QED BY <1>1, <1>2, <1>3, <1>4, <1>5, <1>6, <1>7, <1>8, <1>9

(* The same for the steps from the push on that keep the repository.       *)
LEMMA StepsAfterBuild ==
  ASSUME TypeOK, NEW k \in Slots
  PROVE  /\ PushRefused(k) \/ PushFailed(k) =>
              Kept /\ Phase(k) = "lease" /\ Moves(k, "explain")
         /\ ExplainFailedPush(k) =>
              Kept /\ Phase(k) = "explain" /\ Refuses(k)
         /\ DispatchFailed(k) =>
              Kept /\ Phase(k) \in {"dispatch", "confirm"} /\ Refuses(k)
         /\ ConfirmRun(k) =>
              /\ Kept /\ Phase(k) = "confirm"
              /\ \/ Refuses(k)
                 \/ /\ runs[jobs[k].run].head = jobs[k].cand
                    /\ Answers(k, [code |-> "OK", head |-> jobs[k].cand,
                                   run |-> jobs[k].run, replay |-> FALSE])
<1> USE DEF Kept, Refuses, Refusals
<1>1. PushRefused(k) \/ PushFailed(k) =>
        Kept /\ Phase(k) = "lease" /\ Moves(k, "explain")
  BY GotoMoves DEF PushRefused, PushFailed, Phases, Working
<1>2. ExplainFailedPush(k) => Kept /\ Phase(k) = "explain" /\ Refuses(k)
  BY FailureAnswers DEF ExplainFailedPush, Codes
<1>3. DispatchFailed(k) =>
        Kept /\ Phase(k) \in {"dispatch", "confirm"} /\ Refuses(k)
  BY FailureAnswers DEF DispatchFailed, Codes
<1>4. ConfirmRun(k) =>
        /\ Kept /\ Phase(k) = "confirm"
        /\ \/ Refuses(k)
           \/ /\ runs[jobs[k].run].head = jobs[k].cand
              /\ Answers(k, [code |-> "OK", head |-> jobs[k].cand,
                             run |-> jobs[k].run, replay |-> FALSE])
  <2> DEFINE a == [code |-> "OK", head |-> jobs[k].cand,
                   run |-> jobs[k].run, replay |-> FALSE]
  <2>1. a \in Answer
    BY JobType DEF Answer, Codes, Job
  <2>2. Reply(k, a) => Answers(k, a)
    BY <2>1, ReplyEffect DEF Answers
  <2> QED BY <2>2, FailureAnswers DEF ConfirmRun, Codes
<1> QED BY <1>1, <1>2, <1>3, <1>4

LEMMA KeptGrows ==
  ASSUME Kept
  PROVE  Grows /\ Slots' = Slots /\ UNCHANGED <<commits, installed, runs>>
  BY DEF Kept, Grows, repoVars, Slots

(* A comment stays as it is described while the log grows.                 *)
LEMMA CommentStays ==
  ASSUME TypeOK, AnswerInv, Grows, NEW i \in Slots,
         \/ jobs'[i].phase \in {"none", "posted", "ignored"}
         \/ log[i].author = "owner"
  PROVE  CommentInv(i)'
<1>1. CommentInv(i) /\ i \in Slots' /\ log'[i] = log[i]
  BY DEF AnswerInv, Grows
<1>2. Justified(Req(i), log[i].ans)'
  <2> DEFINE r == Req(i)
             a == log[i].ans
  <2>1. Justified(r, a)
    BY <1>1 DEF CommentInv
  <2>2. r' = r /\ a' = a
    BY <1>1 DEF Req
  <2>3. ASSUME NEW x, NEW y, x = r, y = a PROVE Justified(x, y)'
    BY <2>1, <2>3, JustifiedForGood
  <2> QED BY <2>2, <2>3 DEF Justified, Backed, Reused
<1>3. log[i].author = "bot" =>
        (\E q \in Slots : log[q].author = "owner" /\ Req(q) = Req(i))'
  BY <1>1 DEF CommentInv, Grows, Req
<1> QED BY <1>1, <1>2, <1>3 DEF CommentInv, Phase

(* So does a job that a step leaves alone, unless its commit is pushed.    *)
LEMMA JobStays ==
  ASSUME TypeOK, AnswerInv, Grows, NEW i \in Slots, jobs'[i] = jobs[i],
         Phase(i) = "lease" => jobs[i].cand \notin installed'
  PROVE  JobInv(i)'
<1>1. JobInv(i) /\ i \in Slots' /\ log'[i] = log[i]
  BY DEF AnswerInv, Grows
<1>2. Justified(Req(i), jobs[i].ans)'
  <2> DEFINE r == Req(i)
             a == jobs[i].ans
  <2>1. Justified(r, a)
    BY <1>1 DEF JobInv
  <2>2. r' = r /\ a' = a
    BY <1>1 DEF Req
  <2>3. ASSUME NEW x, NEW y, x = r, y = a PROVE Justified(x, y)'
    BY <2>1, <2>3, JustifiedForGood
  <2> QED BY <2>2, <2>3 DEF Justified, Backed, Reused
<1>3. ASSUME Phase(i) \in {"lease", "explain", "dispatch", "confirm"}
      PROVE  /\ jobs[i].cand \in DOMAIN commits'
             /\ commits'[jobs[i].cand].slot = i
             /\ commits'[jobs[i].cand].parent = Req(i)'.base
  BY <1>1, <1>3 DEF JobInv, Grows, Req
<1>4. Phase(i) \in {"dispatch", "confirm"} => jobs[i].cand \in installed'
  BY <1>1 DEF JobInv, Grows
<1>5. Phase(i) = "confirm" => /\ jobs[i].run \in DOMAIN runs'
                              /\ runs'[jobs[i].run].claims = jobs[i].cand
  BY <1>1 DEF JobInv, Grows
<1> QED BY <1>2, <1>3, <1>4, <1>5 DEF JobInv, Phase

(* When nothing changes but job k, it is all there is to look at.          *)
LEMMA OneJobChanges ==
  ASSUME TypeOK, AnswerInv, NEW k \in Slots, Kept, OnlyJob(k),
         CommentInv(k)', JobInv(k)'
  PROVE  AnswerInv'
<1>1. Grows /\ Slots' = Slots /\ installed' = installed
  BY KeptGrows
<1>2. ASSUME NEW i \in Slots, i # k PROVE CommentInv(i)' /\ JobInv(i)'
  <2>1. jobs'[i] = jobs[i]
    BY <1>2 DEF OnlyJob
  <2>2. CommentInv(i) /\ JobInv(i)
    BY DEF AnswerInv
  <2>3. \/ jobs'[i].phase \in {"none", "posted", "ignored"}
        \/ log[i].author = "owner"
    BY <2>1, <2>2 DEF CommentInv, Phase
  <2>4. Phase(i) = "lease" => jobs[i].cand \notin installed'
    BY <1>1, <2>2 DEF JobInv
  <2> QED BY <1>1, <2>1, <2>3, <2>4, CommentStays, JobStays
<1> QED BY <1>1, <1>2 DEF AnswerInv

LEMMA MovesKeepsAnswers ==
  ASSUME TypeOK, AnswerInv, NEW k \in Slots, Kept, NEW p, Moves(k, p),
         p \notin {"lease", "dispatch", "confirm"},
         p = "explain" => Phase(k) = "lease",
         p = "ignored" \/ Phase(k) \in Working \cup {"pending"}
  PROVE  AnswerInv'
<1>1. CommentInv(k) /\ JobInv(k)
  BY DEF AnswerInv
<1>2. /\ Grows /\ Slots' = Slots /\ UNCHANGED <<log, commits, installed, runs>>
  BY KeptGrows DEF Kept
<1>3. \/ jobs'[k].phase \in {"none", "posted", "ignored"}
      \/ log[k].author = "owner"
  BY <1>1 DEF CommentInv, Moves, Working
<1>4. CommentInv(k)'
  BY <1>2, <1>3, CommentStays
<1>5. Justified(Req(k), jobs[k].ans)'
  BY <1>1, <1>2 DEF JobInv, Justified, Backed, Reused, Req, Moves
<1>6. JobInv(k)'
  BY <1>1, <1>2, <1>5 DEF JobInv, Moves, Phase, Req
<1> QED BY <1>4, <1>6, OneJobChanges DEF Moves

LEMMA AnswersKeepsAnswers ==
  ASSUME TypeOK, AnswerInv, NEW k \in Slots, Kept, NEW a, Answers(k, a),
         Justified(Req(k), a), Phase(k) \in Working \cup {"pending"}
  PROVE  AnswerInv'
<1>1. CommentInv(k) /\ JobInv(k)
  BY DEF AnswerInv
<1>2. /\ Grows /\ Slots' = Slots /\ UNCHANGED <<log, commits, installed, runs>>
  BY KeptGrows DEF Kept
<1>3. log[k].author = "owner"
  BY <1>1 DEF CommentInv, Working
<1>4. CommentInv(k)'
  BY <1>2, <1>3, CommentStays
<1>5. Justified(Req(k), jobs[k].ans)'
  BY <1>2 DEF Justified, Backed, Reused, Req, Answers
<1>6. JobInv(k)'
  BY <1>2, <1>5 DEF JobInv, Answers, Phase, Req
<1> QED BY <1>4, <1>6, OneJobChanges DEF Answers

LEMMA RefusesKeepsAnswers ==
  ASSUME TypeOK, AnswerInv, NEW k \in Slots, Kept, Refuses(k),
         Phase(k) \in Working \cup {"pending"}
  PROVE  AnswerInv'
  BY FailureJustified, AnswersKeepsAnswers DEF Refuses, Refusals

LEMMA RerunKeepsAnswers ==
  ASSUME TypeOK, AnswerInv, NEW k \in Slots, Rerun(k)
  PROVE  AnswerInv'
<1>1. NewJob("posted") \in Job /\ NewJob("posted").phase = "posted"
  BY NewJobType DEF Phases, NewJob
<1>2. OnlyJob(k) /\ jobs'[k] = NewJob("posted")
  BY <1>1, SetJob DEF Rerun
<1>3. Kept
  BY DEF Rerun, Kept
<1>4. CommentInv(k)'
  BY <1>1, <1>2, <1>3, CommentStays, KeptGrows
<1>5. JobInv(k)'
  BY <1>1, <1>2 DEF JobInv, Justified, Phase, NewJob, NoAnswer, Failure
<1> QED BY <1>2, <1>3, <1>4, <1>5, OneJobChanges

(* The steps that touch nothing but their own job.                         *)
LEMMA QuietKeepsAnswers ==
  ASSUME TypeOK, AnswerInv, NEW k \in Slots
  PROVE  /\ Ignore(k) \/ Rerun(k) \/ Crash(k) => AnswerInv'
         /\ Start(k) \/ LookupPrior(k) \/ LookupLocked(k) => AnswerInv'
         /\ CheckCollision(k) => AnswerInv'
         /\ CheckTask(k) \/ CheckHead(k) \/ ApiFailure(k) => AnswerInv'
         /\ PushRefused(k) \/ PushFailed(k) => AnswerInv'
         /\ ExplainFailedPush(k) \/ DispatchFailed(k) => AnswerInv'
         /\ ConfirmRun(k) => AnswerInv'
<1> USE DEF Working
<1>1. Ignore(k) \/ Rerun(k) \/ Crash(k) => AnswerInv'
  BY StepsBeforePush, MovesKeepsAnswers, RerunKeepsAnswers
<1>2. Start(k) => AnswerInv'
  BY StepsBeforePush, MovesKeepsAnswers, RefusesKeepsAnswers
<1>3. LookupPrior(k) => AnswerInv'
  BY StepsBeforePush, MovesKeepsAnswers, AnswersKeepsAnswers,
     FromPriorJustified
<1>4. LookupLocked(k) => AnswerInv'
  BY StepsBeforePush, MovesKeepsAnswers, AnswersKeepsAnswers,
     FromPriorJustified
<1>5. CheckCollision(k) => AnswerInv'
  <2> SUFFICES ASSUME CheckCollision(k) PROVE AnswerInv'
    OBVIOUS
  <2>1. Kept /\ Phase(k) = "collide"
    BY StepsBeforePush
  <2>2. CASE Moves(k, "recheck")
    BY <2>1, <2>2, MovesKeepsAnswers
  <2>3. CASE /\ \E q \in FindRequests(Req(k).id) : Req(q) # Req(k)
             /\ Answers(k, Failure("REQUEST_ID_REUSE"))
    <3>1. Reused(Req(k))
      BY <2>3 DEF Reused, FindRequests, Scanned
    <3>2. Justified(Req(k), Failure("REQUEST_ID_REUSE"))
      BY <3>1 DEF Justified, Failure
    <3> QED BY <2>1, <2>3, <3>2, AnswersKeepsAnswers
  <2> QED BY <2>2, <2>3, StepsBeforePush
<1>6. CheckTask(k) => AnswerInv'
  BY StepsBeforePush, MovesKeepsAnswers, RefusesKeepsAnswers
<1>7. CheckHead(k) => AnswerInv'
  BY StepsBeforePush, MovesKeepsAnswers, RefusesKeepsAnswers
<1>8. ApiFailure(k) => AnswerInv'
  BY StepsBeforePush, RefusesKeepsAnswers
<1>9. PushRefused(k) \/ PushFailed(k) => AnswerInv'
  BY StepsAfterBuild, MovesKeepsAnswers
<1>10. ExplainFailedPush(k) \/ DispatchFailed(k) => AnswerInv'
  BY StepsAfterBuild, RefusesKeepsAnswers
<1>11. ConfirmRun(k) => AnswerInv'
  <2> SUFFICES ASSUME ConfirmRun(k) PROVE AnswerInv'
    OBVIOUS
  <2> DEFINE a == [code |-> "OK", head |-> jobs[k].cand,
                   run |-> jobs[k].run, replay |-> FALSE]
  <2>1. Kept /\ Phase(k) = "confirm"
    BY StepsAfterBuild
  <2>2. CASE Refuses(k)
    BY <2>1, <2>2, RefusesKeepsAnswers
  <2>3. CASE runs[jobs[k].run].head = jobs[k].cand /\ Answers(k, a)
    <3>1. JobInv(k)
      BY DEF AnswerInv
    <3>2. runs[jobs[k].run] \in Run
      BY <2>1, <3>1 DEF JobInv, TypeOK
    <3>3. runs[jobs[k].run] = [head |-> jobs[k].cand, claims |-> jobs[k].cand]
      BY <2>1, <2>3, <3>1, <3>2 DEF JobInv, Run
    <3>4. Justified(Req(k), a)
      BY <2>1, <3>1, <3>3 DEF JobInv, Justified, Backed
    <3> QED BY <2>1, <2>3, <3>4, AnswersKeepsAnswers
  <2> QED BY <2>2, <2>3, StepsAfterBuild
<1> QED BY <1>1, <1>2, <1>3, <1>4, <1>5, <1>6, <1>7, <1>8, <1>9, <1>10, <1>11

(* And a job that stops working, or waits to start, with the answer it has.*)
LEMMA JobRests ==
  ASSUME TypeOK, AnswerInv, Grows, NEW i \in Slots,
         jobs'[i].ans = jobs[i].ans,
         jobs'[i].phase \notin {"lease", "explain", "dispatch", "confirm"}
  PROVE  JobInv(i)'
<1>1. JobInv(i) /\ i \in Slots' /\ log'[i] = log[i]
  BY DEF AnswerInv, Grows
<1>2. Justified(Req(i), jobs[i].ans)'
  <2> DEFINE r == Req(i)
             a == jobs[i].ans
  <2>1. Justified(r, a)
    BY <1>1 DEF JobInv
  <2>2. r' = r /\ a' = a
    BY <1>1 DEF Req
  <2>3. ASSUME NEW x, NEW y, x = r, y = a PROVE Justified(x, y)'
    BY <2>1, <2>3, JustifiedForGood
  <2> QED BY <2>2, <2>3 DEF Justified, Backed, Reused
<1> QED BY <1>2 DEF JobInv, Phase

LEMMA EnqueueKeepsAnswers ==
  ASSUME TypeOK, AnswerInv, NEW k \in Slots, Enqueue(k)
  PROVE  AnswerInv'
<1>1. \A i \in Slots : jobs[i] \in Job
  BY JobType
<1>2. Grows /\ Slots' = Slots /\ UNCHANGED installed /\ log[k].author = "owner"
  BY KeptGrows DEF Enqueue, Kept
<1>3. ASSUME NEW i \in Slots
      PROVE  \/ jobs'[i] = jobs[i] /\ i # k
             \/ /\ jobs'[i].ans = jobs[i].ans
                /\ \/ i = k /\ jobs'[i].phase = "pending"
                   \/ Phase(i) = "pending" /\ jobs'[i].phase = "cancelled"
  BY <1>1 DEF Enqueue, Job, Phase
<1>4. ASSUME NEW i \in Slots PROVE CommentInv(i)'
  <2>1. CommentInv(i)
    BY DEF AnswerInv
  <2>2. \/ jobs'[i].phase \in {"none", "posted", "ignored"}
        \/ log[i].author = "owner"
    BY <1>2, <1>3, <2>1 DEF CommentInv, Phase
  <2> QED BY <1>2, <2>2, CommentStays
<1>5. ASSUME NEW i \in Slots PROVE JobInv(i)'
  <2>1. CASE jobs'[i] = jobs[i]
    <3>1. Phase(i) = "lease" => jobs[i].cand \notin installed'
      BY <1>2 DEF AnswerInv, JobInv
    <3> QED BY <1>2, <2>1, <3>1, JobStays
  <2>2. CASE /\ jobs'[i].ans = jobs[i].ans
             /\ jobs'[i].phase \in {"pending", "cancelled"}
    BY <1>2, <2>2, JobRests
  <2> QED BY <1>3, <2>1, <2>2
<1> QED BY <1>2, <1>4, <1>5 DEF AnswerInv

(* A log that grows by a comment that is described rightly.                *)
LEMMA LogGrowsKeepsAnswers ==
  ASSUME TypeOK, AnswerInv,
         NEW c, log' = Append(log, c), UNCHANGED repoVars,
         Len(jobs') = Len(jobs) + 1,
         jobs'[Len(log) + 1] \in {NewJob("posted"), NewJob("none")},
         c.author = "bot" =>
           \E q \in Slots : log[q].author = "owner" /\ Req(q) = c.req,
         Justified(c.req, c.ans),
         \A i \in Slots :
           \/ jobs'[i] = jobs[i]
           \/ /\ jobs'[i].ans = jobs[i].ans
              /\ jobs'[i].phase \in {"done", "dead"}
              /\ Phase(i) = "post"
  PROVE  AnswerInv'
<1>1. PICK n \in Nat : n = Len(log) + 1
  BY DEF TypeOK
<1>2. /\ Slots' = Slots \cup {n} /\ log'[n] = c
      /\ \A i \in Slots : log'[i] = log[i]
  BY <1>1 DEF TypeOK, Slots
<1>3. Grows /\ UNCHANGED <<commits, installed, runs>>
  BY <1>2 DEF Grows, repoVars
<1>4. ASSUME NEW i \in Slots PROVE CommentInv(i)' /\ JobInv(i)'
  <2>1. CommentInv(i) /\ JobInv(i)
    BY DEF AnswerInv
  <2>2. \/ jobs'[i].phase \in {"none", "posted", "ignored"}
        \/ log[i].author = "owner"
    BY <2>1 DEF CommentInv, Phase
  <2>3. CASE jobs'[i] = jobs[i]
    <3>1. Phase(i) = "lease" => jobs[i].cand \notin installed'
      BY <1>3, <2>1 DEF JobInv
    <3> QED BY <1>3, <2>2, <2>3, <3>1, CommentStays, JobStays
  <2>4. CASE jobs'[i].ans = jobs[i].ans /\ jobs'[i].phase \in {"done", "dead"}
    BY <1>3, <2>2, <2>4, CommentStays, JobRests
  <2> QED BY <2>3, <2>4
<1>5. jobs'[n] \in {NewJob("posted"), NewJob("none")}
  BY <1>1
<1>6. Justified(Req(n), log[n].ans)'
  <2>1. Req(n)' = c.req /\ log'[n].ans = c.ans
    BY <1>2 DEF Req
  <2>2. ASSUME NEW x, NEW y, x = c.req, y = c.ans PROVE Justified(x, y)'
    BY <1>3, <2>2, JustifiedForGood
  <2> QED BY <2>1, <2>2 DEF Justified, Backed, Reused
<1>7. log'[n].author = "bot" =>
        (\E q \in Slots : log[q].author = "owner" /\ Req(q) = Req(n))'
  BY <1>2 DEF Req
<1>8. CommentInv(n)'
  <2>1. jobs'[n].phase \in {"posted", "none"}
    BY <1>5 DEF NewJob
  <2> QED BY <1>6, <1>7, <2>1 DEF CommentInv, Phase
<1>9. JobInv(n)'
  BY <1>5 DEF JobInv, Justified, Phase, NewJob, NoAnswer, Failure
<1> QED BY <1>2, <1>4, <1>8, <1>9 DEF AnswerInv

LEMMA PostKeepsAnswers ==
  ASSUME TypeOK, AnswerInv, NEW author \in {"owner", "other"}, NEW r,
         Post(author, r)
  PROVE  AnswerInv'
<1> DEFINE c == [author |-> author, req |-> r, ans |-> NoAnswer]
<1>1. jobs \in Seq(Job) /\ Len(jobs) = Len(log) /\ Slots = 1 .. Len(jobs)
  BY DEF TypeOK, Slots
<1>2. jobs' = Append(jobs, NewJob("posted"))
  BY DEF Post
<1>3. /\ \A i \in Slots : jobs'[i] = jobs[i]
      /\ jobs'[Len(log) + 1] = NewJob("posted")
      /\ Len(jobs') = Len(jobs) + 1
  BY <1>1, <1>2
<1>4. log' = Append(log, c) /\ UNCHANGED repoVars
  BY DEF Post
<1>5. Justified(c.req, c.ans) /\ c.author # "bot"
  BY DEF Justified, NoAnswer, Failure
<1> HIDE DEF c
<1> QED BY <1>3, <1>4, <1>5, LogGrowsKeepsAnswers

(* What posting a result does to the jobs.                                 *)
LEMMA PublishEffect ==
  ASSUME TypeOK, NEW k \in Slots, NEW p \in {"done", "dead"}, Publish(k, p)
  PROVE  /\ Phase(k) = "post"
         /\ Len(jobs') = Len(jobs) + 1
         /\ jobs'[Len(log) + 1] = NewJob("none")
         /\ \A i \in Slots : i # k => jobs'[i] = jobs[i]
         /\ jobs'[k].phase = p /\ jobs'[k].ans = jobs[k].ans
<1> DEFINE f == [jobs EXCEPT ![k].phase = p]
<1>1. /\ jobs \in Seq(Job) /\ Len(jobs) = Len(log)
      /\ Slots = 1 .. Len(jobs) /\ jobs[k] \in Job
  BY DEF TypeOK, Slots
<1>2. [jobs[k] EXCEPT !.phase = p] \in Job
  BY <1>1 DEF Job, Phases
<1>3. /\ f \in Seq(Job) /\ Len(f) = Len(jobs)
      /\ \A i \in Slots : f[i] = IF i = k THEN [jobs[k] EXCEPT !.phase = p]
                                          ELSE jobs[i]
  BY <1>1, <1>2, ExceptSeq
<1>4. jobs' = Append(f, NewJob("none")) /\ Phase(k) = "post"
  BY DEF Publish
<1>5. /\ \A i \in Slots : jobs'[i] = f[i]
      /\ jobs'[Len(log) + 1] = NewJob("none")
      /\ Len(jobs') = Len(jobs) + 1
  <2> HIDE DEF f
  <2> QED BY <1>1, <1>3, <1>4
<1> QED BY <1>1, <1>3, <1>4, <1>5 DEF Job

LEMMA PublishKeepsAnswers ==
  ASSUME TypeOK, AnswerInv, NEW k \in Slots, NEW p \in {"done", "dead"},
         Publish(k, p)
  PROVE  AnswerInv'
<1> DEFINE c == [author |-> "bot", req |-> Req(k), ans |-> jobs[k].ans]
<1>1. CommentInv(k) /\ JobInv(k)
  BY DEF AnswerInv
<1>2. log[k].author = "owner"
  BY <1>1, PublishEffect DEF CommentInv
<1>3. c.req = Req(k) /\ Justified(c.req, c.ans)
  BY <1>1 DEF JobInv
<1>4. log' = Append(log, c) /\ UNCHANGED repoVars
  BY DEF Publish
<1> HIDE DEF c
<1> QED BY <1>2, <1>3, <1>4, PublishEffect, LogGrowsKeepsAnswers

(* Everybody else's steps on a branch only add commits.                    *)
LEMMA BranchStepEffect ==
  ASSUME TypeOK, NEW b \in Branches, BranchStep(b)
  PROVE  Grows /\ UNCHANGED <<log, jobs, installed, runs>>
<1>1. CASE OwnerPush(b)
  <2>1. ref[b] \in 0 .. Len(commits)
    BY DEF TypeOK
  <2> QED BY <1>1, <2>1, CommitAdded DEF OwnerPush, Grows, Slots
<1>2. CASE Rewind(b) \/ Release(b) \/ CatchUp(b)
  BY <1>2 DEF Rewind, Release, CatchUp, Grows, Slots
<1> QED BY <1>1, <1>2 DEF BranchStep

(* A step that only adds and leaves all jobs alone.                        *)
LEMMA GrowsKeepsAnswers ==
  ASSUME TypeOK, AnswerInv, Grows, UNCHANGED <<log, jobs, installed>>
  PROVE  AnswerInv'
<1>1. ASSUME NEW i \in Slots PROVE CommentInv(i)' /\ JobInv(i)'
  <2>1. CommentInv(i) /\ JobInv(i)
    BY DEF AnswerInv
  <2> QED BY <2>1, CommentStays, JobStays DEF CommentInv, JobInv, Phase
<1> QED BY <1>1 DEF AnswerInv, Slots

LEMMA BuildKeepsAnswers ==
  ASSUME TypeOK, AnswerInv, NEW k \in Slots, BuildCandidate(k)
  PROVE  AnswerInv'
<1>1. CommentInv(k) /\ JobInv(k) /\ Phase(k) = "build"
  BY DEF AnswerInv, BuildCandidate
<1>2. CASE ref[Branch(k)] # Req(k).base
  <2>1. Kept /\ Refuses(k)
    BY <1>2, FailureAnswers
    DEF BuildCandidate, Kept, repoVars, Refuses, Refusals, Codes
  <2> QED BY <1>1, <2>1, RefusesKeepsAnswers DEF Working
<1>3. CASE ref[Branch(k)] = Req(k).base
  <2>1. /\ jobs[k] \in Job /\ log[k] \in Comment
        /\ commits \in Seq(CommitRecord) /\ Len(commits) \in Nat
        /\ k \in Nat /\ jobs \in Seq(Job) /\ Slots = 1 .. Len(jobs)
    BY DEF TypeOK, Slots
  <2>2. Branch(k) \in Branches /\ Req(k).base \in 0 .. Len(commits)
    BY <2>1, <1>3 DEF Comment, Request, Req, Branch, TypeOK
  <2>3. commits' = Append(commits, [slot |-> k, branch |-> Branch(k),
                                    parent |-> Req(k).base])
    BY <1>3 DEF BuildCandidate
  <2>4. /\ DOMAIN commits' = DOMAIN commits \cup {Len(commits')}
        /\ Len(commits') = Len(commits) + 1
        /\ \A c \in DOMAIN commits : commits'[c] = commits[c]
        /\ commits'[Len(commits')].slot = k
        /\ commits'[Len(commits')].parent = Req(k).base
    BY <2>1, <2>2, <2>3, CommitAdded
  <2>5. /\ \A i \in Slots : i # k => jobs'[i] = jobs[i]
        /\ jobs'[k].phase = "lease" /\ jobs'[k].cand = Len(commits')
        /\ jobs'[k].ans = jobs[k].ans
    <3> DEFINE j == [jobs[k] EXCEPT !.phase = "lease", !.cand = Len(commits')]
    <3>1. /\ j \in Job /\ j.cand = Len(commits') /\ j.phase = "lease"
          /\ j.ans = jobs[k].ans
      <4>1. Len(commits') \in Nat
        BY <2>1, <2>4
      <4> QED BY <2>1, <4>1 DEF Job, Phases, Working, Commit
    <3>2. jobs' = [jobs EXCEPT ![k] = j]
      BY <1>3 DEF BuildCandidate
    <3>3. OnlyJob(k) /\ jobs'[k] = j
      BY <3>1, <3>2, SetJob
    <3> HIDE DEF j
    <3> QED BY <3>1, <3>3 DEF OnlyJob
  <2>6. UNCHANGED <<log, installed, runs>> /\ Slots' = Slots
    BY DEF BuildCandidate, Slots
  <2>7. Grows
    BY <2>4, <2>6 DEF Grows
  <2>8. Len(commits') \notin installed
    BY <2>1, <2>4 DEF TypeOK
  <2>9. ASSUME NEW i \in Slots PROVE CommentInv(i)'
    <3>1. CommentInv(i)
      BY DEF AnswerInv
    <3>2. \/ jobs'[i].phase \in {"none", "posted", "ignored"}
          \/ log[i].author = "owner"
      BY <1>1, <2>5, <3>1 DEF CommentInv, Phase
    <3> QED BY <2>7, <3>2, CommentStays
  <2>10. ASSUME NEW i \in Slots, i # k PROVE JobInv(i)'
    <3>1. JobInv(i)
      BY DEF AnswerInv
    <3> QED BY <2>5, <2>6, <2>7, <2>10, <3>1, JobStays DEF JobInv
  <2>11. JobInv(k)'
    <3>1. Justified(Req(k), jobs[k].ans)'
      <4> DEFINE r == Req(k)
                 a == jobs[k].ans
      <4>1. r' = r /\ a' = a
        BY <2>5, <2>6 DEF Req
      <4>2. ASSUME NEW x, NEW y, x = r, y = a PROVE Justified(x, y)'
        BY <1>1, <2>7, <4>2, JustifiedForGood DEF JobInv
      <4> QED BY <4>1, <4>2 DEF Justified, Backed, Reused
    <3> QED BY <2>4, <2>5, <2>6, <2>8, <3>1 DEF JobInv, Phase, Req
  <2> QED BY <2>6, <2>9, <2>10, <2>11 DEF AnswerInv
<1> QED BY <1>2, <1>3

LEMMA PushKeepsAnswers ==
  ASSUME TypeOK, AnswerInv, NEW k \in Slots, Phase(k) = "lease", Install(k),
         NEW p \in {"dispatch", "explain"}, Goto(k, p)
  PROVE  AnswerInv'
<1>1. CommentInv(k) /\ JobInv(k)
  BY DEF AnswerInv
<1>2. Moves(k, p)
  BY GotoMoves DEF Phases, Working
<1>3. /\ UNCHANGED <<log, commits, runs>> /\ Slots' = Slots
      /\ installed' = installed \cup {jobs[k].cand}
  BY DEF Install, Slots
<1>4. Grows
  BY <1>3 DEF Grows
<1>5. ASSUME NEW i \in Slots PROVE CommentInv(i)'
  <2>1. CommentInv(i)
    BY DEF AnswerInv
  <2>2. \/ jobs'[i].phase \in {"none", "posted", "ignored"}
        \/ log[i].author = "owner"
    BY <1>1, <1>2, <2>1 DEF CommentInv, Phase, Moves, OnlyJob
  <2> QED BY <1>4, <2>2, CommentStays
<1>6. ASSUME NEW i \in Slots, i # k PROVE JobInv(i)'
  <2>1. JobInv(i) /\ jobs'[i] = jobs[i]
    BY <1>2, <1>6 DEF AnswerInv, Moves, OnlyJob
  <2>2. Phase(i) = "lease" => jobs[i].cand \notin installed'
    BY <1>1, <1>3, <1>6, <2>1 DEF JobInv
  <2> QED BY <1>4, <2>1, <2>2, JobStays
<1>7. JobInv(k)'
  <2>1. Justified(Req(k), jobs[k].ans)'
    <3> DEFINE r == Req(k)
               a == jobs[k].ans
    <3>1. r' = r /\ a' = a
      BY <1>2, <1>3 DEF Req, Moves
    <3>2. ASSUME NEW x, NEW y, x = r, y = a PROVE Justified(x, y)'
      BY <1>1, <1>4, <3>2, JustifiedForGood DEF JobInv
    <3> QED BY <3>1, <3>2 DEF Justified, Backed, Reused
  <2> QED BY <1>1, <1>2, <1>3, <2>1 DEF JobInv, Moves, Phase, Req
<1> QED BY <1>3, <1>5, <1>6, <1>7 DEF AnswerInv

LEMMA DispatchKeepsAnswers ==
  ASSUME TypeOK, AnswerInv, NEW k \in Slots, DispatchCI(k)
  PROVE  AnswerInv'
<1>1. CommentInv(k) /\ JobInv(k) /\ Phase(k) = "dispatch"
  BY DEF AnswerInv, DispatchCI
<1>2. /\ jobs[k] \in Job /\ runs \in Seq(Run)
      /\ jobs \in Seq(Job) /\ Slots = 1 .. Len(jobs)
  BY DEF TypeOK, Slots
<1>3. PICK h : runs' = Append(runs, [head |-> h, claims |-> jobs[k].cand])
  BY DEF DispatchCI
<1>4. /\ DOMAIN runs' = DOMAIN runs \cup {Len(runs')}
      /\ \A i \in DOMAIN runs : runs'[i] = runs[i]
      /\ runs'[Len(runs')].claims = jobs[k].cand
  BY <1>2, <1>3
<1>5. /\ \A i \in Slots : i # k => jobs'[i] = jobs[i]
      /\ jobs'[k].phase = "confirm" /\ jobs'[k].run = Len(runs')
      /\ jobs'[k].ans = jobs[k].ans /\ jobs'[k].cand = jobs[k].cand
  BY <1>2 DEF DispatchCI, Job
<1>6. UNCHANGED <<log, commits, installed>> /\ Slots' = Slots
  BY DEF DispatchCI, Slots
<1>7. Grows
  BY <1>4, <1>6 DEF Grows
<1>8. ASSUME NEW i \in Slots PROVE CommentInv(i)'
  <2>1. CommentInv(i)
    BY DEF AnswerInv
  <2>2. \/ jobs'[i].phase \in {"none", "posted", "ignored"}
        \/ log[i].author = "owner"
    BY <1>1, <1>5, <2>1 DEF CommentInv, Phase
  <2> QED BY <1>7, <2>2, CommentStays
<1>9. ASSUME NEW i \in Slots, i # k PROVE JobInv(i)'
  <2>1. JobInv(i)
    BY DEF AnswerInv
  <2> QED BY <1>5, <1>6, <1>7, <1>9, <2>1, JobStays DEF JobInv
<1>10. JobInv(k)'
  <2>1. Justified(Req(k), jobs[k].ans)'
    <3> DEFINE r == Req(k)
               a == jobs[k].ans
    <3>1. r' = r /\ a' = a
      BY <1>5, <1>6 DEF Req
    <3>2. ASSUME NEW x, NEW y, x = r, y = a PROVE Justified(x, y)'
      BY <1>1, <1>7, <3>2, JustifiedForGood DEF JobInv
    <3> QED BY <3>1, <3>2 DEF Justified, Backed, Reused
  <2> QED BY <1>1, <1>4, <1>5, <1>6, <2>1 DEF JobInv, Phase, Req
<1> QED BY <1>6, <1>8, <1>9, <1>10 DEF AnswerInv

LEMMA NextKeepsAnswers == TypeOK /\ AnswerInv /\ [Next]_vars => AnswerInv'
<1> SUFFICES ASSUME TypeOK, AnswerInv, [Next]_vars PROVE AnswerInv'
  OBVIOUS
<1>1. CASE UNCHANGED vars
  <2>1. Grows
    BY <1>1 DEF vars, Grows, Slots
  <2> QED BY <1>1, <2>1, GrowsKeepsAnswers DEF vars
<1>2. ASSUME NEW author \in {"owner", "other"}, NEW r \in Proposals,
             Post(author, r)
      PROVE  AnswerInv'
  BY <1>2, PostKeepsAnswers
<1>3. ASSUME NEW k \in Slots,
             Preflight(k) \/ Rerun(k) \/ JobStep(k) \/ Fault(k)
      PROVE  AnswerInv'
  <2>1. CASE Enqueue(k)
    BY <2>1, EnqueueKeepsAnswers
  <2>2. CASE BuildCandidate(k)
    BY <2>2, BuildKeepsAnswers
  <2>3. CASE PushAccepted(k) \/ PushUnacknowledged(k)
    BY <2>3, PushKeepsAnswers DEF PushAccepted, PushUnacknowledged
  <2>4. CASE DispatchCI(k)
    BY <2>4, DispatchKeepsAnswers
  <2>5. CASE PostResult(k) \/ PostUnacknowledged(k)
    BY <2>5, PublishKeepsAnswers DEF PostResult, PostUnacknowledged
  <2> QED BY <1>3, <2>1, <2>2, <2>3, <2>4, <2>5, QuietKeepsAnswers
          DEF Preflight, JobStep, Fault
<1>4. ASSUME NEW b \in Branches, BranchStep(b) PROVE AnswerInv'
  BY <1>4, BranchStepEffect, GrowsKeepsAnswers
<1> QED BY <1>1, <1>2, <1>3, <1>4 DEF Next

LEMMA AnswersAlwaysJustified == Spec => [](TypeOK /\ AnswerInv)
<1>1. Init => AnswerInv
  BY DEF Init, AnswerInv, Slots
<1> QED
  BY <1>1, InitTypes, NextKeepsTypes, NextKeepsAnswers, PTL DEF Spec, TypeInv

(* Every success that is reported is backed by facts: no stale read, crash,*)
(* lost acknowledgement or replay makes a job report a commit that is not  *)
(* its request's, not installed on the expected head, or not the one its   *)
(* CI run was dispatched for.                                              *)
THEOREM SuccessesAreBacked == Spec => []SuccessIsBacked
<1>1. AnswerInv => SuccessIsBacked
  BY DEF AnswerInv, CommentInv, Justified, Backed, SuccessIsBacked,
         Successes, Results
<1> QED BY <1>1, AnswersAlwaysJustified, PTL

(* A request is refused for the reuse of its id only if the owner did use  *)
(* the id for another request, however often that refusal is replayed.     *)
THEOREM ReuseIsNeverInvented == Spec => []ReuseIsReal
<1>1. AnswerInv => ReuseIsReal
  BY DEF AnswerInv, CommentInv, Justified, Reused, ReuseIsReal, Results
<1> QED BY <1>1, AnswersAlwaysJustified, PTL

-----------------------------------------------------------------------------
(* One publication and one success per request.                            *)

(* A concurrency group has one working job at most.                        *)
Exclusive ==
  \A j, k \in Slots :
    Phase(j) \in Working /\ Phase(k) \in Working /\ SameGroup(j, k) => j = k

(* What a job past its second lookup has found stays so: its request has   *)
(* no result.                                                              *)
Cleared == Working \ {"lookup", "collide", "recheck", "post"}

Unanswered ==
  \A k \in Slots : Phase(k) \in Cleared => \A p \in Results : Req(p) # Req(k)

(* A success that waits to be posted agrees with those posted.             *)
PendingAgree ==
  \A k \in Slots : Phase(k) = "post" /\ jobs[k].ans.code = "OK" =>
    \A p \in Successes :
      Req(p).id = Req(k).id => log[p].ans.head = jobs[k].ans.head

OnceInv == Exclusive /\ Unanswered /\ PendingAgree /\ SuccessesAgree

(* Requests of one id that had a commit installed are one request, and a   *)
(* readable one.                                                           *)
LEMMA BackedIsOneRequest ==
  ASSUME TypeOK, IdInv, NEW k \in Slots, Admitted(k),
         NEW r, NEW a, Backed(r, a), r.id = Req(k).id
  PROVE  r = Req(k) /\ Class(k) # "malformed"
<1> DEFINE s == commits[a.head].slot
<1>1. s \in Slots /\ Req(s) = r /\ a.head \in DOMAIN commits
  BY DEF Backed, TypeOK
<1>2. Admitted(s)
  BY <1>1 DEF Admitted
<1>3. Req(s) = Req(k)
  BY <1>1, <1>2 DEF IdInv, AdmittedAgree
<1>4. Readable(k)
  BY DEF IdInv, Screened
<1> QED BY <1>1, <1>3, <1>4 DEF Readable

LEMMA ClearedIsAdmitted ==
  ASSUME IdInv, AnswerInv, NEW k \in Slots, Phase(k) \in Cleared
  PROVE  Admitted(k) /\ Class(k) # "malformed"
<1>1. Admitted(k)
  <2>1. CASE Phase(k) \in {"task", "head", "build", "lease"}
    BY <2>1 DEF Admitted, AdmittedPhases
  <2>2. CASE Phase(k) \in {"explain", "dispatch", "confirm"}
    BY <2>2 DEF AnswerInv, JobInv, Admitted
  <2> QED BY <2>1, <2>2 DEF Cleared, Working
<1> QED BY <1>1 DEF IdInv, Screened, Readable

(* Comments of one readable request have their jobs in one group.          *)
LEMMA OneRequestOneGroup ==
  ASSUME NEW j, NEW k, Req(j) = Req(k), Class(k) # "malformed"
  PROVE  SameGroup(j, k)
  BY DEF SameGroup, Class, Branch

(* A step of one job that posts nothing: what it must have found to start, *)
(* to get past the second lookup, and to report a success.                 *)
LEMMA OneJobKeepsOnce ==
  ASSUME OnceInv, NEW k \in Slots, UNCHANGED log,
         \A i \in Slots : i # k => jobs'[i] = jobs[i],
         jobs'[k].phase \in Working =>
           \/ Phase(k) \in Working
           \/ \A j \in Slots : SameGroup(j, k) => Phase(j) \notin Working,
         jobs'[k].phase \in Cleared =>
           \/ Phase(k) \in Cleared
           \/ \A p \in Results : Req(p) # Req(k),
         jobs'[k].phase = "post" /\ jobs'[k].ans.code = "OK" =>
           \A p \in Successes :
             Req(p).id = Req(k).id => log[p].ans.head = jobs'[k].ans.head
  PROVE  OnceInv'
<1>1. /\ Slots' = Slots /\ Results' = Results /\ Successes' = Successes
      /\ \A i : Req(i)' = Req(i)
      /\ \A i, j : SameGroup(i, j)' <=> SameGroup(i, j)
  BY DEF Slots, Results, Successes, Req, SameGroup, Class, Branch
<1>2. Exclusive'
  <2> SUFFICES ASSUME NEW i \in Slots, NEW j \in Slots,
                      jobs'[i].phase \in Working, jobs'[j].phase \in Working,
                      SameGroup(i, j), i # j
               PROVE  FALSE
    BY <1>1 DEF Exclusive, Phase
  <2>1. SameGroup(j, i)
    BY DEF SameGroup
  <2>2. CASE i = k
    BY <2>1, <2>2 DEF OnceInv, Exclusive, Phase
  <2>3. CASE j = k
    BY <2>1, <2>3 DEF OnceInv, Exclusive, Phase
  <2>4. CASE i # k /\ j # k
    BY <2>4 DEF OnceInv, Exclusive, Phase
  <2> QED BY <2>2, <2>3, <2>4
<1>3. Unanswered'
  BY <1>1 DEF OnceInv, Unanswered, Phase
<1>4. PendingAgree'
  BY <1>1 DEF OnceInv, PendingAgree, Phase
<1>5. SuccessesAgree'
  BY <1>1 DEF OnceInv, SuccessesAgree
<1> QED BY <1>2, <1>3, <1>4, <1>5 DEF OnceInv

LEMMA MovesKeepsOnce ==
  ASSUME OnceInv, NEW k \in Slots, Kept, NEW p, Moves(k, p), p # "post",
         p \in Working => Phase(k) \in Working,
         p \in Cleared => Phase(k) \in Cleared
  PROVE  OnceInv'
  BY OneJobKeepsOnce DEF Moves, OnlyJob, Kept

LEMMA FailureKeepsOnce ==
  ASSUME OnceInv, NEW k \in Slots, Kept,
         NEW c, c # "OK", Answers(k, Failure(c)), Phase(k) \in Working
  PROVE  OnceInv'
  BY OneJobKeepsOnce DEF Answers, OnlyJob, Kept, Failure, Cleared

(* A job that answers from earlier results agrees with all of them.        *)
LEMMA FromPriorKeepsOnce ==
  ASSUME TypeOK, OnceInv, AllScanned, NEW k \in Slots, Kept,
         Phase(k) \in Working,
         FindResults(Req(k).id) # {},
         Answers(k, FromPrior(k, FindResults(Req(k).id)))
  PROVE  OnceInv'
<1> DEFINE prior == FindResults(Req(k).id)
           a == FromPrior(k, FindResults(Req(k).id))
           o == CHOOSE p \in prior : \A q \in prior : p <= q
<1>1. prior \in SUBSET Slots /\ prior \in SUBSET Nat
  BY FindResultsType DEF TypeOK, Slots
<1>2. ASSUME a.code = "OK", NEW p \in Successes, Req(p).id = Req(k).id
      PROVE  log[p].ans.head = a.head
  <2>1. ~\E q \in prior : Req(q) # Req(k)
    BY <1>2 DEF FromPrior, Failure
  <2>2. a = [log[o].ans EXCEPT !.replay = TRUE]
    BY <2>1 DEF FromPrior
  <2>3. o \in prior
    BY <1>1, OldestExists
  <2>4. log[o] \in Comment
    BY <1>1, <2>3 DEF TypeOK, Slots
  <2>5. a.code = log[o].ans.code /\ a.head = log[o].ans.head
    BY <2>2, <2>4 DEF Comment, Answer
  <2>6. o \in Successes /\ Req(o).id = Req(p).id
    BY <1>1, <1>2, <2>3, <2>5 DEF FindResults, Successes, Results
  <2> QED BY <2>5, <2>6 DEF OnceInv, SuccessesAgree
<1> QED BY <1>2, OneJobKeepsOnce DEF Answers, OnlyJob, Kept, Cleared

LEMMA StartKeepsOnce ==
  ASSUME TypeOK, OnceInv, NEW k \in Slots, Start(k)
  PROVE  OnceInv'
<1>1. Kept /\ (Moves(k, "lookup") \/ Refuses(k))
  BY StepsBeforePush
<1>2. \A j \in Slots : SameGroup(j, k) => Phase(j) \notin Working
  BY DEF Start
<1>3. CASE Moves(k, "lookup")
  BY <1>1, <1>2, <1>3, OneJobKeepsOnce DEF Moves, OnlyJob, Kept, Cleared
<1>4. CASE Refuses(k)
  <2>1. PICK c \in Refusals : Answers(k, Failure(c))
    BY <1>4 DEF Refuses
  <2>2. jobs'[k].ans.code # "OK"
    BY <2>1 DEF Answers, Failure, Refusals
  <2> QED
    BY <1>1, <1>2, <2>1, <2>2, OneJobKeepsOnce
    DEF Answers, OnlyJob, Kept, Cleared
<1> QED BY <1>1, <1>3, <1>4

(* Past the second lookup no result is there.                              *)
LEMMA LookupLockedKeepsOnce ==
  ASSUME TypeOK, OnceInv, AllScanned, NEW k \in Slots, LookupLocked(k)
  PROVE  OnceInv'
<1>1. Kept /\ Phase(k) = "recheck" /\ Phase(k) \in Working
  BY StepsBeforePush DEF Working
<1>2. CASE Moves(k, "task") /\ FindResults(Req(k).id) = {}
  <2>1. Scanned = Slots
    BY ScanAssumption DEF Scanned, AllScanned, Slots, TypeOK
  <2>2. \A p \in Results : Req(p) # Req(k)
    BY <1>2, <2>1 DEF FindResults, Results
  <2> QED BY <1>1, <1>2, <2>2, OneJobKeepsOnce DEF Moves, OnlyJob, Kept
<1>3. CASE /\ FindResults(Req(k).id) # {}
           /\ Answers(k, FromPrior(k, FindResults(Req(k).id)))
  BY <1>1, <1>3, FromPriorKeepsOnce
<1> QED BY <1>2, <1>3, StepsBeforePush

(* A job that reports a success of its own is the first to do so.          *)
LEMMA ConfirmKeepsOnce ==
  ASSUME TypeOK, IdInv, AnswerInv, OnceInv, NEW k \in Slots, ConfirmRun(k)
  PROVE  OnceInv'
<1>1. Kept /\ Phase(k) = "confirm" /\ Phase(k) \in Working
  BY StepsAfterBuild DEF Working
<1>2. ASSUME Answers(k, [code |-> "OK", head |-> jobs[k].cand,
                         run |-> jobs[k].run, replay |-> FALSE])
      PROVE  OnceInv'
  <2>1. Phase(k) \in Cleared
    BY <1>1 DEF Cleared
  <2>2. Admitted(k)
    BY <2>1, ClearedIsAdmitted
  <2>3. ASSUME NEW p \in Successes PROVE Req(p).id # Req(k).id
    <3>1. Backed(Req(p), log[p].ans)
      BY DEF AnswerInv, CommentInv, Justified, Successes, Results
    <3>2. Req(p).id = Req(k).id => Req(p) = Req(k)
      BY <2>2, <3>1, BackedIsOneRequest
    <3>3. Req(p) # Req(k)
      BY <2>1 DEF OnceInv, Unanswered, Successes
    <3> QED BY <3>2, <3>3
  <2> QED
    BY <1>1, <1>2, <2>3, OneJobKeepsOnce DEF Answers, OnlyJob, Kept, Cleared
<1>3. CASE Refuses(k)
  BY <1>1, <1>3, FailureKeepsOnce DEF Refuses, Refusals
<1> QED BY <1>2, <1>3, StepsAfterBuild

LEMMA RefusesKeepsOnce ==
  ASSUME OnceInv, NEW k \in Slots, Kept, Refuses(k), Phase(k) \in Working
  PROVE  OnceInv'
  BY FailureKeepsOnce DEF Refuses, Refusals

(* The steps that touch nothing but their own job.                         *)
LEMMA QuietKeepsOnce ==
  ASSUME TypeOK, IdInv, AnswerInv, OnceInv, AllScanned, NEW k \in Slots
  PROVE  /\ Ignore(k) \/ Rerun(k) \/ Crash(k) => OnceInv'
         /\ Start(k) \/ LookupPrior(k) \/ LookupLocked(k) => OnceInv'
         /\ CheckCollision(k) => OnceInv'
         /\ CheckTask(k) \/ CheckHead(k) \/ ApiFailure(k) => OnceInv'
         /\ PushRefused(k) \/ PushFailed(k) => OnceInv'
         /\ ExplainFailedPush(k) \/ DispatchFailed(k) => OnceInv'
         /\ ConfirmRun(k) => OnceInv'
<1> USE DEF Working, Cleared
<1>1. Ignore(k) \/ Crash(k) => OnceInv'
  BY StepsBeforePush, MovesKeepsOnce
<1>2. Rerun(k) => OnceInv'
  <2>1. NewJob("posted") \in Job /\ NewJob("posted").phase = "posted"
    BY NewJobType DEF Phases, NewJob
  <2>2. Rerun(k) => OnlyJob(k) /\ jobs'[k] = NewJob("posted")
    BY <2>1, SetJob DEF Rerun
  <2> QED BY <2>1, <2>2, OneJobKeepsOnce DEF OnlyJob, Rerun
<1>3. Start(k) => OnceInv'
  BY StartKeepsOnce
<1>4. LookupPrior(k) => OnceInv'
  BY StepsBeforePush, MovesKeepsOnce, FromPriorKeepsOnce
<1>5. LookupLocked(k) => OnceInv'
  BY LookupLockedKeepsOnce
<1>6. CheckCollision(k) => OnceInv'
  BY StepsBeforePush, MovesKeepsOnce, FailureKeepsOnce
<1>7. CheckTask(k) => OnceInv'
  BY StepsBeforePush, MovesKeepsOnce, RefusesKeepsOnce
<1>8. CheckHead(k) => OnceInv'
  BY StepsBeforePush, MovesKeepsOnce, RefusesKeepsOnce
<1>9. ApiFailure(k) => OnceInv'
  BY StepsBeforePush, RefusesKeepsOnce
<1>10. PushRefused(k) \/ PushFailed(k) => OnceInv'
  BY StepsAfterBuild, MovesKeepsOnce
<1>11. ExplainFailedPush(k) \/ DispatchFailed(k) => OnceInv'
  BY StepsAfterBuild, RefusesKeepsOnce
<1>12. ConfirmRun(k) => OnceInv'
  BY ConfirmKeepsOnce
<1> QED BY <1>1, <1>2, <1>3, <1>4, <1>5, <1>6, <1>7, <1>8, <1>9, <1>10,
           <1>11, <1>12

(* The steps of a job that change the repository too.                      *)
LEMMA RepoStepsKeepOnce ==
  ASSUME TypeOK, OnceInv, NEW k \in Slots
  PROVE  /\ BuildCandidate(k) => OnceInv'
         /\ PushAccepted(k) \/ PushUnacknowledged(k) => OnceInv'
         /\ DispatchCI(k) => OnceInv'
<1> USE DEF Working, Cleared
<1>1. jobs[k] \in Job /\ jobs \in Seq(Job) /\ Slots = 1 .. Len(jobs)
  BY DEF TypeOK, Slots
<1>2. BuildCandidate(k) => OnceInv'
  <2> SUFFICES ASSUME BuildCandidate(k) PROVE OnceInv'
    OBVIOUS
  <2>1. UNCHANGED log /\ Phase(k) = "build"
    BY DEF BuildCandidate
  <2>2. CASE ref[Branch(k)] # Req(k).base
    <3>1. Answers(k, Failure("EXPECTED_HEAD_MISMATCH"))
      BY <2>2, FailureAnswers DEF BuildCandidate, Codes
    <3> QED BY <2>1, <3>1, OneJobKeepsOnce DEF Answers, OnlyJob, Failure
  <2>3. CASE ref[Branch(k)] = Req(k).base
    <3>1. /\ \A i \in Slots : i # k => jobs'[i] = jobs[i]
          /\ jobs'[k].phase = "lease"
      BY <1>1, <2>3 DEF BuildCandidate, Job
    <3> QED BY <2>1, <3>1, OneJobKeepsOnce
  <2> QED BY <2>2, <2>3
<1>3. PushAccepted(k) \/ PushUnacknowledged(k) => OnceInv'
  <2> SUFFICES ASSUME PushAccepted(k) \/ PushUnacknowledged(k)
               PROVE  OnceInv'
    OBVIOUS
  <2>1. UNCHANGED log /\ Phase(k) = "lease"
    BY DEF PushAccepted, PushUnacknowledged, Install
  <2>2. Moves(k, "dispatch") \/ Moves(k, "explain")
    BY GotoMoves DEF PushAccepted, PushUnacknowledged, Phases
  <2> QED BY <2>1, <2>2, OneJobKeepsOnce DEF Moves, OnlyJob
<1>4. DispatchCI(k) => OnceInv'
  <2> SUFFICES ASSUME DispatchCI(k) PROVE OnceInv'
    OBVIOUS
  <2>1. UNCHANGED log /\ Phase(k) = "dispatch"
    BY DEF DispatchCI
  <2>2. /\ \A i \in Slots : i # k => jobs'[i] = jobs[i]
        /\ jobs'[k].phase = "confirm"
    BY <1>1 DEF DispatchCI, Job
  <2> QED BY <2>1, <2>2, OneJobKeepsOnce
<1> QED BY <1>2, <1>3, <1>4

(* A step that starts, clears and answers nothing.                         *)
LEMMA NothingHappens ==
  ASSUME OnceInv, Grows,
         Results' = Results, \A i \in Slots : SameGroup(i, i),
         \A i \in Slots' : jobs'[i].phase \in Working \cup {"post"} =>
           /\ i \in Slots /\ jobs'[i].phase = Phase(i)
           /\ jobs'[i].ans = jobs[i].ans
  PROVE  OnceInv'
<1>1. /\ \A i \in Slots : Req(i)' = Req(i)
      /\ \A i, j \in Slots : SameGroup(i, j)' <=> SameGroup(i, j)
      /\ Results \subseteq Slots /\ Successes \subseteq Slots
      /\ Successes' = Successes
      /\ \A i \in Slots : log'[i] = log[i]
  BY DEF Grows, Results, Successes, Req, SameGroup, Class, Branch
<1>2. Exclusive'
  BY <1>1 DEF OnceInv, Exclusive, Phase
<1>3. Unanswered'
  BY <1>1 DEF OnceInv, Unanswered, Phase, Cleared
<1>4. PendingAgree'
  BY <1>1 DEF OnceInv, PendingAgree, Phase
<1>5. SuccessesAgree'
  BY <1>1 DEF OnceInv, SuccessesAgree
<1> QED BY <1>2, <1>3, <1>4, <1>5 DEF OnceInv

LEMMA EnvironmentKeepsOnce ==
  ASSUME TypeOK, OnceInv
  PROVE  /\ \A author \in {"owner", "other"} : \A r : Post(author, r) => OnceInv'
         /\ \A k \in Slots : Enqueue(k) => OnceInv'
         /\ \A b \in Branches : BranchStep(b) => OnceInv'
         /\ UNCHANGED vars => OnceInv'
<1> USE DEF Working
<1>1. \A i \in Slots : SameGroup(i, i)
  BY DEF SameGroup
<1>2. ASSUME NEW author \in {"owner", "other"}, NEW r, Post(author, r)
      PROVE  OnceInv'
  <2>1. PICK n \in Nat : n = Len(log) + 1
    BY DEF TypeOK
  <2>2. /\ jobs \in Seq(Job) /\ Len(jobs) = Len(log) /\ Slots = 1 .. Len(log)
        /\ jobs' = Append(jobs, NewJob("posted"))
        /\ log' = Append(log, [author |-> author, req |-> r, ans |-> NoAnswer])
    BY <1>2 DEF TypeOK, Slots, Post
  <2>3. /\ Slots' = Slots \cup {n}
        /\ \A i \in Slots : log'[i] = log[i] /\ jobs'[i] = jobs[i]
        /\ log'[n].author # "bot" /\ jobs'[n] = NewJob("posted")
    BY <1>2, <2>1, <2>2 DEF TypeOK, Slots
  <2>4. Grows /\ Results' = Results
    BY <1>2, <2>3 DEF Grows, Results, Post, repoVars
  <2>5. jobs'[n].phase = "posted"
    BY <2>3 DEF NewJob
  <2> QED BY <1>1, <2>3, <2>4, <2>5, NothingHappens DEF Phase
<1>3. ASSUME NEW k \in Slots, Enqueue(k) PROVE OnceInv'
  <2>1. \A i \in Slots : jobs[i] \in Job
    BY JobType
  <2>2. Grows /\ Slots' = Slots /\ Results' = Results
    BY <1>3, KeptGrows DEF Enqueue, Kept, Results
  <2>3. \A i \in Slots : \/ jobs'[i] = jobs[i]
                         \/ jobs'[i].phase \in {"pending", "cancelled"}
    BY <1>3, <2>1 DEF Enqueue, Job
  <2> QED BY <1>1, <2>2, <2>3, NothingHappens DEF Phase
<1>4. ASSUME NEW b \in Branches, BranchStep(b) PROVE OnceInv'
  <2>1. Grows /\ UNCHANGED <<log, jobs>> /\ Slots' = Slots /\ Results' = Results
    BY <1>4, BranchStepEffect DEF Slots, Results
  <2> QED BY <1>1, <2>1, NothingHappens DEF Phase
<1>5. ASSUME UNCHANGED vars PROVE OnceInv'
  <2>1. Grows /\ UNCHANGED <<log, jobs>> /\ Slots' = Slots /\ Results' = Results
    BY <1>5 DEF vars, Grows, Slots, Results
  <2> QED BY <1>1, <2>1, NothingHappens DEF Phase
<1> QED BY <1>2, <1>3, <1>4, <1>5

(* Two jobs with a success to post for one id are one job: both stand for  *)
(* the one request that was installed under it.                            *)
LEMMA OnePendingSuccess ==
  ASSUME TypeOK, IdInv, AnswerInv, Exclusive,
         NEW j \in Slots, NEW k \in Slots, Phase(j) = "post", Phase(k) = "post",
         jobs[j].ans.code = "OK", jobs[k].ans.code = "OK",
         Req(j).id = Req(k).id
  PROVE  j = k
<1>1. Backed(Req(j), jobs[j].ans) /\ Backed(Req(k), jobs[k].ans)
  BY DEF AnswerInv, JobInv, Justified
<1> DEFINE s == commits[jobs[j].ans.head].slot
<1>2. /\ s \in Slots /\ Req(s) = Req(j)
      /\ jobs[j].ans.head \in DOMAIN commits
  BY <1>1 DEF Backed, TypeOK
<1>3. Admitted(s)
  BY <1>2 DEF Admitted
<1>4. Req(k) = Req(s) /\ Class(s) # "malformed"
  BY <1>1, <1>2, <1>3, BackedIsOneRequest
<1>5. SameGroup(j, k)
  BY <1>2, <1>4, OneRequestOneGroup DEF Class
<1> QED BY <1>5 DEF Exclusive, Working

LEMMA PublishKeepsOnce ==
  ASSUME TypeOK, IdInv, AnswerInv, OnceInv, NEW k \in Slots,
         NEW p \in {"done", "dead"}, Publish(k, p)
  PROVE  OnceInv'
<1>1. PICK n \in Nat : n = Len(log) + 1
  BY DEF TypeOK
<1>2. /\ log \in Seq(Comment) /\ Slots = 1 .. Len(log) /\ n \notin Slots
      /\ log' = Append(log, [author |-> "bot", req |-> Req(k),
                             ans |-> jobs[k].ans])
  BY <1>1 DEF TypeOK, Slots, Publish
<1>3. /\ Slots' = Slots \cup {n}
      /\ \A i \in Slots : log'[i] = log[i]
      /\ log'[n] = [author |-> "bot", req |-> Req(k), ans |-> jobs[k].ans]
  BY <1>1, <1>2 DEF Slots
<1>4. /\ \A i \in Slots : Req(i)' = Req(i) /\ Class(i)' = Class(i)
      /\ \A i, j \in Slots : SameGroup(i, j)' <=> SameGroup(i, j)
      /\ Req(n)' = Req(k)
  BY <1>3 DEF Req, SameGroup, Class, Branch
<1>5. /\ Results' = Results \cup {n}
      /\ \A i : i \in Successes' <=>
                 i \in Successes \/ (i = n /\ jobs[k].ans.code = "OK")
      /\ Results \subseteq Slots /\ Successes \subseteq Slots
  <2>1. Results \subseteq Slots /\ Successes \subseteq Slots
    BY DEF Results, Successes
  <2>0. log'[n].author = "bot" /\ log'[n].ans = jobs[k].ans
    BY <1>3
  <2>2. \A i : i \in Results' <=> i \in Results \/ i = n
    <3> SUFFICES ASSUME NEW i \in Slots \cup {n}
                 PROVE  i \in Results' <=> i \in Results \/ i = n
      BY <1>3 DEF Results
    <3>1. CASE i = n
      BY <1>3, <2>0, <3>1 DEF Results
    <3>2. CASE i \in Slots
      BY <1>2, <1>3, <3>2 DEF Results
    <3> QED BY <3>1, <3>2
  <2>3. \A i : i \in Successes' <=>
                i \in Successes \/ (i = n /\ jobs[k].ans.code = "OK")
    <3> SUFFICES ASSUME NEW i \in Results \cup {n}
                 PROVE  i \in Successes' <=>
                          i \in Successes \/ (i = n /\ jobs[k].ans.code = "OK")
      BY <2>2 DEF Successes
    <3>1. CASE i = n
      BY <1>2, <2>0, <2>1, <2>2, <3>1 DEF Successes
    <3>2. CASE i \in Results
      <4>1. i # n /\ log'[i] = log[i]
        BY <1>2, <1>3, <2>1, <3>2
      <4> QED BY <2>2, <3>2, <4>1 DEF Successes
    <3> QED BY <3>1, <3>2
  <2> QED BY <2>1, <2>2, <2>3
<1>6. /\ Phase(k) = "post" /\ jobs'[k].phase \in {"done", "dead"}
      /\ jobs'[n].phase = "none"
      /\ \A i \in Slots : i # k => jobs'[i] = jobs[i]
  BY <1>1, PublishEffect DEF NewJob
<1>7. ASSUME NEW i \in Slots', jobs'[i].phase \in Working
      PROVE  i \in Slots /\ i # k /\ jobs'[i] = jobs[i]
  BY <1>3, <1>6, <1>7 DEF Working
<1>8. Exclusive'
  BY <1>4, <1>7 DEF OnceInv, Exclusive, Phase
<1>9. Unanswered'
  <2> SUFFICES ASSUME NEW i \in Slots', jobs'[i].phase \in Cleared,
                      NEW q \in Results', Req(q)' = Req(i)'
               PROVE  FALSE
    BY DEF Unanswered, Phase
  <2>1. i \in Slots /\ i # k /\ Phase(i) \in Cleared
    BY <1>7 DEF Cleared, Phase
  <2>2. CASE q \in Results
    BY <1>4, <1>5, <2>1, <2>2 DEF OnceInv, Unanswered
  <2>3. CASE q = n
    <3>1. Req(i) = Req(k)
      BY <1>4, <2>1, <2>3
    <3>2. Class(k) # "malformed"
      BY <2>1, <3>1, ClearedIsAdmitted DEF Class
    <3>3. SameGroup(i, k)
      BY <3>1, <3>2, OneRequestOneGroup
    <3> QED
      BY <1>6, <2>1, <3>3 DEF OnceInv, Exclusive, Cleared, Working
  <2> QED BY <1>5, <2>2, <2>3
<1>10. PendingAgree'
  <2> SUFFICES ASSUME NEW i \in Slots', jobs'[i].phase = "post",
                      jobs'[i].ans.code = "OK",
                      NEW q \in Successes', Req(q)'.id = Req(i)'.id
               PROVE  log'[q].ans.head = jobs'[i].ans.head
    BY DEF PendingAgree, Phase
  <2>1. i \in Slots /\ i # k /\ jobs'[i] = jobs[i] /\ Phase(i) = "post"
    BY <1>7 DEF Working, Phase
  <2>2. CASE q \in Successes
    BY <1>3, <1>4, <1>5, <2>1, <2>2 DEF OnceInv, PendingAgree
  <2>3. CASE q = n /\ jobs[k].ans.code = "OK"
    BY <1>4, <1>6, <2>1, <2>3, OnePendingSuccess DEF OnceInv
  <2> QED BY <1>5, <2>2, <2>3
<1>11. SuccessesAgree'
  <2> SUFFICES ASSUME NEW i \in Successes', NEW j \in Successes',
                      Req(i)'.id = Req(j)'.id
               PROVE  log'[i].ans.head = log'[j].ans.head
    BY DEF SuccessesAgree
  <2>1. ASSUME NEW q \in Successes, jobs[k].ans.code = "OK",
               Req(q).id = Req(k).id
        PROVE  log[q].ans.head = jobs[k].ans.head
    BY <1>6, <2>1 DEF OnceInv, PendingAgree
  <2>2. CASE i \in Successes /\ j \in Successes
    BY <1>3, <1>4, <1>5, <2>2 DEF OnceInv, SuccessesAgree
  <2>3. log'[n].ans.head = jobs[k].ans.head
    BY <1>3
  <2>4. n \in Successes' => jobs[k].ans.code = "OK"
    BY <1>2, <1>5
  <2>5. CASE i = n /\ j \in Successes
    <3>1. j \in Slots /\ log'[j] = log[j] /\ Req(j)' = Req(j)
      BY <1>3, <1>4, <1>5, <2>5
    <3>2. Req(j).id = Req(k).id
      BY <1>4, <2>5, <3>1
    <3> QED BY <2>1, <2>3, <2>4, <2>5, <3>1, <3>2
  <2>6. CASE i \in Successes /\ j = n
    <3>1. i \in Slots /\ log'[i] = log[i] /\ Req(i)' = Req(i)
      BY <1>3, <1>4, <1>5, <2>6
    <3>2. Req(i).id = Req(k).id
      BY <1>4, <2>6, <3>1
    <3> QED BY <2>1, <2>3, <2>4, <2>6, <3>1, <3>2
  <2> QED BY <1>5, <2>2, <2>5, <2>6
<1> QED BY <1>8, <1>9, <1>10, <1>11 DEF OnceInv

LEMMA NextKeepsOnce ==
  TypeOK /\ IdInv /\ AnswerInv /\ AllScanned /\ OnceInv /\ [Next]_vars
    => OnceInv'
<1> SUFFICES ASSUME TypeOK, IdInv, AnswerInv, AllScanned, OnceInv, [Next]_vars
             PROVE  OnceInv'
  OBVIOUS
<1>1. ASSUME NEW k \in Slots,
             Preflight(k) \/ Rerun(k) \/ JobStep(k) \/ Fault(k)
      PROVE  OnceInv'
  <2>1. CASE PostResult(k) \/ PostUnacknowledged(k)
    BY <2>1, PublishKeepsOnce DEF PostResult, PostUnacknowledged
  <2> QED
    BY <1>1, <2>1, QuietKeepsOnce, RepoStepsKeepOnce, EnvironmentKeepsOnce
    DEF Preflight, JobStep, Fault
<1> QED BY <1>1, EnvironmentKeepsOnce DEF Next

(* All that is known of the publisher while no listing has been cut off.   *)
PublisherInv == TypeInv /\ IdInv /\ AnswerInv /\ OnceInv

LEMMA PublisherAlways == Spec /\ []AllScanned => []PublisherInv
<1>1. Init => PublisherInv
  <2>1. Init => IdInv
    BY DEF Init, IdInv, CommitsHaveJobs, AdmittedAgree, Slots
  <2>2. Init => AnswerInv
    BY DEF Init, AnswerInv, Slots
  <2>3. Init => OnceInv
    BY DEF Init, OnceInv, Exclusive, Unanswered, PendingAgree, SuccessesAgree,
           Successes, Results, Slots
  <2> QED BY <2>1, <2>2, <2>3, InitTypes DEF PublisherInv
<1>2. PublisherInv /\ AllScanned /\ [Next]_vars => PublisherInv'
  BY NextKeepsTypes, NextKeepsIds, NextKeepsAnswers, NextKeepsOnce
  DEF PublisherInv, TypeInv
<1> QED BY <1>1, <1>2, PTL DEF Spec

(* A request id has one success to report, as long as no listing was cut   *)
(* off: a job that makes a commit of its own has found no result, and while*)
(* it works no other job of its request does.                              *)
THEOREM OneSuccessPerId == Spec /\ []AllScanned => []SuccessesAgree
<1>1. PublisherInv => SuccessesAgree
  BY DEF PublisherInv, OnceInv
<1> QED BY <1>1, PublisherAlways, PTL

(* Only a push installs a commit, that of the job that pushes.             *)
LEMMA InstalledByPush ==
  ASSUME TypeOK, [Next]_vars, NEW c \in installed' \ installed
  PROVE  \E k \in Slots : /\ Phase(k) = "lease" /\ Install(k) /\ c = jobs[k].cand
<1>1. ASSUME NEW author \in {"owner", "other"}, NEW r \in Proposals,
             Post(author, r)
      PROVE  FALSE
  BY <1>1 DEF Post, repoVars
<1>2. ASSUME NEW b \in Branches, BranchStep(b) PROVE FALSE
  BY <1>2, BranchStepEffect
<1>3. ASSUME NEW k \in Slots,
             Preflight(k) \/ Rerun(k) \/ JobStep(k) \/ Fault(k)
      PROVE  Phase(k) = "lease" /\ Install(k) /\ c = jobs[k].cand
  <2>1. CASE PushAccepted(k) \/ PushUnacknowledged(k)
    BY <2>1 DEF PushAccepted, PushUnacknowledged, Install
  <2>2. CASE BuildCandidate(k) \/ DispatchCI(k)
    BY <2>2 DEF BuildCandidate, DispatchCI
  <2>3. CASE PostResult(k) \/ PostUnacknowledged(k)
    BY <2>3 DEF PostResult, PostUnacknowledged, Publish, repoVars
  <2>4. CASE ~(PushAccepted(k) \/ PushUnacknowledged(k) \/ BuildCandidate(k)
               \/ DispatchCI(k) \/ PostResult(k) \/ PostUnacknowledged(k))
    <3>1. CASE Enqueue(k)
      BY <3>1 DEF Enqueue, repoVars
    <3>2. CASE \E P, Q : Leads(k, P, Q)
      BY <3>2 DEF Leads, Quiet, repoVars
    <3> QED BY <1>3, <2>4, <3>1, <3>2, QuietSteps, Zenon
            DEF Preflight, JobStep, Fault
  <2> QED BY <2>1, <2>2, <2>3, <2>4
<1>4. CASE UNCHANGED vars
  BY <1>4 DEF vars
<1> QED BY <1>1, <1>2, <1>3, <1>4 DEF Next

(* A request that has a result moves its branch no more, as long as no     *)
(* listing was cut off.                                                    *)
THEOREM AnsweredNeverPublished ==
  Spec /\ []AllScanned => AnsweredNeverPublishes
<1>1. ASSUME PublisherInv, [Next]_vars, NEW c \in installed' \ installed,
             NEW q \in Results
      PROVE  Req(q) # Req(commits[c].slot)
  <2>1. PICK k \in Slots : Phase(k) = "lease" /\ c = jobs[k].cand
    BY <1>1, InstalledByPush DEF PublisherInv, TypeInv
  <2>2. commits[c].slot = k
    BY <1>1, <2>1 DEF PublisherInv, TypeInv, CandidateInv
  <2> QED
    BY <1>1, <2>1, <2>2 DEF PublisherInv, OnceInv, Unanswered, Cleared, Working
<1>2. PublisherInv /\ [Next]_vars =>
        [\A c \in installed' \ installed :
           \A k \in Results : Req(k) # Req(commits[c].slot)]_vars
  BY <1>1
<1> QED BY <1>2, PublisherAlways, PTL DEF Spec, AnsweredNeverPublishes

-----------------------------------------------------------------------------
(* The publisher implements its contract.                                  *)

(* What was published and confirmed stays so while the repository grows.   *)
LEMMA PublicationsStay ==
  ASSUME PublisherInv, Grows, installed' = installed
  PROVE  Publications' = Publications
<1>1. \A c \in installed : /\ c \in DOMAIN commits
                           /\ commits[c].slot \in Slots
  BY DEF PublisherInv, TypeInv, TypeOK, IdInv, CommitsHaveJobs
<1>2. \A c \in installed : Req(commits[c].slot)' = Req(commits[c].slot)
  BY <1>1 DEF Grows, Req
<1> QED BY <1>2 DEF Publications

LEMMA ConfirmationsStay ==
  ASSUME Grows, Results' = Results
  PROVE  Confirmations' = Confirmations
<1>1. \A k \in Results : log'[k] = log[k] /\ Req(k)' = Req(k)
  BY DEF Grows, Results, Req
<1>2. Successes' = Successes /\ Successes \subseteq Results
  BY <1>1 DEF Successes
<1> QED BY <1>1, <1>2 DEF Confirmations

LEMMA NothingForTheContract ==
  ASSUME PublisherInv, Grows, Results' = Results, UNCHANGED <<ref, installed>>
  PROVE  UNCHANGED Contract!vars
  BY PublicationsStay, ConfirmationsStay DEF Contract!vars

(* Pushes and resets by other writers.                                     *)
LEMMA BranchStepMoves ==
  ASSUME PublisherInv, NEW b \in Branches, BranchStep(b)
  PROVE  [Contract!Next]_(Contract!vars)
<1>1. /\ TypeOK /\ Grows /\ UNCHANGED <<log, installed>>
      /\ Results' = Results
  BY BranchStepEffect DEF PublisherInv, TypeInv, Results, Slots
<1>2. UNCHANGED <<Publications, Confirmations>>
  BY <1>1, PublicationsStay, ConfirmationsStay
<1>3. CASE UNCHANGED ref
  BY <1>2, <1>3 DEF Contract!vars
<1>4. CASE OwnerPush(b) \/ Rewind(b)
  <2>1. TypeInv'
    BY NextKeepsTypes DEF PublisherInv, Next
  <2>2. ref' \in [Branches -> Nat] /\ ref \in [Branches -> Nat]
    BY <1>1, <2>1 DEF TypeInv, TypeOK
  <2>3. ref' = [ref EXCEPT ![b] = ref'[b]]
    BY <1>4, <2>2 DEF OwnerPush, Rewind
  <2>4. Contract!Move(b)
    BY <1>2, <2>2, <2>3 DEF Contract!Move
  <2> QED BY <2>4 DEF Contract!Next
<1> QED BY <1>3, <1>4 DEF BranchStep, Release, CatchUp

(* An accepted push is a publication, whether it is acknowledged or not.   *)
LEMMA PushPublishes ==
  ASSUME PublisherInv, NEW k \in Slots, Phase(k) = "lease", Install(k)
  PROVE  Contract!Next
<1> DEFINE c == jobs[k].cand
           p == [req |-> Req(k), commit |-> c]
<1>1. /\ TypeOK /\ log[k] \in Comment
      /\ c \in DOMAIN commits /\ commits[c].slot = k /\ c \notin installed
      /\ commits \in Seq(CommitRecord)
  BY DEF PublisherInv, TypeInv, TypeOK, AnswerInv, JobInv, Slots
<1>2. UNCHANGED <<log, commits>> /\ installed' = installed \cup {c}
  BY DEF Install
<1>3. \A d \in installed : d \in DOMAIN commits /\ commits[d].slot \in Slots
  BY <1>1 DEF PublisherInv, IdInv, CommitsHaveJobs, TypeOK
<1>4. p \in Contract!Publication
  BY <1>1 DEF Contract!Publication, Comment, Req
<1>5. Publications' = Publications \cup {p}
  BY <1>1, <1>2 DEF Publications, Req
<1>6. Confirmations' = Confirmations
  BY <1>2 DEF Confirmations, Successes, Results, Slots, Req
<1>7. ref[p.req.branch] = p.req.base
  BY DEF Install, Branch
<1>8. \A q \in Publications : q.commit # p.commit
  BY <1>1 DEF Publications
<1>9. ASSUME NEW q \in Publications, q.req.id = p.req.id PROVE q.req = p.req
  <2>1. PICK d \in installed : q = [req |-> Req(commits[d].slot), commit |-> d]
    BY DEF Publications
  <2>2. Admitted(commits[d].slot) /\ Admitted(k)
    BY <1>1, <1>3 DEF Admitted
  <2> QED BY <1>3, <1>9, <2>1, <2>2 DEF PublisherInv, IdInv, AdmittedAgree
<1>10. \A q \in Confirmations : q.req # p.req
  BY DEF PublisherInv, OnceInv, Unanswered, Cleared, Working, Confirmations,
         Successes
<1>11. ref' = [ref EXCEPT ![p.req.branch] = p.commit]
  BY DEF Install, Branch
<1>12. p \in Publications' \ Publications
  BY <1>5, <1>8
<1> HIDE DEF p
<1>13. Contract!Publish(p)
  BY <1>4, <1>5, <1>6, <1>7, <1>8, <1>9, <1>10, <1>11 DEF Contract!Publish
<1> QED BY <1>12, <1>13 DEF Contract!Next

(* A success that is posted confirms a publication; other results are none *)
(* of the contract's.                                                      *)
LEMMA PublishConfirms ==
  ASSUME PublisherInv, NEW k \in Slots, NEW e \in {"done", "dead"},
         Publish(k, e)
  PROVE  [Contract!Next]_(Contract!vars)
<1> DEFINE p == [req |-> Req(k), commit |-> jobs[k].ans.head]
<1>1. PICK n \in Nat : n = Len(log) + 1
  BY DEF PublisherInv, TypeInv, TypeOK
<1>2. /\ log \in Seq(Comment) /\ Slots = 1 .. Len(log) /\ n \notin Slots
      /\ log' = Append(log, [author |-> "bot", req |-> Req(k),
                             ans |-> jobs[k].ans])
  BY <1>1 DEF PublisherInv, TypeInv, TypeOK, Slots, Publish
<1>3. /\ Slots' = Slots \cup {n}
      /\ \A i \in Slots : log'[i] = log[i] /\ Req(i)' = Req(i)
      /\ log'[n].author = "bot" /\ log'[n].ans = jobs[k].ans
      /\ Req(n)' = Req(k)
  BY <1>1, <1>2 DEF Slots, Req
<1>4. Grows /\ UNCHANGED <<ref, installed>>
  BY <1>3 DEF Grows, Publish, repoVars
<1>5. Publications' = Publications
  BY <1>4, PublicationsStay
<1>6. ASSUME NEW i
      PROVE  i \in Successes' <=>
               i \in Successes \/ (i = n /\ jobs[k].ans.code = "OK")
  <2>1. CASE i = n
    BY <1>2, <1>3, <2>1 DEF Successes, Results
  <2>2. CASE i \in Slots
    <3>1. i # n /\ log'[i] = log[i] /\ i \in Slots'
      BY <1>2, <1>3, <2>2
    <3> QED BY <2>2, <3>1 DEF Successes, Results
  <2>3. CASE i \notin Slots /\ i # n
    BY <1>3, <2>3 DEF Successes, Results
  <2> QED BY <2>1, <2>2, <2>3
<1>7. \A i \in Successes : /\ Req(i)' = Req(i)
                           /\ log'[i].ans.head = log[i].ans.head
  BY <1>3 DEF Successes, Results
<1>8. CASE jobs[k].ans.code # "OK"
  <2>1. Successes' = Successes
    BY <1>6, <1>8
  <2>2. Confirmations' = Confirmations
    BY <1>7, <2>1 DEF Confirmations
  <2> QED BY <1>4, <1>5, <2>2 DEF Contract!vars
<1>9. CASE jobs[k].ans.code = "OK"
  <2>1. Successes' = Successes \cup {n}
    BY <1>6, <1>9
  <2>2. Confirmations' = Confirmations \cup {p}
    BY <1>3, <1>7, <2>1 DEF Confirmations
  <2>3. Backed(Req(k), jobs[k].ans)
    BY <1>9 DEF PublisherInv, AnswerInv, JobInv, Justified
  <2>4. p \in Publications
    BY <2>3 DEF Backed, Publications
  <2>5. ASSUME NEW q \in Confirmations, q.req.id = p.req.id PROVE q = p
    <3>1. PICK j \in Successes : q = [req |-> Req(j), commit |-> log[j].ans.head]
      BY DEF Confirmations
    <3>2. log[j].ans.head = jobs[k].ans.head
      BY <1>9, <2>5, <3>1 DEF PublisherInv, OnceInv, PendingAgree, Publish
    <3>3. Backed(Req(j), log[j].ans)
      BY DEF PublisherInv, AnswerInv, CommentInv, Justified, Successes, Results
    <3>4. Req(j) = Req(k)
      BY <2>3, <3>2, <3>3 DEF Backed
    <3> QED BY <3>1, <3>2, <3>4
  <2> HIDE DEF p
  <2>6. Contract!Confirm(p)
    BY <1>4, <1>5, <2>2, <2>4, <2>5 DEF Contract!Confirm
  <2> QED BY <2>4, <2>6 DEF Contract!Next
<1> QED BY <1>8, <1>9

(* Every step is one of the contract or none of its business.              *)
LEMMA StepsRefine ==
  ASSUME PublisherInv, [Next]_vars
  PROVE  [Contract!Next]_(Contract!vars)
<1>1. TypeOK
  BY DEF PublisherInv, TypeInv
<1>2. ASSUME NEW author \in {"owner", "other"}, NEW r \in Proposals,
             Post(author, r)
      PROVE  UNCHANGED Contract!vars
  <2>1. PICK n \in Nat : n = Len(log) + 1
    BY <1>1 DEF TypeOK
  <2>2. /\ Slots' = Slots \cup {n}
        /\ \A i \in Slots : log'[i] = log[i]
        /\ log'[n].author # "bot"
    BY <1>1, <1>2, <2>1 DEF TypeOK, Slots, Post
  <2>3. Grows /\ Results' = Results
    BY <1>2, <2>2 DEF Grows, Results, Post, repoVars
  <2> QED BY <1>2, <2>3, NothingForTheContract DEF Post, repoVars
<1>3. ASSUME NEW k \in Slots,
             Preflight(k) \/ Rerun(k) \/ JobStep(k) \/ Fault(k)
      PROVE  [Contract!Next]_(Contract!vars)
  <2>1. CASE PushAccepted(k) \/ PushUnacknowledged(k)
    BY <2>1, PushPublishes DEF PushAccepted, PushUnacknowledged
  <2>2. CASE PostResult(k) \/ PostUnacknowledged(k)
    BY <2>2, PublishConfirms DEF PostResult, PostUnacknowledged
  <2>3. CASE BuildCandidate(k)
    <3>1. Grows
      <4>1. CASE UNCHANGED commits
        BY <2>3, <4>1 DEF BuildCandidate, Grows, Slots
      <4>2. CASE ref[Branch(k)] = Req(k).base
        <5>1. log[k] \in Comment /\ k \in Nat
          BY <1>1 DEF TypeOK, Slots
        <5>2. Branch(k) \in Branches /\ Req(k).base \in 0 .. Len(commits)
          BY <1>1, <4>2, <5>1 DEF Comment, Request, Req, Branch, TypeOK
        <5>3. /\ DOMAIN commits \subseteq DOMAIN commits'
              /\ \A c \in DOMAIN commits : commits'[c] = commits[c]
          BY <1>1, <2>3, <4>2, <5>1, <5>2, CommitAdded DEF BuildCandidate
        <5> QED BY <2>3, <5>3 DEF BuildCandidate, Grows, Slots
      <4> QED BY <2>3, <4>1, <4>2 DEF BuildCandidate
    <3> QED
      BY <2>3, <3>1, NothingForTheContract DEF BuildCandidate, Results, Slots
  <2>4. CASE DispatchCI(k)
    <3>1. runs \in Seq(Run)
      BY <1>1 DEF TypeOK
    <3>2. /\ DOMAIN runs \subseteq DOMAIN runs'
          /\ \A i \in DOMAIN runs : runs'[i] = runs[i]
      BY <2>4, <3>1 DEF DispatchCI
    <3>3. Grows
      BY <2>4, <3>2 DEF DispatchCI, Grows, Slots
    <3> QED BY <2>4, <3>3, NothingForTheContract DEF DispatchCI, Results, Slots
  <2>5. CASE Enqueue(k) \/ \E P, Q : Leads(k, P, Q)
    <3>1. Kept
      BY <2>5 DEF Enqueue, Leads, Quiet, Kept
    <3> QED
      BY <3>1, KeptGrows, NothingForTheContract DEF Kept, repoVars, Results
  <2> QED BY <1>1, <1>3, <2>1, <2>2, <2>3, <2>4, <2>5, QuietSteps, Zenon
          DEF Preflight, JobStep, Fault
<1>4. ASSUME NEW b \in Branches, BranchStep(b)
      PROVE  [Contract!Next]_(Contract!vars)
  BY <1>4, BranchStepMoves
<1>5. CASE UNCHANGED vars
  <2>1. Grows /\ Results' = Results
    BY <1>5 DEF vars, Grows, Slots, Results
  <2> QED BY <1>5, <2>1, NothingForTheContract DEF vars
<1> QED BY <1>2, <1>3, <1>4, <1>5 DEF Next

(* Jobs, comments, stale reads, crashes, reruns and lost acknowledgements  *)
(* together implement the contract, as long as no listing was cut off: each*)
(* accepted push is one atomic compare-and-set by the only request of its  *)
(* id, which has not been confirmed before, and each success reported      *)
(* confirms that one publication.                                          *)
THEOREM PublisherImplementsContract ==
  Spec /\ []AllScanned => ImplementsContract
<1>1. Init => Contract!Init
  BY DEF Init, Contract!Init, Publications, Confirmations, Successes, Results,
         Slots
<1>2. PublisherInv /\ [Next]_vars => [Contract!Next]_(Contract!vars)
  BY StepsRefine
<1> QED
  BY <1>1, <1>2, PublisherAlways, PTL DEF Spec, ImplementsContract,
     Contract!Spec
=============================================================================
