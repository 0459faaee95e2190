------------------------------ MODULE Publisher ------------------------------
(***************************************************************************)
(* The controlled task-branch publisher.                                   *)
(*                                                                         *)
(* A task owner posts a publish request as an Issue comment.  GitHub       *)
(* Actions runs one job per comment, jobs of one branch one at a time      *)
(* (task-branch-publisher.yml).  A job looks for earlier results of the    *)
(* same request id, checks the task, builds a candidate commit on top of   *)
(* the expected head, installs it with `git push --force-with-lease`,      *)
(* dispatches CI for it, and posts its result as another comment           *)
(* (task_branch_publisher.py, publisher_backend.py).                       *)
(*                                                                         *)
(* Every remote read and write of a job is a step of its own, so that      *)
(* other jobs, other writers of the branch, the REST replica and crashes   *)
(* come between them.                                                      *)
(***************************************************************************)
EXTENDS Naturals, Sequences, FiniteSets

CONSTANTS
  Ids,        (* request identifiers chosen by the owner                   *)
  Branches,   (* task branches                                             *)
  Bodies,     (* the rest of a request: its changes and its CI workflow    *)
  ClassOf,    (* what validation says of a body, see Classes               *)
  ScanLimit,  (* comments one listing returns: 50 pages of 100             *)
  Budget      (* how often the environment may take each bounded step      *)

(* What the checks that depend on the request alone say of it:             *)
(*   malformed  the envelope fails validate_request_shape                  *)
(*   misplaced  the comment is not on the Issue the request names          *)
(*   denied     a path, mode or blob of it is refused by policy            *)
(*   good       none of these                                              *)
Classes == {"malformed", "misplaced", "denied", "good"}

(* Steps of the environment that a budget bounds: comments posted, pushes  *)
(* and rewinds by other writers, tasks released, jobs rerun, and the       *)
(* faults: a job killed, an API call failing, a push failing, and a write  *)
(* that takes effect although its caller sees a failure.                   *)
Bounded == {"post", "push", "rewind", "release", "rerun",
            "crash", "api", "pushfail", "lostack"}

ASSUME ClassAssumption == ClassOf \in [Bodies -> Classes]
ASSUME ScanAssumption == ScanLimit \in Nat
ASSUME BudgetAssumption == Budget \in [Bounded -> Nat]

VARIABLES
  log,        (* the repository's comments, oldest first                   *)
  jobs,       (* jobs[k]: the publisher job of comment k                   *)
  ref,        (* head of each branch on the Git server                     *)
  rest,       (* head of each branch as the REST API shows it              *)
  task,       (* state of the Issue that owns each branch                  *)
  commits,    (* every commit made so far                                  *)
  installed,  (* commits a publisher push has put on a branch              *)
  runs,       (* dispatched CI runs                                        *)
  used        (* budget spent                                              *)

vars == <<log, jobs, ref, rest, task, commits, installed, runs, used>>

repoVars == <<ref, rest, task, commits, installed, runs>>

-----------------------------------------------------------------------------
(* Commits are numbered in the order they are made; 0 is the commit every  *)
(* task branch starts from.                                                *)
Commit == Nat

Request == [id: Ids, branch: Branches, base: Commit, body: Bodies]

(* "none": no answer yet.                                                  *)
Codes == {"none", "OK", "INVALID_SCHEMA", "BRANCH_TASK_MISMATCH",
          "REQUEST_ID_REUSE",
          "TASK_NOT_CLAIMED", "EXPECTED_HEAD_MISMATCH", "FORBIDDEN_PATH",
          "CI_DISPATCH_FAILED", "INTERNAL_ERROR"}

Answer == [code: Codes, head: Commit, run: Nat, replay: BOOLEAN]

Failure(c) == [code |-> c, head |-> 0, run |-> 0, replay |-> FALSE]

NoAnswer == Failure("none")

(* A comment by the owner or by another account carries a request; one by  *)
(* the bot carries the answer to the request it names.  The request stands *)
(* for its fingerprint: the hash of the canonical envelope tells two       *)
(* requests apart exactly when one of these fields differs.                *)
Comment == [author: {"owner", "other", "bot"}, req: Request, ans: Answer]

(* Mutant of Working: a job that was killed keeps its concurrency group.   *)
WorkingOrDead == {"lookup", "collide", "recheck", "task", "head", "build",
                  "lease", "explain", "dispatch", "confirm", "post", "dead"}

(* Job phases, in the order a job goes through them.                       *)
Working == {"lookup", "collide", "recheck", "task", "head", "build", "lease",
            "explain", "dispatch", "confirm", "post"}
Phases == Working \cup {"none", "posted", "pending", "ignored", "cancelled",
                        "dead", "done"}

Job == [phase: Phases, ans: Answer, cand: Commit, run: Nat]

NewJob(p) == [phase |-> p, ans |-> NoAnswer, cand |-> 0, run |-> 0]

(* `slot` is the comment whose job made the commit, 0 for other writers.   *)
CommitRecord == [slot: Nat, branch: Branches, parent: Commit]

(* `claims` is the new_head input the dispatch passed to the run.          *)
Run == [head: Commit, claims: Commit]

-----------------------------------------------------------------------------
(* Helpers.                                                                *)
Phase(k) == jobs[k].phase
Req(k) == log[k].req
Branch(k) == Req(k).branch
Class(k) == ClassOf[Req(k).body]

Slots == DOMAIN log

Goto(k, p) == jobs' = [jobs EXCEPT ![k].phase = p]

(* The job has its result and goes on to post it.                          *)
Reply(k, a) == jobs' = [jobs EXCEPT ![k].phase = "post", ![k].ans = a]

Spend(b) == /\ used[b] < Budget[b]
            /\ used' = [used EXCEPT ![b] = @ + 1]

(* Mutant of Scanned: only the first page of comments is read.             *)
ScannedOnce == {k \in Slots : k <= 1}

(* The listing stops after 50 full pages, oldest comments first.           *)
Scanned == {k \in Slots : k <= ScanLimit}

(* Mutant of FindResults: failures are taken for requests not answered.    *)
FindSuccesses(id) ==
  {k \in Scanned : /\ log[k].author = "bot" /\ Req(k).id = id
                   /\ log[k].ans.code = "OK"}

(* find_results: the bot's result comments that name this id.              *)
FindResults(id) ==
  {k \in Scanned : log[k].author = "bot" /\ Req(k).id = id}

(* Mutants of FindRequests: results are searched in place of requests, and *)
(* requests of other accounts are taken for the owner's.                   *)
FindAnswered(id) ==
  {k \in Scanned : log[k].author = "bot" /\ Req(k).id = id}

FindAnyones(id) ==
  {k \in Scanned : /\ log[k].author # "bot"
                   /\ Class(k) # "malformed"
                   /\ Req(k).id = id}

(* find_request_fingerprints: the owner's well-formed requests for it.     *)
FindRequests(id) ==
  {k \in Scanned : /\ log[k].author = "owner"
                   /\ Class(k) # "malformed"
                   /\ Req(k).id = id}

(* What a job answers when results of its id exist: the first of them if   *)
(* they all answer this very request, and a refusal otherwise.             *)
FromPrior(k, prior) ==
  IF \E p \in prior : Req(p) # Req(k)
  THEN Failure("REQUEST_ID_REUSE")
  ELSE [log[CHOOSE p \in prior : \A q \in prior : p <= q].ans
          EXCEPT !.replay = TRUE]

(* Two comments whose jobs share a concurrency group: the preflight keys a *)
(* request by its branch and an unreadable comment by itself.              *)
SameGroup(j, k) ==
  \/ j = k
  \/ /\ Class(j) # "malformed" /\ Class(k) # "malformed"
     /\ Branch(j) = Branch(k)

-----------------------------------------------------------------------------
Init ==
  /\ log = <<>>
  /\ jobs = <<>>
  /\ ref = [b \in Branches |-> 0]
  /\ rest = [b \in Branches |-> 0]
  /\ task = [b \in Branches |-> "claimed"]
  /\ commits = <<>>
  /\ installed = {}
  /\ runs = <<>>
  /\ used = [b \in Bounded |-> 0]

-----------------------------------------------------------------------------
(* The environment: authors, other writers of the branches, the Issue,     *)
(* the REST replica, and GitHub's scheduling of jobs.                      *)

(* An author writes down a head seen at either endpoint, or posts an       *)
(* earlier request again.                                                  *)
Proposals ==
  {r \in [id: Ids, branch: Branches, base: 0 .. Len(commits), body: Bodies] :
     r.base \in {ref[r.branch], rest[r.branch]}}
    \cup {Req(k) : k \in Slots}

Post(author, r) ==
  /\ Spend("post")
  /\ log' = Append(log, [author |-> author, req |-> r, ans |-> NoAnswer])
  /\ jobs' = Append(jobs, NewJob("posted"))
  /\ UNCHANGED repoVars

(* Preflight job: a comment of another account starts no publish job.      *)
Ignore(k) ==
  /\ Phase(k) = "posted"
  /\ log[k].author # "owner"
  /\ Goto(k, "ignored")
  /\ UNCHANGED <<log, repoVars, used>>

(* Preflight job: the publish job joins its concurrency group.  GitHub     *)
(* keeps one waiting job per group and cancels the one it replaces.        *)
Enqueue(k) ==
  /\ Phase(k) = "posted"
  /\ log[k].author = "owner"
  /\ jobs' = [j \in Slots |->
                IF j = k THEN [jobs[j] EXCEPT !.phase = "pending"]
                ELSE IF Phase(j) = "pending" /\ SameGroup(j, k)
                     THEN [jobs[j] EXCEPT !.phase = "cancelled"]
                     ELSE jobs[j]]
  /\ UNCHANGED <<log, repoVars, used>>

(* The owner runs a finished, failed or cancelled job again.               *)
Rerun(k) ==
  /\ Phase(k) \in {"done", "dead", "cancelled"}
  /\ Spend("rerun")
  /\ jobs' = [jobs EXCEPT ![k] = NewJob("posted")]
  /\ UNCHANGED <<log, repoVars>>

(* Another writer pushes a commit on top of the branch.                    *)
OwnerPush(b) ==
  /\ Spend("push")
  /\ commits' = Append(commits,
                       [slot |-> 0, branch |-> b, parent |-> ref[b]])
  /\ ref' = [ref EXCEPT ![b] = Len(commits')]
  /\ UNCHANGED <<log, jobs, rest, task, installed, runs>>

(* Another writer resets the branch to the parent of its head.             *)
Rewind(b) ==
  /\ ref[b] # 0
  /\ Spend("rewind")
  /\ ref' = [ref EXCEPT ![b] = commits[ref[b]].parent]
  /\ UNCHANGED <<log, jobs, rest, task, commits, installed, runs>>

(* The Issue is closed or loses its label.                                 *)
Release(b) ==
  /\ task[b] = "claimed"
  /\ Spend("release")
  /\ task' = [task EXCEPT ![b] = "released"]
  /\ UNCHANGED <<log, jobs, ref, rest, commits, installed, runs>>

(* The REST endpoint shows the current head of the branch.                 *)
CatchUp(b) ==
  /\ rest[b] # ref[b]
  /\ rest' = [rest EXCEPT ![b] = ref[b]]
  /\ UNCHANGED <<log, jobs, ref, task, commits, installed, runs, used>>

(* A working job is killed: its process ends without a result.  An API     *)
(* failure in find_results, which no handler catches, ends it as well.     *)
Crash(k) ==
  /\ Phase(k) \in Working
  /\ Spend("crash")
  /\ Goto(k, "dead")
  /\ UNCHANGED <<log, repoVars>>

-----------------------------------------------------------------------------
(* The publish job.                                                        *)

(* The group is free: the job starts, and handle_event first checks the    *)
(* event by itself.                                                        *)
Start(k) ==
  /\ Phase(k) = "pending"
  /\ \A j \in Slots : SameGroup(j, k) => Phase(j) \notin Working
  /\ CASE Class(k) = "malformed" -> Reply(k, Failure("INVALID_SCHEMA"))
       [] Class(k) = "misplaced" -> Reply(k, Failure("BRANCH_TASK_MISMATCH"))
       [] OTHER -> Goto(k, "lookup")
  /\ UNCHANGED <<log, repoVars, used>>

LookupPrior(k) ==
  /\ Phase(k) = "lookup"
  /\ LET prior == FindResults(Req(k).id)
     IN  IF prior # {} THEN Reply(k, FromPrior(k, prior))
                       ELSE Goto(k, "collide")
  /\ UNCHANGED <<log, repoVars, used>>

CheckCollision(k) ==
  /\ Phase(k) = "collide"
  /\ IF \E q \in FindRequests(Req(k).id) : Req(q) # Req(k)
     THEN Reply(k, Failure("REQUEST_ID_REUSE"))
     ELSE Goto(k, "recheck")
  /\ UNCHANGED <<log, repoVars, used>>

(* The second look, under the branch lock.  A job is a process of its own, *)
(* so the lock is free whenever it is taken.                               *)
LookupLocked(k) ==
  /\ Phase(k) = "recheck"
  /\ LET prior == FindResults(Req(k).id)
     IN  IF prior # {} THEN Reply(k, FromPrior(k, prior))
                       ELSE Goto(k, "task")
  /\ UNCHANGED <<log, repoVars, used>>

CheckTask(k) ==
  /\ Phase(k) = "task"
  /\ IF task[Branch(k)] # "claimed"
     THEN Reply(k, Failure("TASK_NOT_CLAIMED"))
     ELSE Goto(k, "head")
  /\ UNCHANGED <<log, repoVars, used>>

(* The first comparison with expected_head reads the REST API; the checks  *)
(* of paths and blobs follow it.                                           *)
CheckHead(k) ==
  /\ Phase(k) = "head"
  /\ IF rest[Branch(k)] # Req(k).base
     THEN Reply(k, Failure("EXPECTED_HEAD_MISMATCH"))
     ELSE IF Class(k) = "denied" THEN Reply(k, Failure("FORBIDDEN_PATH"))
                                 ELSE Goto(k, "build")
  /\ UNCHANGED <<log, repoVars, used>>

(* Mutant of BuildCandidate: a commit is named that was never made.        *)
BuildNothing(k) ==
  /\ Phase(k) = "build"
  /\ ref[Branch(k)] = Req(k).base
  /\ jobs' = [jobs EXCEPT ![k].phase = "lease", ![k].cand = Len(commits) + 1]
  /\ UNCHANGED <<log, repoVars, used>>

(* create_candidate_commit fetches the branch from the Git server, which   *)
(* is authoritative, and commits on top of expected_head.                  *)
BuildCandidate(k) ==
  /\ Phase(k) = "build"
  /\ IF ref[Branch(k)] # Req(k).base
     THEN /\ Reply(k, Failure("EXPECTED_HEAD_MISMATCH"))
          /\ UNCHANGED commits
     ELSE /\ commits' = Append(commits, [slot |-> k, branch |-> Branch(k),
                                         parent |-> Req(k).base])
          /\ jobs' = [jobs EXCEPT ![k].phase = "lease",
                                  ![k].cand = Len(commits')]
  /\ UNCHANGED <<log, ref, rest, task, installed, runs, used>>

(* Mutant of Install: `git push --force` without the lease.                *)
InstallForced(k) ==
  /\ ref' = [ref EXCEPT ![Branch(k)] = jobs[k].cand]
  /\ installed' = installed \cup {jobs[k].cand}
  /\ UNCHANGED <<log, rest, task, commits, runs>>

(* The lease holds: the push installs the candidate.                       *)
Install(k) ==
  /\ ref[Branch(k)] = Req(k).base
  /\ ref' = [ref EXCEPT ![Branch(k)] = jobs[k].cand]
  /\ installed' = installed \cup {jobs[k].cand}
  /\ UNCHANGED <<log, rest, task, commits, runs>>

PushAccepted(k) ==
  /\ Phase(k) = "lease"
  /\ Install(k)
  /\ Goto(k, "dispatch")
  /\ UNCHANGED used

PushRefused(k) ==
  /\ Phase(k) = "lease"
  /\ ref[Branch(k)] # Req(k).base
  /\ Goto(k, "explain")
  /\ UNCHANGED <<log, repoVars, used>>

(* The push fails for a reason of its own and leaves the branch alone.     *)
PushFailed(k) ==
  /\ Phase(k) = "lease"
  /\ Spend("pushfail")
  /\ Goto(k, "explain")
  /\ UNCHANGED <<log, repoVars>>

(* The server takes the push but git exits with a failure.                 *)
PushUnacknowledged(k) ==
  /\ Phase(k) = "lease"
  /\ Install(k)
  /\ Spend("lostack")
  /\ Goto(k, "explain")

(* After a failed push the job asks the REST API where the branch is.      *)
ExplainFailedPush(k) ==
  /\ Phase(k) = "explain"
  /\ Reply(k, Failure(IF rest[Branch(k)] # Req(k).base
                      THEN "EXPECTED_HEAD_MISMATCH" ELSE "INTERNAL_ERROR"))
  /\ UNCHANGED <<log, repoVars, used>>

(* The read of the head after an accepted push is answered from the head   *)
(* PublisherRuntimeBackend has just cached, so that check always passes;   *)
(* then CI is dispatched on the branch, whichever head GitHub resolves.    *)
DispatchCI(k) ==
  /\ Phase(k) = "dispatch"
  /\ \E h \in {ref[Branch(k)], rest[Branch(k)]} :
       runs' = Append(runs, [head |-> h, claims |-> jobs[k].cand])
  /\ jobs' = [jobs EXCEPT ![k].phase = "confirm", ![k].run = Len(runs')]
  /\ UNCHANGED <<log, ref, rest, task, commits, installed, used>>

(* The dispatch call fails, or all six attempts to read the run do.        *)
DispatchFailed(k) ==
  /\ Phase(k) \in {"dispatch", "confirm"}
  /\ Spend("api")
  /\ Reply(k, Failure("CI_DISPATCH_FAILED"))
  /\ UNCHANGED <<log, repoVars>>

(* Mutant of ConfirmRun: the run is taken as it is.                        *)
ConfirmAnyRun(k) ==
  /\ Phase(k) = "confirm"
  /\ Reply(k, [code |-> "OK", head |-> jobs[k].cand,
               run |-> jobs[k].run, replay |-> FALSE])
  /\ UNCHANGED <<log, repoVars, used>>

(* The run must be for the very head this job installed.                   *)
ConfirmRun(k) ==
  /\ Phase(k) = "confirm"
  /\ IF runs[jobs[k].run].head = jobs[k].cand
     THEN Reply(k, [code |-> "OK", head |-> jobs[k].cand,
                    run |-> jobs[k].run, replay |-> FALSE])
     ELSE Reply(k, Failure("CI_DISPATCH_FAILED"))
  /\ UNCHANGED <<log, repoVars, used>>

(* A remote call of _publish outside the push and the dispatch fails.      *)
ApiFailure(k) ==
  /\ Phase(k) \in {"task", "head", "build", "explain"}
  /\ Spend("api")
  /\ Reply(k, Failure("INTERNAL_ERROR"))
  /\ UNCHANGED <<log, repoVars>>

(* The result becomes a comment of the bot, which starts no job.           *)
Publish(k, p) ==
  /\ Phase(k) = "post"
  /\ log' = Append(log, [author |-> "bot", req |-> Req(k),
                         ans |-> jobs[k].ans])
  /\ jobs' = Append([jobs EXCEPT ![k].phase = p], NewJob("none"))
  /\ UNCHANGED repoVars

PostResult(k) == Publish(k, "done") /\ UNCHANGED used

(* The comment exists although the job saw its request fail.               *)
PostUnacknowledged(k) == Publish(k, "dead") /\ Spend("lostack")

-----------------------------------------------------------------------------
JobStep(k) ==
  \/ Start(k) \/ LookupPrior(k) \/ CheckCollision(k) \/ LookupLocked(k)
  \/ CheckTask(k) \/ CheckHead(k) \/ BuildCandidate(k)
  \/ PushAccepted(k) \/ PushRefused(k) \/ ExplainFailedPush(k)
  \/ DispatchCI(k) \/ ConfirmRun(k) \/ PostResult(k)

Fault(k) ==
  \/ Crash(k) \/ ApiFailure(k) \/ DispatchFailed(k)
  \/ PushFailed(k) \/ PushUnacknowledged(k) \/ PostUnacknowledged(k)

Preflight(k) == Ignore(k) \/ Enqueue(k)

BranchStep(b) == OwnerPush(b) \/ Rewind(b) \/ Release(b) \/ CatchUp(b)

Next ==
  \/ \E author \in {"owner", "other"}, r \in Proposals : Post(author, r)
  \/ \E k \in Slots : Preflight(k) \/ Rerun(k) \/ JobStep(k) \/ Fault(k)
  \/ \E b \in Branches : BranchStep(b)

Spec == Init /\ [][Next]_vars

(* No log is longer: every attempt at a job posts at most one result.      *)
MaxLog == 2 * Budget["post"] + Budget["rerun"]

(* GitHub runs the preflight of every comment, starts a waiting job once   *)
(* its group is free, and a running job makes progress.  Nothing is owed   *)
(* by authors, by other writers, by the REST replica, or by faults.        *)
Fairness ==
  \A k \in 1 .. MaxLog : /\ WF_vars(k \in Slots /\ Preflight(k))
                         /\ WF_vars(k \in Slots /\ JobStep(k))

FairSpec == Spec /\ Fairness

-----------------------------------------------------------------------------
(* Properties.                                                             *)

(* Every variable has its type, and every index into another variable      *)
(* points at something that exists.                                        *)
TypeOK ==
  /\ log \in Seq(Comment)
  /\ jobs \in Seq(Job) /\ Len(jobs) = Len(log)
  /\ commits \in Seq(CommitRecord)
  /\ \A c \in DOMAIN commits : commits[c].parent < c
  /\ runs \in Seq(Run)
  /\ ref \in [Branches -> 0 .. Len(commits)]
  /\ rest \in [Branches -> 0 .. Len(commits)]
  /\ task \in [Branches -> {"claimed", "released"}]
  /\ installed \subseteq DOMAIN commits
  /\ used \in [Bounded -> Nat]

(* No two different requests under one request id are ever both published: *)
(* every commit a push has installed for the id carries the same request.  *)
OneRequestPerId ==
  \A c, d \in installed :
    Req(commits[c].slot).id = Req(commits[d].slot).id
      => Req(commits[c].slot) = Req(commits[d].slot)

Results == {k \in Slots : log[k].author = "bot"}
Successes == {k \in Results : log[k].ans.code = "OK"}

(* A success result is backed by facts: this request's own commit was      *)
(* installed, it sits directly on expected_head, and the CI run the result *)
(* names was dispatched for that commit and runs on it, so that the run's  *)
(* own check of its checkout passes.                                       *)
SuccessIsBacked ==
  \A k \in Successes :
    LET a == log[k].ans
    IN  /\ a.head \in installed
        /\ Req(commits[a.head].slot) = Req(k)
        /\ commits[a.head].parent = Req(k).base
        /\ a.run \in DOMAIN runs
        /\ runs[a.run] = [head |-> a.head, claims |-> a.head]

(* A request id has at most one success to report, however often it is     *)
(* posted, rerun, or the branch rewound: replays name the same commit.     *)
SuccessesAgree ==
  \A j, k \in Successes :
    Req(j).id = Req(k).id => log[j].ans.head = log[k].ans.head

(* REQUEST_ID_REUSE is only ever answered when the owner really used the   *)
(* id for two different requests; another account cannot cause it.         *)
ReuseIsReal ==
  \A k \in Results :
    log[k].ans.code = "REQUEST_ID_REUSE" =>
      \E q \in Slots : /\ log[q].author = "owner"
                       /\ Req(q).id = Req(k).id
                       /\ Req(q) # Req(k)

(* Once a request has a result, of whichever kind, it moves its branch no  *)
(* more: neither a repost nor a rerun nor a rewound branch makes it.       *)
AnsweredNeverPublishes ==
  [][\A c \in installed' \ installed :
       \A k \in Results : Req(k) # Req(commits[c].slot)]_vars

(* What was published, and what was reported as a success, seen as the     *)
(* state of PublishContract.                                               *)
Publications ==
  {[req |-> Req(commits[c].slot), commit |-> c] : c \in installed}
Confirmations ==
  {[req |-> Req(k), commit |-> log[k].ans.head] : k \in Successes}

Contract == INSTANCE PublishContract
  WITH head <- ref, published <- Publications, confirmed <- Confirmations,
       Requests <- Request

(* Jobs, comments, stale reads and faults together implement the contract: *)
(* each accepted push is one atomic compare-and-set by the only request of *)
(* its id, and every success reported confirms that one publication.       *)
ImplementsContract == Contract!Spec

(* A job that its group lets in gets to an end: nobody waits for a group   *)
(* that is never freed, whoever crashed in it.                             *)
EveryJobEnds ==
  \A k \in 1 .. MaxLog :
    (k \in Slots /\ Phase(k) = "posted")
      ~> (k \in Slots /\ Phase(k) \in {"ignored", "cancelled", "dead", "done"})

-----------------------------------------------------------------------------
(* What the repository's documents say and the code does not do.           *)

(* ADR 0001, Idempotency: the same request after a prior success returns   *)
(* the original result.                                                    *)
ReplayReturnsOriginal ==
  \A j, k \in Results :
    (/\ j < k
     /\ Req(j) = Req(k)
     /\ log[j].ans.code = "OK") => log[k].ans.code = "OK"

(* ADR 0001, Explicit exact-head CI dispatch: a successful update of the   *)
(* branch is followed by a dispatch of CI for the new head.                *)
InstalledIsDispatched ==
  \A c \in 1 .. (Budget["post"] + Budget["rerun"] + Budget["push"]) :
    (c \in installed) ~> (\E r \in DOMAIN runs : runs[r].claims = c)
=============================================================================
