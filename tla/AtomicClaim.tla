----------------------------- MODULE AtomicClaim -----------------------------
(***************************************************************************)
(* The atomic claim store (atomic_claim.py) among the sessions that use it.*)
(*                                                                         *)
(* A session reads the task Issue, its dependencies, the current claim and *)
(* the clock, and passes what it read to `claim` or `recover_stale`.  Both *)
(* check their arguments first and then compare and write the store under  *)
(* one lock.  Between the reading and the lock the Issue, the protected    *)
(* head, the store and the clock move on: that is what the compare is for. *)
(*                                                                         *)
(* The store never writes to GitHub: the winner of a claim relabels the    *)
(* Issue afterwards, and may stop before it does.                          *)
(***************************************************************************)
EXTENDS TaskIssue

CONSTANTS
  Sessions,    (* agents' sessions                                         *)
  Tasks,       (* task Issues                                              *)
  Branches,    (* ownership branches                                       *)
  BranchTask,  (* tasks whose id a branch name may carry: agent/infra-NNNN *)
               (* names one task, any other agent/ branch fits every task  *)
  Heads,       (* commits of the protected branch                          *)
  FirstHead,   (* where it starts                                          *)
  DependsOn,   (* declared dependencies of each task                       *)
  Horizon,     (* bound of the clock                                       *)
  LastExpiry,  (* bound of the leases                                      *)
  Reliable,    (* whether the winner of a claim always labels the Issue    *)
  Anonymous    (* stands for agent_id = None                               *)

ASSUME BranchAssumption == BranchTask \in [Branches -> SUBSET Tasks]
ASSUME HeadAssumption == FirstHead \in Heads
ASSUME DependsAssumption == DependsOn \in [Tasks -> Seq(Tasks)]
ASSUME TimeAssumption == Horizon \in Nat /\ LastExpiry \in Nat

VARIABLES
  claims,       (* claims[t]: the claim record of task t                   *)
  branchOwner,  (* branchOwner[b]: the task a branch is bound to           *)
  head,         (* the protected head the store knows                      *)
  issue,        (* the Issue of each task on GitHub                        *)
  session,      (* what each session has read and has yet to do            *)
  clock,
  granted       (* every record the store has ever installed               *)

vars == <<claims, branchOwner, head, issue, session, clock, granted>>

storeVars == <<claims, branchOwner, head, granted>>

-----------------------------------------------------------------------------
Record == [task: Tasks, branch: Branches, base: Heads,
           from: Nat, until: Nat, agent: Sessions \cup {Anonymous}]

NoClaim == [from |-> 0, until |-> 0]

None == {}  (* no task: values of branchOwner are sets of at most one      *)

(* What a session read, of task `task`, when the clock was at `at`.        *)
View == [task: Tasks, state: ExecutionStates \cup {"invalid"},
         deps: {"met", "unmet", "error"}, claim: Record \cup {NoClaim},
         at: Nat]

Idle == [phase |-> "idle"]

Session ==
  {Idle}
    \cup [phase: {"looked"}, view: View]
    \cup [phase: {"won", "tagged"}, task: Tasks]

Become(s, value) == session' = [session EXCEPT ![s] = value]

(* The states of the dependencies as GitHub shows them now.                *)
DependenciesNow(t) ==
  DependenciesSatisfied(DependsOn[t],
                        [d \in Tasks |-> Interpret(issue[d])])

Init ==
  /\ claims = [t \in Tasks |-> NoClaim]
  /\ branchOwner = [b \in Branches |-> None]
  /\ head = FirstHead
  /\ issue \in [Tasks -> {[open |-> TRUE, labels |-> {l}, reason |-> "none"] :
                            l \in {"ready", "blocked"}}]
  /\ session = [s \in Sessions |-> Idle]
  /\ clock = 0
  /\ granted = {}

-----------------------------------------------------------------------------
(* GitHub and the clock.                                                   *)

Tick ==
  /\ clock < Horizon
  /\ clock' = clock + 1
  /\ UNCHANGED <<storeVars, issue, session>>

(* set_protected_head.                                                     *)
MoveHead ==
  /\ \E h \in Heads \ {head} : head' = h
  /\ UNCHANGED <<claims, branchOwner, granted, issue, session, clock>>

(* A lifecycle transition of an Issue, made in one edit by someone who     *)
(* follows the transition policy.                                          *)
Transition(t, after, evidence) ==
  /\ ValidTransition(Interpret(issue[t]), after,
                     [evidence EXCEPT !.deps = DependenciesNow(t)])
  /\ issue' = [issue EXCEPT ![t] =
                 IF after = "completed"
                 THEN [open |-> FALSE, labels |-> {}, reason |-> "completed"]
                 ELSE [open |-> TRUE, labels |-> {after},
                       reason |-> issue[t].reason]]
  /\ UNCHANGED <<storeVars, session, clock>>

Block(t) == Transition(t, "blocked", [NoEvidence EXCEPT !.blocker = TRUE])
Unblock(t) == Transition(t, "ready", NoEvidence)
Complete(t) ==
  Transition(t, "completed", [NoEvidence EXCEPT !.finished = TRUE])

(* The winner of a claim adds the label "claimed" and then removes         *)
(* "ready"; in between the Issue is ambiguous.                             *)
Tag(s) ==
  /\ session[s].phase = "won"
  /\ LET t == session[s].task
     IN  /\ Interpret(issue[t]) = "ready"
         /\ issue' = [issue EXCEPT ![t].labels = @ \cup {"claimed"}]
         /\ Become(s, [phase |-> "tagged", task |-> t])
  /\ UNCHANGED <<storeVars, clock>>

Untag(s) ==
  /\ session[s].phase = "tagged"
  /\ issue' = [issue EXCEPT ![session[s].task].labels = @ \ {"ready"}]
  /\ Become(s, Idle)
  /\ UNCHANGED <<storeVars, clock>>

-----------------------------------------------------------------------------
(* The sessions.                                                           *)

Look(s, t) ==
  /\ session[s].phase \in {"idle", "looked"}
  /\ Become(s, [phase |-> "looked",
                view |-> [task |-> t, state |-> Interpret(issue[t]),
                          deps |-> DependenciesNow(t), claim |-> claims[t],
                          at |-> clock]])
  /\ UNCHANGED <<storeVars, issue, clock>>

(* A session ends wherever it is, and another one begins in its place.     *)
Vanish(s) ==
  /\ session[s] # Idle
  /\ Reliable => session[s].phase = "looked"
  /\ Become(s, Idle)
  /\ UNCHANGED <<storeVars, issue, clock>>

(* _validate_request: `now` is what the caller says it is.                 *)
ValidRequest(r, now) ==
  /\ r.task \in BranchTask[r.branch]
  /\ r.from < r.until
  /\ r.from <= now
  /\ now < r.until

(* What a session may propose for a task: any branch, any head, any lease, *)
(* itself or nobody.  A request for a task other than that of the Issue    *)
(* passed with it is refused at once.                                      *)
Requests(s, t) ==
  [task: {t}, branch: Branches, base: Heads, from: 0 .. Horizon,
   until: 0 .. LastExpiry, agent: {s, Anonymous}]

(* Mutant of Install: the store is keyed by the task ids a branch fits.    *)
InstallByBranch(r) ==
  /\ claims' = [t \in Tasks |->
                  IF t \in BranchTask[r.branch] THEN r ELSE claims[t]]
  /\ granted' = granted \cup {r}

Install(r) ==
  /\ claims' = [claims EXCEPT ![r.task] = r]
  /\ granted' = granted \cup {r}

(* Mutant of Free: a branch may be bound again.                            *)
FreeTask(r) == claims[r.task] = NoClaim

Free(r) ==
  /\ claims[r.task] = NoClaim                   (* replay, ALREADY_CLAIMED *)
  /\ branchOwner[r.branch] = None               (* BRANCH_CONFLICT         *)

(* `claim` writes the store when none of its checks refuses.  An exact     *)
(* replay is answered from the store, and a refusal raises: neither        *)
(* changes anything.                                                       *)
Claimable(v, r, now) ==
  /\ ValidRequest(r, now)
  /\ v.state = "ready"                          (* TASK_NOT_READY          *)
  /\ ValidTransition("ready", "claimed", [NoEvidence EXCEPT !.deps = v.deps])
  /\ head = r.base                              (* STALE_EXPECTED_HEAD     *)
  /\ Free(r)

Claim(s) ==
  /\ session[s].phase = "looked"
  /\ \E r \in Requests(s, session[s].view.task),
        now \in session[s].view.at .. clock :
       /\ Claimable(session[s].view, r, now)
       /\ Install(r)
       /\ branchOwner' = [branchOwner EXCEPT ![r.branch] = {r.task}]
       /\ Become(s, [phase |-> "won", task |-> r.task])
  /\ UNCHANGED <<head, issue, clock>>

(* Mutant of RunOut: the new lease may begin before the old one ends.      *)
RunOutNow(c, r, now) == c.until <= now

RunOut(c, r, now) ==
  /\ c.until <= now                             (* LEASE_ACTIVE            *)
  /\ c.until <= r.from                          (* OVERLAPPING_LEASE       *)

(* Mutants of SameOwnership: the branch may change; and the claim's base   *)
(* must be the protected head, as it was when the claim was made.          *)
SameBase(c, r) == r.base = c.base

SameOwnershipAtHead(c, r) ==
  r.branch = c.branch /\ r.base = c.base /\ r.base = head

(* REPLACEMENT_BRANCH_NOT_SUPPORTED otherwise.                             *)
SameOwnership(c, r) == r.branch = c.branch /\ r.base = c.base

(* RecoveryEvidence.complete_for: it names the task, the base and the      *)
(* branch of the claim.                                                    *)
CompleteFor(evidence, c) ==
  evidence = [task |-> c.task, base |-> c.base, branch |-> c.branch]

(* `recover_stale` likewise.                                               *)
Recoverable(v, r, evidence, now) ==
  /\ ValidRequest(r, now)
  /\ v.state = "claimed"                        (* TASK_NOT_CLAIMED        *)
  /\ claims[r.task] # NoClaim                   (* MISSING_CURRENT_CLAIM   *)
  /\ claims[r.task] # r                         (* replay                  *)
  /\ v.claim = claims[r.task]                   (* STALE_EXPECTED_CLAIM    *)
  /\ v.deps = "met"                             (* CLAIM_POLICY_REJECTED   *)
  /\ ValidTransition("claimed", "claimed",
       [NoEvidence EXCEPT !.recovery = TRUE,
                          !.record = CompleteFor(evidence, claims[r.task])])
  /\ RunOut(claims[r.task], r, now)
  /\ SameOwnership(claims[r.task], r)

RecoverStale(s) ==
  /\ session[s].phase = "looked"
  /\ \E r \in Requests(s, session[s].view.task),
        now \in session[s].view.at .. clock,
        evidence \in [task: Tasks, base: Heads, branch: Branches] :
       /\ Recoverable(session[s].view, r, evidence, now)
       /\ Install(r)
  /\ Become(s, Idle)
  /\ UNCHANGED <<branchOwner, head, issue, clock>>

-----------------------------------------------------------------------------
SessionStep(s) ==
  \/ \E t \in Tasks : Look(s, t)
  \/ Claim(s) \/ RecoverStale(s) \/ Tag(s) \/ Untag(s) \/ Vanish(s)

IssueStep(t) == Block(t) \/ Unblock(t) \/ Complete(t)

Next ==
  \/ Tick \/ MoveHead
  \/ \E s \in Sessions : SessionStep(s)
  \/ \E t \in Tasks : IssueStep(t)

Spec == Init /\ [][Next]_vars

(* Sessions that do not give up: they keep looking, recover whenever that  *)
(* is possible again and again, and label the Issues they have won; and    *)
(* blockers do get cleared.                                                *)
RecoverySpec ==
  /\ Spec
  /\ \A t \in Tasks : SF_vars(Unblock(t))
  /\ \A s \in Sessions :
       /\ SF_vars(Tag(s)) /\ SF_vars(Untag(s))
       /\ \A t \in Tasks :
            /\ SF_vars(Look(s, t))
            /\ SF_vars(session[s].phase = "looked"
                         /\ session[s].view.task = t /\ RecoverStale(s))

-----------------------------------------------------------------------------
(* Properties.                                                             *)

(* Every variable has its type.                                            *)
TypeOK ==
  /\ claims \in [Tasks -> Record \cup {NoClaim}]
  /\ \A t \in Tasks : claims[t] # NoClaim => claims[t].task = t
  /\ branchOwner \in [Branches -> SUBSET Tasks]
  /\ head \in Heads
  /\ issue \in [Tasks -> Issue]
  /\ session \in [Sessions -> Session]
  /\ clock \in Nat
  /\ granted \subseteq Record

(* The two tables of the store agree: a claimed task holds its branch, and *)
(* a bound branch belongs to the one task whose claim names it.            *)
TablesAgree ==
  /\ \A t \in Tasks, b \in Branches :
       (t \in branchOwner[b]) <=> (claims[t] # NoClaim /\ claims[t].branch = b)
  /\ \A b \in Branches : \A t, u \in branchOwner[b] : t = u

(* No two sessions were ever granted one task, or one branch, for the same *)
(* moment, through however many recoveries it went.                        *)
OneOwnerAtATime ==
  \A g, h \in granted :
    (g # h /\ (g.task = h.task \/ g.branch = h.branch))
      => (g.until <= h.from \/ h.until <= g.from)

(* A task is owned only when its dependencies are completed, although the  *)
(* session read their states before the store was locked, and they are     *)
(* not read again.                                                         *)
DependenciesHold ==
  \A t \in Tasks :
    claims[t] # NoClaim =>
      \A i \in DOMAIN DependsOn[t] :
        Interpret(issue[DependsOn[t][i]]) = "completed"

(* A claim record without its agent and its task.                          *)
Ownership(c) ==
  IF c = NoClaim THEN NoClaim
  ELSE [branch |-> c.branch, base |-> c.base,
        from |-> c.from, until |-> c.until]

Contract == INSTANCE ClaimContract
  WITH owner <- [t \in Tasks |-> Ownership(claims[t])]

(* Ownership is acquired once and renewed only after it ran out.           *)
ImplementsContract == Contract!Spec

(* INFRA_SPEC, Abandoned conversation: once the lease of a claim expires   *)
(* another agent may recover it.  Under RecoverySpec an expired lease of a *)
(* task that is not finished is eventually renewed.  This holds when every *)
(* winner labels its Issue, and fails when one may stop before that: the   *)
(* claim can then be neither made again nor recovered.                     *)
ExpiredIsRenewed ==
  \A t \in Tasks :
    (claims[t] # NoClaim /\ claims[t].until <= clock)
      ~> (clock < claims[t].until \/ Interpret(issue[t]) = "completed")

=============================================================================
