-------------------------- MODULE AtomicClaimProofs --------------------------
(***************************************************************************)
(* Theorems about AtomicClaim, for every set of sessions, tasks, branches  *)
(* and heads, and every bound of the clock and of the leases.              *)
(***************************************************************************)
EXTENDS AtomicClaim, TLAPS, FiniteSetTheorems

(* NoClaim is no claim record: it has no task.                             *)
LEMMA NoClaimIsNoRecord == NoClaim \notin Record
<1>1. \A r \in Record : "task" \in DOMAIN r
  BY DEF Record
<1>2. "task" \notin DOMAIN NoClaim
  BY DEF NoClaim
<1> QED BY <1>1, <1>2

-----------------------------------------------------------------------------
(* The store by itself: what one critical section needs of the next one.   *)

StoreTypes ==
  /\ claims \in [Tasks -> Record \cup {NoClaim}]
  /\ branchOwner \in [Branches -> SUBSET Tasks]
  /\ granted \subseteq Record

(* The claim of a task is a grant made to that task, with a proper lease.  *)
ClaimsGranted ==
  \A t \in Tasks :
    claims[t] # NoClaim =>
      /\ claims[t] \in granted
      /\ claims[t].task = t
      /\ claims[t].from < claims[t].until

(* Every earlier grant of a task was for the branch its claim has now, and *)
(* had run out when that claim began.                                      *)
GrantsOrdered ==
  \A g \in granted :
    /\ claims[g.task] # NoClaim
    /\ claims[g.task].branch = g.branch
    /\ g = claims[g.task] \/ g.until <= claims[g.task].from

GrantsDisjoint ==
  \A g, h \in granted :
    g # h /\ g.task = h.task => g.until <= h.from \/ h.until <= g.from

StoreInv ==
  /\ StoreTypes
  /\ ClaimsGranted
  /\ TablesAgree
  /\ GrantsOrdered
  /\ GrantsDisjoint

(* A request is a claim record.                                            *)
LEMMA RequestType ==
  ASSUME NEW s \in Sessions, NEW t \in Tasks, NEW r \in Requests(s, t)
  PROVE  /\ r \in Record
         /\ r.task = t
  BY TimeAssumption DEF Requests, Record

(* The store grants a free task and a free branch.                         *)
LEMMA ClaimKeepsStore ==
  ASSUME StoreInv, NEW r \in Record, NEW v, NEW now,
         Claimable(v, r, now),
         claims' = [claims EXCEPT ![r.task] = r],
         branchOwner' = [branchOwner EXCEPT ![r.branch] = {r.task}],
         granted' = granted \cup {r}
  PROVE  StoreInv'
<1>1. /\ r.task \in Tasks /\ r.branch \in Branches
      /\ r.from \in Nat /\ r.until \in Nat /\ r.from < r.until
      /\ claims[r.task] = NoClaim /\ branchOwner[r.branch] = {}
      /\ r # NoClaim
  BY NoClaimIsNoRecord DEF Record, Claimable, Free, ValidRequest, None
<1>2. /\ claims'[r.task] = r
      /\ \A t \in Tasks : t # r.task => claims'[t] = claims[t]
      /\ branchOwner'[r.branch] = {r.task}
      /\ \A b \in Branches : b # r.branch => branchOwner'[b] = branchOwner[b]
  BY <1>1 DEF StoreInv, StoreTypes
<1>3. \A g \in granted : g.task # r.task /\ g.task \in Tasks
  BY <1>1 DEF StoreInv, GrantsOrdered, StoreTypes, Record
<1>4. StoreTypes'
  BY <1>1 DEF StoreInv, StoreTypes
<1>5. ClaimsGranted'
  BY <1>1, <1>2 DEF StoreInv, ClaimsGranted
<1>6. TablesAgree'
  <2>0. \A b \in Branches : \A t, u \in branchOwner'[b] : t = u
    BY <1>1, <1>2 DEF StoreInv, TablesAgree
  <2> SUFFICES ASSUME NEW t \in Tasks, NEW b \in Branches
               PROVE  (t \in branchOwner'[b])
                        <=> (claims'[t] # NoClaim /\ claims'[t].branch = b)
    BY <2>0 DEF TablesAgree
  <2>1. (t \in branchOwner[b])
          <=> (claims[t] # NoClaim /\ claims[t].branch = b)
    BY DEF StoreInv, TablesAgree
  <2>2. CASE t = r.task
    BY <1>1, <1>2, <2>1, <2>2
  <2>3. CASE t # r.task
    BY <1>1, <1>2, <2>1, <2>3
  <2> QED BY <2>2, <2>3
<1>7. GrantsOrdered'
  BY <1>1, <1>2, <1>3 DEF StoreInv, GrantsOrdered
<1>8. GrantsDisjoint'
  BY <1>3 DEF StoreInv, GrantsDisjoint
<1> QED BY <1>4, <1>5, <1>6, <1>7, <1>8 DEF StoreInv

(* The store renews a claim that has run out, on its own branch.           *)
LEMMA RecoverKeepsStore ==
  ASSUME StoreInv, NEW r \in Record, NEW v, NEW evidence, NEW now,
         Recoverable(v, r, evidence, now),
         claims' = [claims EXCEPT ![r.task] = r],
         granted' = granted \cup {r},
         UNCHANGED branchOwner
  PROVE  StoreInv'
<1> DEFINE c == claims[r.task]
<1>1. /\ r.task \in Tasks /\ r.branch \in Branches
      /\ r.from \in Nat /\ r.until \in Nat /\ r.from < r.until
      /\ c # NoClaim /\ r # NoClaim
      /\ c.branch = r.branch /\ c.until <= r.from
  BY NoClaimIsNoRecord
  DEF Record, Recoverable, RunOut, SameOwnership, ValidRequest
<1>2. /\ c \in granted /\ c.from < c.until
      /\ c.from \in Nat /\ c.until \in Nat
  BY <1>1 DEF StoreInv, ClaimsGranted, StoreTypes, Record
<1>3. /\ claims'[r.task] = r
      /\ \A t \in Tasks : t # r.task => claims'[t] = claims[t]
  BY <1>1 DEF StoreInv, StoreTypes
<1>4. ASSUME NEW g \in granted, g.task = r.task
      PROVE  /\ g.branch = r.branch
             /\ g.until <= r.from
  <2>1. g.until \in Nat /\ g.branch = c.branch
    BY <1>4 DEF StoreInv, StoreTypes, Record, GrantsOrdered
  <2>2. g = c \/ g.until <= c.from
    BY <1>4 DEF StoreInv, GrantsOrdered
  <2> QED BY <1>1, <1>2, <2>1, <2>2
<1>5. StoreTypes'
  BY <1>1 DEF StoreInv, StoreTypes
<1>6. ClaimsGranted'
  BY <1>1, <1>3 DEF StoreInv, ClaimsGranted
<1>7. TablesAgree'
  BY <1>1, <1>3 DEF StoreInv, TablesAgree
<1>8. GrantsOrdered'
  <2> SUFFICES ASSUME NEW g \in granted'
               PROVE  /\ claims'[g.task] # NoClaim
                      /\ claims'[g.task].branch = g.branch
                      /\ g = claims'[g.task] \/ g.until <= claims'[g.task].from
    BY DEF GrantsOrdered
  <2>1. CASE g = r
    BY <1>1, <1>3, <2>1
  <2>2. CASE g \in granted /\ g.task = r.task
    BY <1>1, <1>3, <1>4, <2>2
  <2>3. CASE g \in granted /\ g.task # r.task
    <3>1. g.task \in Tasks
      BY <2>3 DEF StoreInv, StoreTypes, Record
    <3> QED BY <1>3, <2>3, <3>1 DEF StoreInv, GrantsOrdered
  <2> QED BY <2>1, <2>2, <2>3
<1>9. GrantsDisjoint'
  BY <1>4 DEF StoreInv, GrantsDisjoint
<1> QED BY <1>5, <1>6, <1>7, <1>8, <1>9 DEF StoreInv

-----------------------------------------------------------------------------
(* Types.                                                                  *)

LEMMA InterpretType ==
  ASSUME NEW i \in Issue
  PROVE  Interpret(i) \in ExecutionStates \cup {"invalid"}
<1>1. CASE i.open /\ Cardinality(i.labels) = 1
                  /\ i.reason \in {"none", "reopened"}
  <2>1. i.labels # {}
    BY <1>1, FS_EmptySet
  <2>2. (CHOOSE l \in i.labels : TRUE) \in i.labels
    BY <2>1
  <2>3. i.labels \subseteq ExecutionStates
    BY DEF Issue, ExecutionStates
  <2>4. Interpret(i) = CHOOSE l \in i.labels : TRUE
    BY <1>1 DEF Interpret
  <2> QED BY <2>2, <2>3, <2>4
<1>2. CASE ~(i.open /\ Cardinality(i.labels) = 1
                    /\ i.reason \in {"none", "reopened"})
  BY <1>2 DEF Interpret, ExecutionStates
<1> QED BY <1>1, <1>2

LEMMA DependenciesType ==
  \A required, states :
    DependenciesSatisfied(required, states) \in {"met", "unmet", "error"}
  BY DEF DependenciesSatisfied

(* What a session may have in mind after it looked at a task.              *)
LEMMA LookType ==
  ASSUME TypeOK, NEW t \in Tasks
  PROVE  [phase |-> "looked",
          view |-> [task |-> t, state |-> Interpret(issue[t]),
                    deps |-> DependenciesNow(t), claim |-> claims[t],
                    at |-> clock]] \in Session
<1>1. Interpret(issue[t]) \in ExecutionStates \cup {"invalid"}
  BY InterpretType DEF TypeOK
<1>2. DependenciesNow(t) \in {"met", "unmet", "error"}
  BY DependenciesType DEF DependenciesNow
<1>3. claims[t] \in Record \cup {NoClaim} /\ clock \in Nat
  BY DEF TypeOK
<1> QED BY <1>1, <1>2, <1>3 DEF Session, View

(* A session that has looked holds a view of a task.                       *)
LEMMA ViewType ==
  ASSUME TypeOK, NEW s \in Sessions, session[s].phase = "looked"
  PROVE  session[s].view \in View
<1>1. session[s] \in Session
  BY DEF TypeOK
<1> QED BY <1>1 DEF Session, Idle

LEMMA WonType ==
  ASSUME TypeOK, NEW s \in Sessions, session[s].phase \in {"won", "tagged"}
  PROVE  session[s].task \in Tasks
<1>1. session[s] \in Session
  BY DEF TypeOK
<1> QED BY <1>1 DEF Session, Idle

LEMMA BecomeType ==
  ASSUME TypeOK, NEW s \in Sessions, NEW value \in Session, Become(s, value)
  PROVE  session' \in [Sessions -> Session]
  BY DEF TypeOK, Become

LEMMA IdleType == Idle \in Session
  BY DEF Session

LEMMA OwesType ==
  ASSUME NEW p \in {"won", "tagged"}, NEW t \in Tasks
  PROVE  [phase |-> p, task |-> t] \in Session
  BY DEF Session

(* An edit of the labels of an Issue leaves an Issue.                      *)
LEMMA LabelsType ==
  ASSUME TypeOK, NEW t \in Tasks, NEW l \in SUBSET ActiveLabels,
         issue' = [issue EXCEPT ![t].labels = l]
  PROVE  issue' \in [Tasks -> Issue]
<1>1. issue[t] \in Issue
  BY DEF TypeOK
<1>2. [issue[t] EXCEPT !.labels = l] \in Issue
  BY <1>1 DEF Issue
<1>3. issue' = [issue EXCEPT ![t] = [issue[t] EXCEPT !.labels = l]]
  OBVIOUS
<1> QED BY <1>2, <1>3 DEF TypeOK

LEMMA TransitionType ==
  ASSUME TypeOK, NEW t \in Tasks, NEW after, NEW evidence,
         Transition(t, after, evidence), after \in ExecutionStates
  PROVE  TypeOK'
<1>1. issue[t].reason \in {"none", "reopened", "completed", "not_planned"}
  <2>1. issue[t] \in Issue
    BY DEF TypeOK
  <2> QED BY <2>1 DEF Issue
<1>2. /\ [open |-> FALSE, labels |-> {}, reason |-> "completed"] \in Issue
      /\ after # "completed" =>
           [open |-> TRUE, labels |-> {after}, reason |-> issue[t].reason]
             \in Issue
  BY <1>1 DEF Issue, ExecutionStates, ActiveLabels
<1>3. issue' \in [Tasks -> Issue]
  BY <1>2 DEF Transition, TypeOK
<1> QED BY <1>3 DEF Transition, storeVars, TypeOK

LEMMA InitTypes == Init => TypeOK
<1> SUFFICES ASSUME Init PROVE TypeOK
  OBVIOUS
<1>1. \A l \in {"ready", "blocked"} :
        [open |-> TRUE, labels |-> {l}, reason |-> "none"] \in Issue
  BY DEF Issue, ActiveLabels
<1>2. issue \in [Tasks -> Issue]
  BY <1>1 DEF Init
<1> QED BY <1>2, IdleType, HeadAssumption DEF Init, TypeOK, None

LEMMA SessionKeepsTypes ==
  ASSUME TypeOK, NEW s \in Sessions, SessionStep(s)
  PROVE  TypeOK'
<1>1. CASE \E t \in Tasks : Look(s, t)
  BY <1>1, LookType, BecomeType DEF Look, storeVars, TypeOK
<1>2. CASE Vanish(s)
  BY <1>2, IdleType, BecomeType DEF Vanish, storeVars, TypeOK
<1>3. CASE Tag(s)
  <2>1. session[s].task \in Tasks
    BY <1>3, WonType DEF Tag
  <2>2. issue[session[s].task].labels \cup {"claimed"} \subseteq ActiveLabels
    BY <2>1 DEF TypeOK, Issue, ActiveLabels
  <2>3. issue' \in [Tasks -> Issue]
    BY <1>3, <2>1, <2>2, LabelsType DEF Tag
  <2>4. session' \in [Sessions -> Session]
    BY <1>3, <2>1, OwesType, BecomeType DEF Tag
  <2> QED BY <1>3, <2>3, <2>4 DEF Tag, storeVars, TypeOK
<1>4. CASE Untag(s)
  <2>1. session[s].task \in Tasks
    BY <1>4, WonType DEF Untag
  <2>2. issue[session[s].task].labels \ {"ready"} \subseteq ActiveLabels
    BY <2>1 DEF TypeOK, Issue
  <2>3. issue' \in [Tasks -> Issue]
    BY <1>4, <2>1, <2>2, LabelsType DEF Untag
  <2>4. session' \in [Sessions -> Session]
    BY <1>4, IdleType, BecomeType DEF Untag
  <2> QED BY <1>4, <2>3, <2>4 DEF Untag, storeVars, TypeOK
<1>5. CASE Claim(s)
  <2>1. PICK r \in Requests(s, session[s].view.task),
             now \in session[s].view.at .. clock :
          /\ claims' = [claims EXCEPT ![r.task] = r]
          /\ branchOwner' = [branchOwner EXCEPT ![r.branch] = {r.task}]
          /\ granted' = granted \cup {r}
          /\ Become(s, [phase |-> "won", task |-> r.task])
    BY <1>5 DEF Claim, Install
  <2>2. session[s].view.task \in Tasks
    BY <1>5, ViewType DEF Claim, View
  <2>3. r \in Record /\ r.task \in Tasks /\ r.branch \in Branches
    BY <2>2, RequestType DEF Record
  <2>4. session' \in [Sessions -> Session]
    BY <2>1, <2>3, OwesType, BecomeType
  <2>5. /\ claims' \in [Tasks -> Record \cup {NoClaim}]
        /\ \A t \in Tasks : claims'[t] # NoClaim => claims'[t].task = t
        /\ branchOwner' \in [Branches -> SUBSET Tasks]
        /\ granted' \subseteq Record
    BY <2>1, <2>3 DEF TypeOK
  <2> QED BY <1>5, <2>4, <2>5 DEF Claim, TypeOK
<1>6. CASE RecoverStale(s)
  <2>1. PICK r \in Requests(s, session[s].view.task),
             now \in session[s].view.at .. clock,
             evidence \in [task: Tasks, base: Heads, branch: Branches] :
          /\ claims' = [claims EXCEPT ![r.task] = r]
          /\ granted' = granted \cup {r}
    BY <1>6 DEF RecoverStale, Install
  <2>2. session[s].view.task \in Tasks
    BY <1>6, ViewType DEF RecoverStale, View
  <2>3. r \in Record /\ r.task \in Tasks
    BY <2>2, RequestType DEF Record
  <2>4. session' \in [Sessions -> Session]
    BY <1>6, IdleType, BecomeType DEF RecoverStale
  <2>5. /\ claims' \in [Tasks -> Record \cup {NoClaim}]
        /\ \A t \in Tasks : claims'[t] # NoClaim => claims'[t].task = t
        /\ granted' \subseteq Record
    BY <2>1, <2>3 DEF TypeOK
  <2> QED BY <1>6, <2>4, <2>5 DEF RecoverStale, TypeOK
<1> QED BY <1>1, <1>2, <1>3, <1>4, <1>5, <1>6 DEF SessionStep

LEMMA NextKeepsTypes == TypeOK /\ [Next]_vars => TypeOK'
<1> SUFFICES ASSUME TypeOK, [Next]_vars PROVE TypeOK'
  OBVIOUS
<1>1. CASE UNCHANGED vars
  BY <1>1 DEF vars, TypeOK
<1>2. CASE Tick
  BY <1>2 DEF Tick, storeVars, TypeOK
<1>3. CASE MoveHead
  BY <1>3 DEF MoveHead, TypeOK
<1>4. ASSUME NEW t \in Tasks, IssueStep(t) PROVE TypeOK'
  BY <1>4, TransitionType
  DEF IssueStep, Block, Unblock, Complete, ExecutionStates, ActiveLabels
<1> QED BY <1>1, <1>2, <1>3, <1>4, SessionKeepsTypes DEF Next

(* Type correctness, for every number of sessions, tasks and branches.     *)
THEOREM TypesAlwaysRight == Spec => []TypeOK
  BY InitTypes, NextKeepsTypes, PTL DEF Spec

-----------------------------------------------------------------------------
(* The store among its sessions.                                           *)

LEMMA NextKeepsStore == TypeOK /\ StoreInv /\ [Next]_vars => StoreInv'
<1> SUFFICES ASSUME TypeOK, StoreInv, [Next]_vars PROVE StoreInv'
  OBVIOUS
<1>1. CASE UNCHANGED <<claims, branchOwner, granted>>
  BY <1>1 DEF StoreInv, StoreTypes, ClaimsGranted, TablesAgree, GrantsOrdered,
              GrantsDisjoint
<1>2. ASSUME NEW s \in Sessions, Claim(s) PROVE StoreInv'
  <2>1. PICK r \in Requests(s, session[s].view.task),
             now \in session[s].view.at .. clock :
          /\ Claimable(session[s].view, r, now)
          /\ claims' = [claims EXCEPT ![r.task] = r]
          /\ branchOwner' = [branchOwner EXCEPT ![r.branch] = {r.task}]
          /\ granted' = granted \cup {r}
    BY <1>2 DEF Claim, Install
  <2>2. r \in Record
    BY <1>2, ViewType, RequestType DEF Claim, View
  <2> QED BY <2>1, <2>2, ClaimKeepsStore
<1>3. ASSUME NEW s \in Sessions, RecoverStale(s) PROVE StoreInv'
  <2>1. PICK r \in Requests(s, session[s].view.task),
             now \in session[s].view.at .. clock,
             evidence \in [task: Tasks, base: Heads, branch: Branches] :
          /\ Recoverable(session[s].view, r, evidence, now)
          /\ claims' = [claims EXCEPT ![r.task] = r]
          /\ granted' = granted \cup {r}
    BY <1>3 DEF RecoverStale, Install
  <2>2. r \in Record
    BY <1>3, ViewType, RequestType DEF RecoverStale, View
  <2>3. UNCHANGED branchOwner
    BY <1>3 DEF RecoverStale, Install
  <2> QED BY <2>1, <2>2, <2>3, RecoverKeepsStore
<1> QED
  BY <1>1, <1>2, <1>3
  DEF Next, vars, SessionStep, IssueStep, Tick, MoveHead, Look, Vanish, Tag,
      Untag, Block, Unblock, Complete, Transition, storeVars

LEMMA InitStore == Init => StoreInv
<1> SUFFICES ASSUME Init PROVE StoreInv
  OBVIOUS
<1>1. \A t \in Tasks : claims[t] = NoClaim
  BY DEF Init
<1>2. \A b \in Branches : branchOwner[b] = {}
  BY DEF Init, None
<1> QED
  BY <1>1, <1>2 DEF Init, StoreInv, StoreTypes, ClaimsGranted, TablesAgree,
                    GrantsOrdered, GrantsDisjoint, None

LEMMA StoreAlways == Spec => []StoreInv
  BY InitTypes, NextKeepsTypes, InitStore, NextKeepsStore, PTL DEF Spec

(* The two tables of the store always agree.                               *)
THEOREM TablesAlwaysAgree == Spec => []TablesAgree
<1>1. StoreInv => TablesAgree
  BY DEF StoreInv
<1> QED BY <1>1, StoreAlways, PTL

(* One owner at a time, of a task and of a branch, for any number of       *)
(* contenders, recoveries, stale readings and moves of the head.           *)
THEOREM OneOwner == Spec => []OneOwnerAtATime
<1>1. StoreInv => OneOwnerAtATime
  <2> SUFFICES ASSUME StoreInv, NEW g \in granted, NEW h \in granted, g # h,
                      g.task = h.task \/ g.branch = h.branch
               PROVE  g.until <= h.from \/ h.until <= g.from
    BY DEF OneOwnerAtATime
  <2>1. CASE g.task = h.task
    BY <2>1 DEF StoreInv, GrantsDisjoint
  <2>2. CASE g.branch = h.branch
    <3>1. /\ g.task \in Tasks /\ h.task \in Tasks /\ g.branch \in Branches
      BY DEF StoreInv, StoreTypes, Record
    <3>2. /\ claims[g.task] # NoClaim /\ claims[g.task].branch = g.branch
          /\ claims[h.task] # NoClaim /\ claims[h.task].branch = g.branch
      BY <2>2 DEF StoreInv, GrantsOrdered
    <3>3. g.task \in branchOwner[g.branch] /\ h.task \in branchOwner[g.branch]
      BY <3>1, <3>2 DEF StoreInv, TablesAgree
    <3>4. g.task = h.task
      BY <3>1, <3>3 DEF StoreInv, TablesAgree
    <3> QED BY <3>4, <2>1
  <2> QED BY <2>1, <2>2
<1> QED BY <1>1, StoreAlways, PTL

-----------------------------------------------------------------------------
(* Dependencies.                                                           *)

Done(t) == Interpret(issue[t]) = "completed"

DependenciesDone(t) ==
  \A i \in DOMAIN DependsOn[t] : Done(DependsOn[t][i])

(* What a session has seen of the dependencies is still so.                *)
ViewsHold ==
  \A s \in Sessions, t \in Tasks :
    (/\ session[s].phase = "looked"
     /\ session[s].view.task = t
     /\ session[s].view.deps = "met") => DependenciesDone(t)

DependencyInv == ViewsHold /\ DependenciesHold

(* "met" is the answer only when every dependency is completed.            *)
LEMMA MetMeansCompleted ==
  ASSUME NEW required, NEW states,
         DependenciesSatisfied(required, states) = "met"
  PROVE  \A i \in DOMAIN required : states[required[i]] = "completed"
  BY DEF DependenciesSatisfied

(* An Issue reads as completed only when it is closed as such.             *)
LEMMA CompletedIssue ==
  ASSUME NEW i \in Issue
  PROVE  Interpret(i) = "completed"
           <=> ~i.open /\ i.labels = {} /\ i.reason = "completed"
<1>1. CASE i.open /\ Cardinality(i.labels) = 1
                  /\ i.reason \in {"none", "reopened"}
  <2>1. i.labels # {}
    BY <1>1, FS_EmptySet
  <2>2. (CHOOSE l \in i.labels : TRUE) \in i.labels
    BY <2>1
  <2>3. "completed" \notin i.labels
    BY DEF Issue, ActiveLabels
  <2>4. Interpret(i) = CHOOSE l \in i.labels : TRUE
    BY <1>1 DEF Interpret
  <2> QED BY <1>1, <2>2, <2>3, <2>4
<1>2. CASE ~(i.open /\ Cardinality(i.labels) = 1
                    /\ i.reason \in {"none", "reopened"})
  BY <1>2 DEF Interpret
<1> QED BY <1>1, <1>2

(* No step takes a completed Issue back.                                   *)
LEMMA CompletedStays ==
  ASSUME TypeOK, [Next]_vars, NEW d \in Tasks, Done(d)
  PROVE  Done(d)'
<1>1. issue[d] \in Issue /\ issue \in [Tasks -> Issue]
  BY DEF TypeOK
<1>2. CASE UNCHANGED issue
  BY <1>2 DEF Done
<1>3. ASSUME NEW t \in Tasks, NEW after, NEW evidence,
             after \in ExecutionStates, Transition(t, after, evidence)
      PROVE  Done(d)'
  <2>1. t # d
    BY <1>3 DEF Transition, ValidTransition, AllowedTransitions, Done
  <2> QED BY <1>1, <1>3, <2>1 DEF Transition, Done
<1>4. ASSUME NEW s \in Sessions, Tag(s) PROVE Done(d)'
  <2>1. session[s].task # d
    BY <1>4 DEF Tag, Done
  <2> QED BY <1>1, <1>4, <2>1 DEF Tag, Done
<1>5. ASSUME NEW s \in Sessions, Untag(s) PROVE Done(d)'
  <2>1. issue' = [issue EXCEPT ![session[s].task].labels = @ \ {"ready"}]
    BY <1>5 DEF Untag
  <2>2. issue[d].labels = {}
    BY <1>1, CompletedIssue DEF Done
  <2>3. issue'[d] = issue[d]
    BY <1>1, <2>1, <2>2 DEF Issue
  <2> QED BY <2>3 DEF Done
<1>6. CASE \E t \in Tasks : IssueStep(t)
  BY <1>3, <1>6
  DEF IssueStep, Block, Unblock, Complete, ExecutionStates, ActiveLabels
<1> QED
  BY <1>2, <1>4, <1>5, <1>6
  DEF Next, vars, SessionStep, Tick, MoveHead, Look, Vanish, Claim, RecoverStale

LEMMA DependenciesStayDone ==
  ASSUME TypeOK, [Next]_vars, NEW t \in Tasks, DependenciesDone(t)
  PROVE  DependenciesDone(t)'
<1> SUFFICES ASSUME NEW i \in DOMAIN DependsOn[t]
             PROVE  Done(DependsOn[t][i])'
  BY DEF DependenciesDone
<1>1. DependsOn[t] \in Seq(Tasks)
  BY DependsAssumption
<1>2. DependsOn[t][i] \in Tasks
  BY <1>1
<1> QED BY <1>2, CompletedStays DEF DependenciesDone

(* A view that says the dependencies are met is right when it is taken.    *)
LEMMA LookIsRight ==
  ASSUME NEW t \in Tasks, DependenciesNow(t) = "met"
  PROVE  DependenciesDone(t)
<1>1. \A i \in DOMAIN DependsOn[t] :
        [d \in Tasks |-> Interpret(issue[d])][DependsOn[t][i]] = "completed"
  BY MetMeansCompleted DEF DependenciesNow
<1>2. \A i \in DOMAIN DependsOn[t] : DependsOn[t][i] \in Tasks
  <2>1. DependsOn[t] \in Seq(Tasks)
    BY DependsAssumption
  <2> QED BY <2>1
<1> QED BY <1>1, <1>2 DEF DependenciesDone, Done

LEMMA NextKeepsDependencies ==
  TypeOK /\ DependencyInv /\ [Next]_vars => DependencyInv'
<1> SUFFICES ASSUME TypeOK, DependencyInv, [Next]_vars PROVE DependencyInv'
  OBVIOUS
<1>1. ViewsHold'
  <2> SUFFICES ASSUME NEW s \in Sessions, NEW t \in Tasks,
                      session'[s].phase = "looked",
                      session'[s].view.task = t,
                      session'[s].view.deps = "met"
               PROVE  DependenciesDone(t)'
    BY DEF ViewsHold
  <2>1. CASE session'[s] = session[s]
    <3>1. DependenciesDone(t)
      BY <2>1 DEF DependencyInv, ViewsHold
    <3> QED BY <3>1, DependenciesStayDone
  <2>2. CASE session'[s] # session[s]
    <3>1. PICK q \in Sessions : SessionStep(q)
      BY <2>2
      DEF Next, vars, IssueStep, Tick, MoveHead, Block, Unblock, Complete,
          Transition
    <3>2. \E value : Become(q, value)
      BY <3>1 DEF SessionStep, Look, Vanish, Tag, Untag, Claim, RecoverStale
    <3>3. q = s
      BY <2>2, <3>2 DEF Become, TypeOK
    <3>4. PICK u \in Tasks : Look(s, u)
      BY <3>1, <3>3
      DEF SessionStep, Vanish, Tag, Untag, Claim, RecoverStale, Become, Idle,
          TypeOK
    <3>5. u = t /\ DependenciesNow(t) = "met"
      BY <3>4 DEF Look, Become, TypeOK
    <3>6. DependenciesDone(t)
      BY <3>5, LookIsRight
    <3> QED BY <3>6, DependenciesStayDone
  <2> QED BY <2>1, <2>2
<1>2. DependenciesHold'
  <2> SUFFICES ASSUME NEW t \in Tasks, claims'[t] # NoClaim
               PROVE  DependenciesDone(t)'
    BY DEF DependenciesHold, DependenciesDone, Done
  <2>1. CASE claims[t] # NoClaim
    <3>1. DependenciesDone(t)
      BY <2>1 DEF DependencyInv, DependenciesHold, DependenciesDone, Done
    <3> QED BY <3>1, DependenciesStayDone
  <2>2. CASE claims[t] = NoClaim
    <3>1. PICK s \in Sessions : Claim(s) \/ RecoverStale(s)
      BY <2>2
      DEF Next, vars, SessionStep, IssueStep, Tick, MoveHead, Look, Vanish,
          Tag, Untag, Block, Unblock, Complete, Transition, storeVars
    <3>2. session[s].phase = "looked"
      BY <3>1 DEF Claim, RecoverStale
    <3>3. PICK r \in Requests(s, session[s].view.task) :
            /\ claims' = [claims EXCEPT ![r.task] = r]
            /\ \/ session[s].view.deps = "met"
               \/ claims[r.task] # NoClaim
      BY <3>1
      DEF Claim, Claimable, RecoverStale, Recoverable, Install,
          ValidTransition, NoEvidence
    <3>4. r.task = t
      BY <2>2, <3>3 DEF TypeOK
    <3>5. session[s].view.task = t /\ session[s].view.deps = "met"
      BY <2>2, <3>3, <3>4 DEF Requests
    <3>6. DependenciesDone(t)
      BY <3>2, <3>5 DEF DependencyInv, ViewsHold
    <3> QED BY <3>6, DependenciesStayDone
  <2> QED BY <2>1, <2>2
<1> QED BY <1>1, <1>2 DEF DependencyInv

(* A task is owned only when its dependencies are completed, however long  *)
(* ago the session that claimed it read their states.                      *)
THEOREM OwnedTasksAreReady == Spec => []DependenciesHold
<1>1. Init => DependencyInv
  BY DEF Init, DependencyInv, ViewsHold, DependenciesHold, Idle
<1>2. DependencyInv => DependenciesHold
  BY DEF DependencyInv
<1> QED
  BY <1>1, <1>2, InitTypes, NextKeepsTypes, NextKeepsDependencies, PTL DEF Spec

-----------------------------------------------------------------------------
(* Refinement.                                                             *)

(* A claim read as an ownership is nobody's only if there is no claim.     *)
LEMMA OwnershipFields ==
  ASSUME NEW c \in Record
  PROVE  /\ Ownership(c) = [branch |-> c.branch, base |-> c.base,
                            from |-> c.from, until |-> c.until]
         /\ Ownership(c) # NoClaim
<1>1. c # NoClaim
  BY NoClaimIsNoRecord
<1>2. "branch" \in DOMAIN [branch |-> c.branch, base |-> c.base,
                           from |-> c.from, until |-> c.until]
  OBVIOUS
<1>3. "branch" \notin DOMAIN NoClaim
  BY DEF NoClaim
<1> QED BY <1>1, <1>2, <1>3 DEF Ownership

LEMMA NoOwnership == Ownership(NoClaim) = Contract!Unowned
  BY DEF Ownership, NoClaim, Contract!Unowned

(* The owners of the contract, seen task by task.                          *)
Owners == [t \in Tasks |-> Ownership(claims[t])]

LEMMA ClaimAcquires ==
  ASSUME TypeOK, StoreInv, NEW v, NEW now, NEW r \in Record,
         Claimable(v, r, now), claims' = [claims EXCEPT ![r.task] = r]
  PROVE  Contract!Next
<1>1. /\ r.task \in Tasks /\ claims[r.task] = NoClaim
      /\ branchOwner[r.branch] = {} /\ r.branch \in Branches
      /\ r.from < r.until
  BY DEF Record, Claimable, Free, ValidRequest, None
<1> DEFINE o == Ownership(r)
<1>2. /\ o \in Contract!Ownership /\ o.from < o.until
      /\ o.branch = r.branch
  BY <1>1, OwnershipFields DEF Contract!Ownership, Record
<1>3. \A t \in Tasks :
        claims[t] # NoClaim => Ownership(claims[t]).branch # r.branch
  <2> SUFFICES ASSUME NEW t \in Tasks, claims[t] # NoClaim
               PROVE  Ownership(claims[t]).branch # r.branch
    OBVIOUS
  <2>1. claims[t] \in Record
    BY DEF TypeOK
  <2>2. claims[t].branch # r.branch
    BY <1>1 DEF StoreInv, TablesAgree
  <2> QED BY <2>1, <2>2, OwnershipFields
<1>4. /\ Owners[r.task] = Contract!Unowned
      /\ \A u \in Tasks : Owners[u] # Contract!Unowned
                            => Owners[u].branch # o.branch
  BY <1>1, <1>2, <1>3, NoOwnership DEF Owners
<1>5. Owners' = [Owners EXCEPT ![r.task] = o]
  BY <1>1 DEF Owners, TypeOK
<1>6. Owners'[r.task] = o
  BY <1>1, <1>5 DEF Owners
<1>7. Contract!Acquire(r.task, o)
  BY <1>4, <1>5 DEF Contract!Acquire, Owners
<1> QED BY <1>1, <1>2, <1>6, <1>7 DEF Contract!Next, Owners

LEMMA RecoverRenews ==
  ASSUME TypeOK, NEW v, NEW evidence, NEW now, NEW r \in Record,
         Recoverable(v, r, evidence, now),
         claims' = [claims EXCEPT ![r.task] = r]
  PROVE  Contract!Next
<1> DEFINE c == claims[r.task]
           o == Ownership(r)
<1>1. /\ r.task \in Tasks /\ c # NoClaim /\ c \in Record
      /\ r.branch = c.branch /\ r.base = c.base /\ c.until <= r.from
      /\ r.from < r.until
  BY DEF Record, Recoverable, RunOut, SameOwnership, ValidRequest, TypeOK
<1>2. /\ o \in Contract!Ownership /\ o.from < o.until
      /\ o.branch = r.branch /\ o.base = r.base /\ o.from = r.from
  BY <1>1, OwnershipFields DEF Contract!Ownership, Record
<1>3. /\ Ownership(c) # Contract!Unowned
      /\ Ownership(c).branch = c.branch /\ Ownership(c).base = c.base
      /\ Ownership(c).until = c.until
  BY <1>1, OwnershipFields DEF NoClaim, Contract!Unowned
<1>4. Owners[r.task] = Ownership(c)
  BY <1>1 DEF Owners
<1>5. Owners' = [Owners EXCEPT ![r.task] = o]
  BY <1>1 DEF Owners, TypeOK
<1>6. Owners'[r.task] = o
  BY <1>1, <1>5 DEF Owners
<1>7. Contract!Renew(r.task, o)
  BY <1>1, <1>2, <1>3, <1>4, <1>5 DEF Contract!Renew, Owners
<1> QED BY <1>1, <1>2, <1>6, <1>7 DEF Contract!Next, Owners

(* The store implements the contract: the record and branch tables, the    *)
(* compare and the lease rules together make each claim an acquisition of  *)
(* a free branch and each recovery a renewal.                              *)
THEOREM StoreImplementsContract == Spec => ImplementsContract
<1>1. Init => Contract!Init
  BY NoOwnership DEF Init, Contract!Init
<1>2. TypeOK /\ StoreInv /\ [Next]_vars => [Contract!Next]_Owners
  <2> SUFFICES ASSUME TypeOK, StoreInv, [Next]_vars
               PROVE  Contract!Next \/ UNCHANGED Owners
    OBVIOUS
  <2>1. CASE UNCHANGED claims
    BY <2>1 DEF Owners
  <2>2. ASSUME NEW s \in Sessions, Claim(s) PROVE Contract!Next
    <3>1. PICK r \in Requests(s, session[s].view.task),
               now \in session[s].view.at .. clock :
            /\ Claimable(session[s].view, r, now)
            /\ claims' = [claims EXCEPT ![r.task] = r]
      BY <2>2 DEF Claim, Install
    <3>2. r \in Record
      BY <2>2, ViewType, RequestType DEF Claim, View
    <3> QED BY <3>1, <3>2, ClaimAcquires
  <2>3. ASSUME NEW s \in Sessions, RecoverStale(s) PROVE Contract!Next
    <3>1. PICK r \in Requests(s, session[s].view.task),
               now \in session[s].view.at .. clock,
               evidence \in [task: Tasks, base: Heads, branch: Branches] :
            /\ Recoverable(session[s].view, r, evidence, now)
            /\ claims' = [claims EXCEPT ![r.task] = r]
      BY <2>3 DEF RecoverStale, Install
    <3>2. r \in Record
      BY <2>3, ViewType, RequestType DEF RecoverStale, View
    <3> QED BY <3>1, <3>2, RecoverRenews
  <2> QED
    BY <2>1, <2>2, <2>3
    DEF Next, vars, SessionStep, IssueStep, Tick, MoveHead, Look, Vanish, Tag,
        Untag, Block, Unblock, Complete, Transition, storeVars
<1> QED
  BY <1>1, <1>2, StoreAlways, TypesAlwaysRight, PTL
  DEF ImplementsContract, Contract!Spec, Spec, Owners
=============================================================================
