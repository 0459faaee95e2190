-------------------------- MODULE KnowledgeProofs --------------------------
(***************************************************************************)
(* Theorems about HistoricalLedger, for every set of sessions, corpora and *)
(* request ids, however often a request is posted again and main moves;    *)
(* about KnowledgeDeltaGate and SemanticBatch, for every set of task keys, *)
(* and every list of rows and artifact that may be offered; and about the  *)
(* programs of KnowledgeMC together.                                       *)
(***************************************************************************)
EXTENDS KnowledgeMC, TLAPS, SequenceTheorems, FiniteSetTheorems,
        WellFoundedInduction, NaturalsInduction

-----------------------------------------------------------------------------
(* Numbers: inductions, of the numbers for which something fails there     *)
(* would be a least one, and what is iterated.                             *)
LEMMA LeastNumber ==
  ASSUME NEW S \in SUBSET Nat, S # {}
  PROVE  \E i \in S : \A j \in S : i <= j
<1>1. PICK i \in S : \A j \in S : ~(<<j, i>> \in OpToRel(<, Nat))
  BY WFMin, NatLessThanWellFounded, Zenon
<1>2. \A j \in S : ~(j < i)
  BY <1>1 DEF OpToRel
<1> QED BY <1>2, SMT

(* Counting up to n.                                                       *)
LEMMA CountUp ==
  ASSUME NEW n \in Nat, NEW S, 0 \in S, \A i \in 1..n : i - 1 \in S => i \in S
  PROVE  \A i \in 0..n : i \in S
<1> DEFINE Missing == {i \in 0..n : i \notin S}
<1> SUFFICES ASSUME Missing # {} PROVE FALSE
  OBVIOUS
<1>1. PICK k \in Missing : \A j \in Missing : k <= j
  <2>1. Missing \in SUBSET Nat
    OBVIOUS
  <2> HIDE DEF Missing
  <2> QED BY <2>1, LeastNumber
<1>2. k \in 1..n /\ k \notin S
  BY <1>1
<1>3. k - 1 \in S
  BY <1>1, <1>2
<1> QED BY <1>2, <1>3

LEMMA LargestNumber ==
  ASSUME NEW n \in Nat, NEW T \in SUBSET (0..n), T # {}
  PROVE  \E c \in T : \A d \in T : d <= c
<1> DEFINE U == {x \in Nat : n - x \in T}
<1>1. U \in SUBSET Nat /\ \A d \in T : d \in 0..n /\ n - d \in U
  <2>1. ASSUME NEW d \in T PROVE d \in 0..n /\ n - d \in U
    <3>1. d \in 0..n
      OBVIOUS
    <3>2. n - d \in Nat /\ n - (n - d) = d
      BY <3>1
    <3> QED BY <3>1, <3>2
  <2> QED BY <2>1
<1>2. \A x \in U : x \in Nat /\ n - x \in T
  OBVIOUS
<1> HIDE DEF U
<1>3. PICK x \in U : \A y \in U : x <= y
  BY <1>1, LeastNumber
<1>4. ASSUME NEW d \in T PROVE d <= n - x
  <2>1. x <= n - d
    BY <1>1, <1>3
  <2> QED BY <1>1, <1>2, <2>1
<1> QED BY <1>2, <1>3, <1>4

LEMMA MinIsLeast ==
  ASSUME NEW X \in SUBSET Nat, NEW m \in X, \A x \in X : m <= x
  PROVE  Min(X) = m
<1>1. \A x \in X : (\A y \in X : x <= y) => x = m
  BY SMT
<1> QED BY <1>1, Zenon DEF Min

LEMMA MinIsThere ==
  ASSUME NEW X \in SUBSET Nat, X # {}
  PROVE  Min(X) \in X /\ \A x \in X : Min(X) <= x
<1>1. \E x \in X : \A y \in X : x <= y
  BY LeastNumber
<1> QED BY <1>1, Zenon DEF Min

(* What never falls from one number to the next never falls.               *)
LEMMA Grows ==
  ASSUME NEW n \in Nat, NEW f \in [0..n -> Nat], \A i \in 1..n : f[i - 1] <= f[i],
         NEW i \in 0..n, NEW j \in i..n
  PROVE  f[i] <= f[j]
<1> DEFINE S == {k \in Nat : k \notin i..n \/ f[i] <= f[k]}
<1>1. 0 \in S
  OBVIOUS
<1>2. ASSUME NEW k \in 1..n, k - 1 \in S PROVE k \in S
  <2>1. CASE k <= i
    BY <2>1
  <2>2. CASE k > i
    <3>1. k - 1 \in i..n /\ k \in i..n /\ k - 1 \in 0..n
      BY <2>2
    <3>2. f[i] <= f[k - 1] /\ f[k - 1] <= f[k]
      BY <3>1, <1>2
    <3>3. f[i] \in Nat /\ f[k - 1] \in Nat /\ f[k] \in Nat
      BY <3>1
    <3> QED BY <3>2, <3>3
  <2> QED BY <2>1, <2>2
<1> HIDE DEF S
<1>3. \A k \in 0..n : k \in S
  BY <1>1, <1>2, CountUp
<1> QED BY <1>3 DEF S

(* f is n times a step from a base.                                        *)
Iterates(f, base, step, n) ==
  f[0] = base /\ \A i \in 1..n : f[i] = step[<<i, f[i - 1]>>]

LEMMA Iterations ==
  ASSUME NEW n \in Nat, NEW V, NEW base \in V, NEW step \in [(1..n) \X V -> V]
  PROVE  \E f \in [0..n -> V] : Iterates(f, base, step, n)
<1> USE DEF Iterates
<1> DEFINE Runs(f, k) == Iterates(f, base, step, k)
           S == {k \in Nat : k \in 0..n => \E f \in [0..k -> V] : Runs(f, k)}
<1>1. 0 \in S
  <2> DEFINE f == [i \in 0..0 |-> base]
  <2>1. f \in [0..0 -> V] /\ Runs(f, 0)
    OBVIOUS
  <2> QED BY <2>1
<1>2. ASSUME NEW k \in 1..n, k - 1 \in S PROVE k \in S
  <2>1. PICK f \in [0..k - 1 -> V] : Runs(f, k - 1)
    BY <1>2
  <2> DEFINE g == [i \in 0..k |-> IF i < k THEN f[i] ELSE step[<<k, f[k - 1]>>]]
  <2>2. f[k - 1] \in V
    OBVIOUS
  <2>3. <<k, f[k - 1]>> \in (1..n) \X V
    BY <2>2
  <2>4. step[<<k, f[k - 1]>>] \in V
    BY <2>3
  <2>5. g \in [0..k -> V]
    BY <2>4
  <2>6. Runs(g, k)
    <3>1. g[0] = base
      BY <2>1
    <3>2. ASSUME NEW i \in 1..k PROVE g[i] = step[<<i, g[i - 1]>>]
      <4>1. CASE i < k
        BY <2>1, <4>1
      <4>2. CASE i = k
        <5>1. g[k] = step[<<k, f[k - 1]>>] /\ g[k - 1] = f[k - 1]
          OBVIOUS
        <5> HIDE DEF g
        <5> QED BY <4>2, <5>1
      <4> QED BY <4>1, <4>2
    <3> QED BY <3>1, <3>2
  <2> HIDE DEF g
  <2>7. \E h \in [0..k -> V] : Runs(h, k)
    BY <2>5, <2>6
  <2> QED BY <2>7
<1> HIDE DEF S
<1>3. n \in S
  BY <1>1, <1>2, CountUp
<1> QED BY <1>3 DEF S

-----------------------------------------------------------------------------
(* HistoricalLedger: from frozen sessions to a published ledger.           *)

(* The ledgers that can be generated, and the one without claims.          *)
Ledgers ==
  {NoLedger} \cup
  {Materialized(Claims(corpus)) : corpus \in {c \in Corpora : LedgerOK(Claims(c))}}

Session ==
  [at: {"idle", "frozen", "read", "posted", "reposted", "unchanged", "failed"},
   corpus: Corpora \cup {{}}, ledger: SUBSET Ledgers, base: SUBSET Nat,
   seen: SUBSET Ledgers]

Request ==
  [id: RequestIds, base: SUBSET Nat, replaces: SUBSET Ledgers, ledger: SUBSET Ledgers]

Phases == {"waiting", "new", "published", "refused", "done", "replay", "REQUEST_ID_REUSE"}

TypesInv ==
  /\ session \in [Sessions -> Session]
  /\ \A s \in Sessions :
       /\ session[s].at = "frozen" => session[s].corpus \in Corpora
       /\ session[s].at \in {"read", "posted", "reposted", "unchanged"} =>
            session[s].ledger # {}
  /\ context \in [head: Nat, ledger: Ledgers, changed: Nat]
  /\ requests \in Seq(Request)
  /\ job \in Seq(Phases) /\ Len(job) = Len(requests)

(* The candidates are those of the jobs that published, the results those  *)
(* of the jobs that are done.                                              *)
CandidatesInv ==
  /\ candidates = {n \in DOMAIN job : job[n] \in {"published", "done"}}
  /\ results = {n \in DOMAIN job : job[n] = "done"}

(* A job that found its request new has no earlier request of the id that  *)
(* is another; one that was told it is a replay has a candidate of the same*)
(* request.                                                                *)
DecisionsInv ==
  \A n \in DOMAIN job :
    /\ job[n] \in {"new", "published", "done"} =>
         \A m \in 1 .. n - 1 : requests[m].id = requests[n].id => requests[m] = requests[n]
    /\ job[n] = "replay" => \E m \in candidates : requests[m] = requests[n]

LedgerInv == TypesInv /\ CandidatesInv /\ DecisionsInv

-----------------------------------------------------------------------------
LEMMA InitInvariant == InitLedger => LedgerInv
BY DEF InitLedger, InitSession, LedgerInv, TypesInv, CandidatesInv, DecisionsInv,
       Session, Ledgers, NoLedger

(* What a session does without posting.                                    *)
LEMMA SessionTurnKeeps ==
  ASSUME LedgerInv, NEW s \in Sessions, NEW d \in Session, SessionTurn(s, d),
         d.at = "frozen" => d.corpus \in Corpora,
         d.at \in {"read", "posted", "reposted", "unchanged"} => d.ledger # {}
  PROVE  LedgerInv'
BY DEF LedgerInv, TypesInv, CandidatesInv, DecisionsInv, SessionTurn

LEMMA SessionsKeep ==
  ASSUME LedgerInv, NEW s \in Sessions, Freeze(s) \/ Import(s) \/ ReadContext(s)
  PROVE  LedgerInv'
<1>1. /\ session[s] \in Session
      /\ session[s].at = "frozen" => session[s].corpus \in Corpora
      /\ session[s].at = "read" => session[s].ledger # {}
      /\ context.head \in Nat /\ context.ledger \in Ledgers
  BY DEF LedgerInv, TypesInv
<1>2. CASE FailSession(s)
  BY <1>1, <1>2, SessionTurnKeeps DEF FailSession, Session
<1>3. ASSUME NEW corpus \in Corpora,
             SessionTurn(s, [session[s] EXCEPT !.at = "frozen", !.corpus = corpus])
      PROVE  LedgerInv'
  BY <1>1, <1>3, SessionTurnKeeps DEF Session
<1>4. CASE /\ session[s].at = "frozen" /\ LedgerOK(Claims(session[s].corpus))
           /\ SessionTurn(s, [session[s] EXCEPT !.at = "read",
                              !.ledger = {Materialized(Claims(session[s].corpus))}])
  <2>1. Materialized(Claims(session[s].corpus)) \in Ledgers
    BY <1>1, <1>4 DEF Ledgers
  <2> QED BY <1>1, <1>4, <2>1, SessionTurnKeeps DEF Session
<1>5. CASE ReadContext(s)
  BY <1>1, <1>5, SessionTurnKeeps DEF ReadContext, Session
<1> QED BY <1>2, <1>3, <1>4, <1>5 DEF Freeze, Import

(* A request is posted: the decisions made so far are about other ones.    *)
LEMMA PostingKeeps ==
  ASSUME LedgerInv, NEW r \in Request, requests' = Append(requests, r),
         job' = Append(job, "waiting"), session' \in [Sessions -> Session],
         \A s \in Sessions :
           /\ session'[s].at # "frozen"  \/ session'[s] = session[s]
           /\ session'[s].ledger = session[s].ledger
           /\ session'[s].at \in {"read", "posted", "reposted", "unchanged"} =>
                session[s].at \in {"read", "posted", "reposted", "unchanged"},
         UNCHANGED <<context, results, candidates>>
  PROVE  LedgerInv'
<1>1. /\ requests \in Seq(Request) /\ job \in Seq(Phases) /\ Len(job) = Len(requests)
      /\ "waiting" \in Phases
  BY DEF LedgerInv, TypesInv, Phases
<1>2. /\ requests' \in Seq(Request) /\ job' \in Seq(Phases) /\ Len(job') = Len(requests')
      /\ DOMAIN job = 1 .. Len(job) /\ DOMAIN job' = 1 .. Len(job) + 1
      /\ \A i \in 1 .. Len(job) : job'[i] = job[i] /\ requests'[i] = requests[i]
      /\ job'[Len(job) + 1] = "waiting"
      /\ Len(job) \in Nat
  BY <1>1, AppendProperties
<1>3. TypesInv'
  BY <1>2 DEF LedgerInv, TypesInv
<1>4. CandidatesInv'
  BY <1>2 DEF LedgerInv, CandidatesInv
<1>5. DecisionsInv'
  BY <1>2 DEF LedgerInv, CandidatesInv, DecisionsInv
<1> QED BY <1>3, <1>4, <1>5 DEF LedgerInv

LEMMA PostKeeps ==
  ASSUME LedgerInv, NEW s \in Sessions, Post(s)
  PROVE  LedgerInv'
<1>1. session[s] \in Session /\ session[s].at = "read" /\ session[s].ledger # {}
      /\ session \in [Sessions -> Session]
  BY DEF LedgerInv, TypesInv, Post
<1>2. CASE SessionTurn(s, [session[s] EXCEPT !.at = "unchanged"])
  BY <1>1, <1>2, SessionTurnKeeps DEF Session
<1>3. ASSUME NEW id \in RequestIds,
             requests' = Append(requests, [id |-> id, base |-> session[s].base,
                                           replaces |-> session[s].seen,
                                           ledger |-> session[s].ledger]),
             job' = Append(job, "waiting"),
             session' = [session EXCEPT ![s].at = "posted"],
             UNCHANGED <<context, results, candidates>>
      PROVE  LedgerInv'
  <2> DEFINE r == [id |-> id, base |-> session[s].base, replaces |-> session[s].seen,
                   ledger |-> session[s].ledger]
  <2>1. r \in Request
    BY <1>1 DEF Session, Request
  <2>2. session' \in [Sessions -> Session]
    BY <1>1, <1>3 DEF Session
  <2>3. \A t \in Sessions :
          /\ session'[t].at # "frozen"  \/ session'[t] = session[t]
          /\ session'[t].ledger = session[t].ledger
          /\ session'[t].at \in {"read", "posted", "reposted", "unchanged"} =>
               session[t].at \in {"read", "posted", "reposted", "unchanged"}
    BY <1>1, <1>3 DEF Session
  <2> HIDE DEF r
  <2> QED BY <1>3, <2>1, <2>2, <2>3, PostingKeeps DEF r
<1> QED BY <1>2, <1>3 DEF Post

LEMMA PostAgainKeeps ==
  ASSUME LedgerInv, NEW s \in Sessions, PostAgain(s)
  PROVE  LedgerInv'
<1>1. session \in [Sessions -> Session] /\ session[s].at = "posted"
  BY DEF LedgerInv, TypesInv, PostAgain
<1>2. PICK n \in DOMAIN requests : requests' = Append(requests, requests[n])
  BY DEF PostAgain
<1>3. requests[n] \in Request
  BY <1>2 DEF LedgerInv, TypesInv
<1>4. /\ session' \in [Sessions -> Session]
      /\ \A t \in Sessions :
          /\ session'[t].at # "frozen"  \/ session'[t] = session[t]
          /\ session'[t].ledger = session[t].ledger
          /\ session'[t].at \in {"read", "posted", "reposted", "unchanged"} =>
               session[t].at \in {"read", "posted", "reposted", "unchanged"}
  BY <1>1 DEF PostAgain, Session
<1> QED BY <1>2, <1>3, <1>4, PostingKeeps DEF PostAgain

-----------------------------------------------------------------------------
LEMMA OldestExists ==
  ASSUME NEW S \in SUBSET Nat, S # {}
  PROVE  (CHOOSE r \in S : \A q \in S : r <= q) \in S
<1>1. \E i \in S : \A j \in S : i <= j
  BY LeastNumber
<1> QED BY <1>1

(* What the decision on a request says of the comments before it.          *)
LEMMA ClassifyFinds ==
  ASSUME LedgerInv, NEW n \in DOMAIN requests
  PROVE  /\ Classify(n) \in {"new", "replay", "REQUEST_ID_REUSE"}
         /\ Classify(n) = "new" =>
              \A m \in 1 .. n - 1 : requests[m].id = requests[n].id =>
                                      requests[m] = requests[n]
         /\ Classify(n) = "replay" => \E m \in results : requests[m] = requests[n]
<1> DEFINE of == {r \in results : requests[r].id = requests[n].id}
           first == CHOOSE r \in of : \A q \in of : r <= q
<1>1. of \in SUBSET Nat
  BY DEF LedgerInv, TypesInv, CandidatesInv
<1>2. of # {} => first \in of
  BY <1>1, OldestExists
<1> QED BY <1>2 DEF Classify

(* A job moves on and the candidates and results with it.                  *)
LEMMA JobKeeps ==
  ASSUME LedgerInv, NEW n \in DOMAIN requests, NEW phase \in Phases, Job(n, phase),
         UNCHANGED <<session, context, requests>>,
         phase \in {"new", "published", "done"} =>
           \/ job[n] \in {"new", "published", "done"}
           \/ \A m \in 1 .. n - 1 : requests[m].id = requests[n].id =>
                                      requests[m] = requests[n],
         phase = "replay" => \E m \in candidates : requests[m] = requests[n],
         job[n] \in {"published", "done"} => phase \in {"published", "done"},
         job[n] # "done",
         candidates' = IF phase \in {"published", "done"} THEN candidates \cup {n}
                       ELSE candidates,
         results' = IF phase = "done" THEN results \cup {n} ELSE results
  PROVE  LedgerInv'
<1>1. /\ n \in DOMAIN job /\ DOMAIN job' = DOMAIN job
      /\ job'[n] = phase /\ \A i \in DOMAIN job : i # n => job'[i] = job[i]
      /\ job' \in Seq(Phases) /\ Len(job') = Len(job)
  BY DEF Job, LedgerInv, TypesInv
<1>2. TypesInv'
  BY <1>1 DEF LedgerInv, TypesInv
<1>3. CandidatesInv'
  BY <1>1 DEF LedgerInv, CandidatesInv
<1>4. DecisionsInv'
  BY <1>1 DEF LedgerInv, CandidatesInv, DecisionsInv
<1> QED BY <1>2, <1>3, <1>4 DEF LedgerInv

LEMMA JobsKeep ==
  ASSUME LedgerInv, NEW n \in DOMAIN requests, Decide(n) \/ Publish(n) \/ PostResult(n)
  PROVE  LedgerInv'
<1>1. results \subseteq candidates
  BY DEF LedgerInv, CandidatesInv
<1>2. CASE Decide(n)
  <2>1. /\ job[n] = "waiting" /\ Job(n, Classify(n))
        /\ UNCHANGED <<session, context, requests, results, candidates>>
    BY <1>2 DEF Decide
  <2>2. Classify(n) \in {"new", "replay", "REQUEST_ID_REUSE"}
    BY ClassifyFinds
  <2>3. Classify(n) \in Phases
    BY <2>2 DEF Phases
  <2> QED BY <1>1, <2>1, <2>2, <2>3, ClassifyFinds, JobKeeps
<1>3. CASE Publish(n)
  BY <1>3, JobKeeps DEF Publish, Phases
<1>4. CASE PostResult(n)
  <2>1. n \in candidates
    BY <1>4 DEF LedgerInv, TypesInv, CandidatesInv, PostResult
  <2> QED BY <1>4, <2>1, JobKeeps DEF PostResult, Phases
<1> QED BY <1>2, <1>3, <1>4

LEMMA ContextKeeps ==
  ASSUME LedgerInv,
         \/ \E n \in DOMAIN requests : MergeCandidate(n)
         \/ OthersPublish
         \/ UNCHANGED ledgerVars
  PROVE  LedgerInv'
<1>1. CASE \E n \in DOMAIN requests : MergeCandidate(n)
  <2>1. PICK n \in DOMAIN requests : MergeCandidate(n)
    BY <1>1
  <2>2. requests[n] \in Request
    BY DEF LedgerInv, TypesInv
  <2>3. context' \in [head: Nat, ledger: Ledgers, changed: Nat]
    BY <2>1, <2>2 DEF MergeCandidate, Request, LedgerInv, TypesInv
  <2>4. UNCHANGED <<session, requests, job, results, candidates>>
    BY <2>1 DEF MergeCandidate
  <2>5. TypesInv'
    BY <2>3, <2>4 DEF LedgerInv, TypesInv
  <2>6. CandidatesInv' /\ DecisionsInv'
    BY <2>4 DEF LedgerInv, CandidatesInv, DecisionsInv
  <2> QED BY <2>5, <2>6 DEF LedgerInv
<1>2. CASE OthersPublish
  <2>1. context' \in [head: Nat, ledger: Ledgers, changed: Nat]
    BY <1>2 DEF OthersPublish, LedgerInv, TypesInv
  <2> QED
    BY <1>2, <2>1 DEF OthersPublish, LedgerInv, TypesInv, CandidatesInv, DecisionsInv
<1>3. CASE UNCHANGED ledgerVars
  BY <1>3 DEF ledgerVars, LedgerInv, TypesInv, CandidatesInv, DecisionsInv
<1> QED BY <1>1, <1>2, <1>3

LEMMA NextKeeps == LedgerInv /\ [LedgerNext]_ledgerVars => LedgerInv'
BY SessionsKeep, PostKeeps, PostAgainKeeps, JobsKeep, ContextKeeps DEF LedgerNext

THEOREM LedgerInvariant == LedgerSpec => []LedgerInv
BY InitInvariant, NextKeeps, PTL DEF LedgerSpec

(* A session has a ledger where it needs one, every request has a job, and *)
(* there are results of candidates only.                                   *)
THEOREM LedgerTypesAlways == LedgerSpec => []LedgerTypeOK
<1>1. LedgerInv => LedgerTypeOK
  BY DEF LedgerInv, TypesInv, CandidatesInv, LedgerTypeOK
<1> QED BY <1>1, LedgerInvariant, PTL

(* A request id stands for one request, however late results are posted and*)
(* however often requests are: of two candidates of one id the later one   *)
(* had the earlier one's comment before it when it was decided.            *)
THEOREM IdsAlwaysOneRequest == LedgerSpec => []IdsStandForOneRequest
<1>1. ASSUME LedgerInv, NEW m \in candidates, NEW n \in candidates,
             requests[m].id = requests[n].id, m < n
      PROVE  requests[m] = requests[n]
  <2>1. m \in 1 .. n - 1 /\ n \in DOMAIN job /\ job[n] \in {"published", "done"}
    BY <1>1 DEF LedgerInv, TypesInv, CandidatesInv
  <2> QED BY <1>1, <2>1 DEF LedgerInv, DecisionsInv
<1>2. ASSUME LedgerInv PROVE candidates \subseteq Nat
  BY <1>2 DEF LedgerInv, TypesInv, CandidatesInv
<1>3. ASSUME LedgerInv, NEW m \in candidates, NEW n \in candidates,
             requests[m].id = requests[n].id
      PROVE  requests[m] = requests[n]
  <2>1. m \in Nat /\ n \in Nat
    BY <1>2, <1>3
  <2>2. m < n \/ n < m \/ m = n
    BY <2>1
  <2> QED BY <1>1, <1>3, <2>2
<1>4. LedgerInv => IdsStandForOneRequest
  BY <1>3 DEF LedgerInv, DecisionsInv, IdsStandForOneRequest
<1> QED BY <1>4, LedgerInvariant, PTL

-----------------------------------------------------------------------------
(* Ledgers.                                                                *)

(* Whatever is generated has finitely many claims and is in order.         *)
LEMMA LedgersAreLedgers ==
  ASSUME NEW l \in Ledgers
  PROVE  \E claims : /\ l = Materialized(claims) /\ LedgerOK(claims)
                     /\ IsFiniteSet(claims)
<1>1. CASE l = NoLedger
  <2>1. LedgerOK({}) /\ IsFiniteSet({})
    BY FS_EmptySet DEF LedgerOK
  <2> QED BY <1>1, <2>1 DEF NoLedger
<1>2. CASE l # NoLedger
  <2>1. PICK corpus \in Corpora : l = Materialized(Claims(corpus)) /\ LedgerOK(Claims(corpus))
    BY <1>2 DEF Ledgers
  <2>2. IsFiniteSet(corpus)
    BY <2>1, CorporaAssumption
  <2>3. IsFiniteSet(Claims(corpus))
    <3> DEFINE f == [r \in corpus |-> Claim(corpus, r)]
    <3>1. f \in Surjection(corpus, Claims(corpus))
      BY DEF Claims, Surjection
    <3> QED BY <2>2, <3>1, FS_Surjection
  <2> QED BY <2>1, <2>3
<1> QED BY <1>1, <1>2

(* The checks of a ledger, which ask claim by claim, make its relations    *)
(* converse of each other as a whole.                                      *)
LEMMA ConsistentLedger ==
  ASSUME LedgerOK(context.ledger.claims), IsFiniteSet(context.ledger.claims),
         context.ledger.conflicts = ConflictIndex(context.ledger.claims)
  PROVE  LedgerIsConsistent
<1> DEFINE claims == context.ledger.claims
           ids == {c.id : c \in claims}
           of(r) == {p \in ids \X ids : \E c \in claims : c.id = p[1] /\ p[2] \in c.rel[r]}
           swapped(R) == {<<p[2], p[1]>> : p \in R}
           status(v) == {c.id : c \in {d \in claims : d.status = v}}
<1>1. /\ LedgerOK(claims) /\ IsFiniteSet(claims)
      /\ context.ledger.conflicts = ConflictIndex(claims)
  OBVIOUS
<1> HIDE DEF claims
<1>2. Cardinality(ids) = Cardinality(claims)
  <2> DEFINE f == [c \in claims |-> c.id]
  <2>1. f \in Injection(claims, ids)
    BY <1>1 DEF LedgerOK, Injection, IsInjective
  <2>2. f \in Surjection(claims, ids)
    BY DEF Surjection
  <2>3. f \in Bijection(claims, ids)
    BY <2>1, <2>2 DEF Bijection
  <2> HIDE DEF f, ids
  <2> QED BY <1>1, <2>3, FS_Bijection DEF ExistsBijection
<1>3. /\ "supersedes" \in Relations /\ "superseded_by" \in Relations
      /\ "conflicts_with" \in Relations
      /\ \A r \in Relations : r \in {"supersedes", "superseded_by", "conflicts_with"}
  BY DEF Relations
<1>4. \A c \in claims, r \in Relations : c.rel[r] \subseteq ids \ {c.id}
  <2> SUFFICES ASSUME NEW c \in claims, NEW r \in Relations, NEW id \in c.rel[r]
               PROVE  id \in ids /\ id # c.id
    OBVIOUS
  <2>1. id # c.id
    <3>1. ClaimOK(c)
      BY <1>1 DEF LedgerOK
    <3>2. \A n \in Relations : c.id \notin c.rel[n]
      BY <3>1, Zenon DEF ClaimOK
    <3> QED BY <3>2
  <2>2. \E d \in claims : d.id = id
    BY <1>1, <1>3 DEF LedgerOK
  <2> QED BY <2>1, <2>2
<1>5. ASSUME NEW c \in claims, NEW r \in Relations, NEW id \in c.rel[r]
      PROVE  <<c.id, id>> \in of(r)
  BY <1>4
<1>6. ASSUME NEW r \in Relations, NEW p \in of(r)
      PROVE  \E c \in claims : p = <<c.id, p[2]>> /\ p[2] \in c.rel[r]
  OBVIOUS
<1> HIDE DEF of
<1>7. ASSUME NEW r \in Relations, NEW s \in Relations,
             \A c \in claims : \A id \in c.rel[r] :
               \E d \in claims : d.id = id /\ c.id \in d.rel[s],
             NEW p \in of(r)
      PROVE  <<p[2], p[1]>> \in of(s)
  <2>1. PICK c \in claims : p = <<c.id, p[2]>> /\ p[2] \in c.rel[r]
    BY <1>6
  <2>2. PICK d \in claims : d.id = p[2] /\ c.id \in d.rel[s]
    BY <1>7, <2>1
  <2>3. <<d.id, c.id>> \in of(s)
    BY <1>5, <2>2
  <2> QED BY <2>1, <2>2, <2>3
<1>8. ASSUME NEW r \in Relations, NEW s \in Relations,
             \A c \in claims : \A id \in c.rel[r] :
               \E d \in claims : d.id = id /\ c.id \in d.rel[s],
             \A c \in claims : \A id \in c.rel[s] :
               \E d \in claims : d.id = id /\ c.id \in d.rel[r]
      PROVE  of(r) = swapped(of(s))
  <2>1. ASSUME NEW p \in of(r) PROVE p \in swapped(of(s))
    <3>1. <<p[2], p[1]>> \in of(s)
      BY <1>7, <1>8
    <3>2. p = <<p[1], p[2]>>
      BY <1>6
    <3> QED BY <3>1, <3>2
  <2>2. ASSUME NEW q \in swapped(of(s)) PROVE q \in of(r)
    <3>1. PICK p \in of(s) : q = <<p[2], p[1]>>
      OBVIOUS
    <3> QED BY <1>7, <1>8, <3>1
  <2> QED BY <2>1, <2>2
<1>9. of("superseded_by") = swapped(of("supersedes"))
  <2> HIDE DEF swapped
  <2>1. \A c \in claims : \A id \in c.rel["superseded_by"] :
          \E d \in claims : d.id = id /\ c.id \in d.rel["supersedes"]
    BY <1>1 DEF LedgerOK
  <2>2. \A c \in claims : \A id \in c.rel["supersedes"] :
          \E d \in claims : d.id = id /\ c.id \in d.rel["superseded_by"]
    BY <1>1 DEF LedgerOK
  <2> QED BY <1>3, <1>8, <2>1, <2>2
<1>10. of("conflicts_with") = swapped(of("conflicts_with"))
  <2> HIDE DEF swapped
  <2>1. \A c \in claims : \A id \in c.rel["conflicts_with"] :
          \E d \in claims : d.id = id /\ c.id \in d.rel["conflicts_with"]
    BY <1>1 DEF LedgerOK
  <2> QED BY <1>3, <1>8, <2>1
<1>11. ASSUME NEW v, NEW r \in Relations,
              \A c \in claims : c.status = v <=> c.rel[r] # {}
       PROVE  status(v) = {p[1] : p \in of(r)}
  <2>1. ASSUME NEW c \in claims, c.status = v
        PROVE  c.id \in {p[1] : p \in of(r)}
    <3>1. PICK id \in c.rel[r] : TRUE
      BY <1>11, <2>1
    <3>2. <<c.id, id>> \in of(r) /\ <<c.id, id>>[1] = c.id
      BY <1>5
    <3> QED BY <3>2
  <2>2. ASSUME NEW p \in of(r) PROVE p[1] \in status(v)
    <3>1. PICK c \in claims : p = <<c.id, p[2]>> /\ p[2] \in c.rel[r]
      BY <1>6
    <3> QED BY <1>11, <3>1
  <2> QED BY <2>1, <2>2
<1>12. \A c \in claims : /\ c.status = "superseded" <=> c.rel["superseded_by"] # {}
                         /\ c.status = "contradicted" <=> c.rel["conflicts_with"] # {}
  <2> SUFFICES ASSUME NEW c \in claims
               PROVE  /\ c.status = "superseded" <=> c.rel["superseded_by"] # {}
                      /\ c.status = "contradicted" <=> c.rel["conflicts_with"] # {}
    OBVIOUS
  <2>1. ClaimOK(c) /\ c.status \in ClaimStatuses
    BY <1>1 DEF LedgerOK, ClaimOK
  <2>2. CASE c.status = "supported"
    BY <2>1, <2>2 DEF ClaimOK
  <2>3. CASE c.status = "superseded"
    BY <2>1, <2>3 DEF ClaimOK
  <2>4. CASE c.status = "contradicted"
    BY <2>1, <2>4 DEF ClaimOK
  <2>5. CASE c.status = "unverified"
    BY <1>3, <2>1, <2>5 DEF ClaimOK
  <2> QED BY <2>1, <2>2, <2>3, <2>4, <2>5 DEF ClaimStatuses
<1>13. status("superseded") = {p[1] : p \in of("superseded_by")}
  <2> HIDE DEF status
  <2> QED BY <1>3, <1>11, <1>12
<1>14. status("contradicted") = {p[1] : p \in of("conflicts_with")}
  <2> HIDE DEF status
  <2> QED BY <1>3, <1>11, <1>12
<1>15. ConflictIndex(claims) = {{p[1], p[2]} : p \in of("conflicts_with")}
  <2>1. ASSUME NEW c \in claims, NEW id \in c.rel["conflicts_with"]
        PROVE  {c.id, id} \in {{p[1], p[2]} : p \in of("conflicts_with")}
    <3>1. <<c.id, id>> \in of("conflicts_with")
      BY <1>3, <1>5
    <3> QED BY <3>1
  <2>2. ASSUME NEW p \in of("conflicts_with")
        PROVE  {p[1], p[2]} \in ConflictIndex(claims)
    <3>1. PICK c \in claims : p = <<c.id, p[2]>> /\ p[2] \in c.rel["conflicts_with"]
      BY <1>3, <1>6
    <3>2. p[1] = c.id
      BY <3>1
    <3> QED BY <3>1, <3>2 DEF ConflictIndex
  <2>3. ASSUME NEW x \in ConflictIndex(claims)
        PROVE  x \in {{p[1], p[2]} : p \in of("conflicts_with")}
    BY <2>1 DEF ConflictIndex
  <2> QED BY <2>2, <2>3
<1> QED
  BY <1>1, <1>2, <1>4, <1>9, <1>10, <1>13, <1>14, <1>15 DEF LedgerIsConsistent, of, claims

(* The ledger on main is one ledger at all times: only what was generated  *)
(* from a corpus and passed the checks of a ledger as a whole is merged.   *)
THEOREM LedgerAlwaysConsistent == LedgerSpec => []LedgerIsConsistent
<1>1. LedgerInv => LedgerIsConsistent
  <2> SUFFICES ASSUME LedgerInv PROVE LedgerIsConsistent
    OBVIOUS
  <2>1. PICK claims : /\ context.ledger = Materialized(claims) /\ LedgerOK(claims)
                      /\ IsFiniteSet(claims)
    BY LedgersAreLedgers DEF LedgerInv, TypesInv
  <2>2. /\ context.ledger.claims = claims
        /\ context.ledger.conflicts = ConflictIndex(claims)
    BY <2>1 DEF Materialized
  <2> QED BY <2>1, <2>2, ConsistentLedger
<1> QED BY <1>1, LedgerInvariant, PTL

-----------------------------------------------------------------------------
(* KnowledgeDeltaGate: from a green pull request to a completed Issue.     *)

(* A snapshot of the repository has its four parts.                        *)
IsTree(t) ==
  t = [milestone |-> t.milestone, completed |-> t.completed, active |-> t.active,
       delta |-> [k \in Keys |-> t.delta[k]]]

PullFields == {"base", "head", "seen", "commit", "post", "completed"}

(* Nothing is said of main, which may be broken.  The check of a pull      *)
(* request has passed for its merge with the main it was run with; a branch*)
(* is its own merge with the main it has taken in; what was checked after  *)
(* the merge, or completed, passes by itself.                              *)
PullOK(p) ==
  /\ DOMAIN p = PullFields
  /\ MergeOnto(p.base, p.head, p.base) = p.head
  /\ \A m \in p.seen : Passes(MergeOnto(p.base, p.head, m))
  /\ \A c, d \in p.commit : c = d
  /\ p.commit = {} => ~p.post /\ ~p.completed
  /\ p.post \/ p.completed => \A c \in p.commit : Passes(c)

GateInv ==
  /\ IsTree(tree)
  /\ \A p \in pull : PullOK(p) /\ pull = {p}

-----------------------------------------------------------------------------
(* Merging a branch into what it began from makes the branch.              *)
LEMMA HeadIsItsMerge ==
  ASSUME NEW base, NEW head, IsTree(head)
  PROVE  MergeOnto(base, head, base) = head
<1>1. /\ Ours(base.milestone, head.milestone, base.milestone) = head.milestone
      /\ \A k \in Keys : Ours(base.delta[k], head.delta[k], base.delta[k]) = head.delta[k]
  BY DEF Ours
<1>2. /\ OursOf(base.completed, head.completed, base.completed) = head.completed
      /\ OursOf(base.active, head.active, base.active) = head.active
  BY DEF OursOf
<1>3. MergeOnto(base, head, base) =
        [milestone |-> head.milestone, completed |-> head.completed,
         active |-> head.active, delta |-> [k \in Keys |-> head.delta[k]]]
  BY <1>1, <1>2 DEF MergeOnto
<1> QED BY <1>3 DEF IsTree

LEMMA MergesAreTrees ==
  ASSUME NEW base, NEW head, NEW theirs
  PROVE  IsTree(MergeOnto(base, head, theirs))
BY DEF MergeOnto, IsTree

LEMMA ChangesAreTrees ==
  ASSUME NEW t, IsTree(t), NEW c \in Changes(t)
  PROVE  IsTree(c)
<1>1. PICK s \in StatusChanges(t) : c \in FileChanges(s)
  BY DEF Changes
<1>2. IsTree(s)
  <2>1. /\ DOMAIN t = {"milestone", "completed", "active", "delta"}
        /\ t.delta = [k \in Keys |-> t.delta[k]]
    BY DEF IsTree
  <2>2. \/ s = t
        \/ \E a : s = [t EXCEPT !.active = a]
        \/ \E a, d : s = [t EXCEPT !.active = a, !.completed = d]
        \/ \E m : s = [t EXCEPT !.milestone = m]
    BY <1>1 DEF StatusChanges
  <2>3. CASE \E a : s = [t EXCEPT !.active = a]
    <3>1. PICK a : s = [t EXCEPT !.active = a]
      BY <2>3
    <3>2. s = [milestone |-> t.milestone, completed |-> t.completed, active |-> a,
               delta |-> t.delta]
      BY <2>1, <3>1 DEF IsTree
    <3> QED BY <2>1, <3>2 DEF IsTree
  <2>4. CASE \E a, d : s = [t EXCEPT !.active = a, !.completed = d]
    <3>1. PICK a, d : s = [t EXCEPT !.active = a, !.completed = d]
      BY <2>4
    <3>2. s = [milestone |-> t.milestone, completed |-> d, active |-> a, delta |-> t.delta]
      BY <2>1, <3>1 DEF IsTree
    <3> QED BY <2>1, <3>2 DEF IsTree
  <2>5. CASE \E m : s = [t EXCEPT !.milestone = m]
    <3>1. PICK m : s = [t EXCEPT !.milestone = m]
      BY <2>5
    <3>2. s = [milestone |-> m, completed |-> t.completed, active |-> t.active,
               delta |-> t.delta]
      BY <2>1, <3>1 DEF IsTree
    <3> QED BY <2>1, <3>2 DEF IsTree
  <2> QED BY <2>2, <2>3, <2>4, <2>5
<1>3. c = s \/ \E k \in Keys, d \in Deltas : c = [s EXCEPT !.delta[k] = d]
  BY <1>1 DEF FileChanges
<1> QED BY <1>2, <1>3 DEF IsTree

(* A branch that was just opened, or has just taken main in.               *)
LEMMA FreshPullOK ==
  ASSUME NEW base, NEW head, IsTree(head)
  PROVE  PullOK(Pull(base, head))
<1>1. /\ DOMAIN Pull(base, head) = PullFields
      /\ Pull(base, head).base = base /\ Pull(base, head).head = head
      /\ Pull(base, head).seen = {} /\ Pull(base, head).commit = {}
      /\ Pull(base, head).post = FALSE /\ Pull(base, head).completed = FALSE
  BY DEF Pull, PullFields
<1> QED BY <1>1, HeadIsItsMerge DEF PullOK

(* A check that was run with one main, or passed for none.                 *)
LEMMA CheckedPullOK ==
  ASSUME NEW p, PullOK(p), p.commit = {}, NEW mains,
         \A m \in mains : Passes(MergeOnto(p.base, p.head, m))
  PROVE  PullOK([p EXCEPT !.seen = mains])
<1> DEFINE q == [p EXCEPT !.seen = mains]
<1>1. DOMAIN p = PullFields
  BY DEF PullOK
<1>2. /\ DOMAIN q = PullFields
      /\ q.base = p.base /\ q.head = p.head /\ q.seen = mains
      /\ q.commit = {} /\ q.post = p.post /\ q.completed = p.completed
  BY <1>1 DEF PullFields
<1> HIDE DEF q
<1>3. PullOK(q)
  BY <1>2 DEF PullOK
<1> QED BY <1>3 DEF q

-----------------------------------------------------------------------------
LEMMA InitGate == InitTree => GateInv
BY DEF InitTree, GateInv, IsTree

LEMMA StepKeepsGate == GateInv /\ [GateNext]_gateVars => GateInv'
<1> SUFFICES ASSUME GateInv, [GateNext]_gateVars PROVE GateInv'
  OBVIOUS
<1>0. IsTree(tree)
  BY DEF GateInv
<1>1. CASE Open
  <2>1. PICK head \in Changes(tree) : pull' = {Pull(tree, head)}
    BY <1>1 DEF Open
  <2>2. PullOK(Pull(tree, head))
    BY <1>0, <2>1, ChangesAreTrees, FreshPullOK
  <2> QED BY <1>0, <1>1, <2>1, <2>2 DEF Open, GateInv
<1>2. CASE CheckPull
  <2>1. PICK p \in pull :
          /\ p.commit = {}
          /\ pull' = {[p EXCEPT !.seen = IF Passes(Merged(p)) THEN {tree} ELSE {}]}
    BY <1>2 DEF CheckPull
  <2>2. PICK mains : mains = (IF Passes(Merged(p)) THEN {tree} ELSE {})
    OBVIOUS
  <2>3. \A m \in mains : Passes(MergeOnto(p.base, p.head, m))
    BY <2>2 DEF Merged
  <2>4. PullOK([p EXCEPT !.seen = mains])
    BY <2>1, <2>3, CheckedPullOK DEF GateInv
  <2> QED BY <1>0, <1>2, <2>1, <2>2, <2>4 DEF CheckPull, GateInv
<1>3. CASE CheckHead
  <2>1. PICK p \in pull :
          /\ p.commit = {}
          /\ pull' = {[p EXCEPT !.seen = IF Passes(p.head) THEN {p.base} ELSE {}]}
    BY <1>3 DEF CheckHead
  <2>2. PICK mains : mains = (IF Passes(p.head) THEN {p.base} ELSE {})
    OBVIOUS
  <2>3. \A m \in mains : Passes(MergeOnto(p.base, p.head, m))
    BY <2>2 DEF GateInv, PullOK
  <2>4. PullOK([p EXCEPT !.seen = mains])
    BY <2>1, <2>3, CheckedPullOK DEF GateInv
  <2> QED BY <1>0, <1>3, <2>1, <2>2, <2>4 DEF CheckHead, GateInv
<1>4. CASE UpdatePull
  <2>1. PICK p \in pull : pull' = {Pull(tree, Merged(p))}
    BY <1>4 DEF UpdatePull
  <2>2. PullOK(Pull(tree, Merged(p)))
    BY MergesAreTrees, FreshPullOK DEF Merged
  <2> QED BY <1>0, <1>4, <2>1, <2>2 DEF UpdatePull, GateInv
<1>5. CASE MergePull
  <2>1. PICK p \in pull : /\ p.commit = {} /\ tree' = Merged(p)
                          /\ pull' = {[p EXCEPT !.commit = {Merged(p)}]}
    BY <1>5 DEF MergePull
  <2>2. IsTree(Merged(p)) /\ PullOK(p)
    BY MergesAreTrees DEF Merged, GateInv
  <2>3. PICK q : q = [p EXCEPT !.commit = {Merged(p)}]
    OBVIOUS
  <2>4. /\ DOMAIN q = PullFields
        /\ q.base = p.base /\ q.head = p.head /\ q.seen = p.seen
        /\ q.commit = {Merged(p)} /\ q.post = p.post /\ q.completed = p.completed
    BY <2>2, <2>3 DEF PullOK, PullFields
  <2>5. PullOK(q)
    BY <2>1, <2>2, <2>4 DEF PullOK
  <2> QED BY <2>1, <2>2, <2>3, <2>5 DEF GateInv
<1>6. CASE MergeOther
  BY <1>6, MergesAreTrees DEF MergeOther, GateInv
<1>7. CASE CheckMain
  <2>1. PICK p \in pull : \E c \in p.commit : pull' = {[p EXCEPT !.post = Passes(c)]}
    BY <1>7 DEF CheckMain
  <2>0. PICK c \in p.commit : pull' = {[p EXCEPT !.post = Passes(c)]}
    BY <2>1
  <2>2. PullOK(p)
    BY DEF GateInv
  <2>3. PICK passes \in BOOLEAN : passes <=> Passes(c)
    OBVIOUS
  <2>4. PICK q : q = [p EXCEPT !.post = Passes(c)]
    OBVIOUS
  <2>5. /\ DOMAIN q = PullFields
        /\ q.base = p.base /\ q.head = p.head /\ q.seen = p.seen
        /\ q.commit = p.commit /\ (q.post <=> Passes(c)) /\ q.completed = p.completed
    <3> DEFINE post == Passes(c)
    <3>1. q = [p EXCEPT !.post = post]
      BY <2>4
    <3> HIDE DEF post
    <3>2. /\ DOMAIN q = PullFields
          /\ q.base = p.base /\ q.head = p.head /\ q.seen = p.seen
          /\ q.commit = p.commit /\ q.post = post /\ q.completed = p.completed
      BY <2>2, <3>1 DEF PullOK, PullFields
    <3> QED BY <3>2 DEF post
  <2>6. PullOK(q)
    BY <2>2, <2>5 DEF PullOK
  <2> QED BY <1>0, <1>7, <2>0, <2>4, <2>6 DEF CheckMain, GateInv
<1>8. CASE Complete
  <2>1. PICK p \in pull : /\ p.commit # {} /\ p.post
                          /\ pull' = {[p EXCEPT !.completed = TRUE]}
    BY <1>8 DEF Complete
  <2>2. PullOK(p)
    BY DEF GateInv
  <2>3. PICK q : q = [p EXCEPT !.completed = TRUE]
    OBVIOUS
  <2>4. /\ DOMAIN q = PullFields
        /\ q.base = p.base /\ q.head = p.head /\ q.seen = p.seen
        /\ q.commit = p.commit /\ q.post = p.post
    BY <2>2, <2>3 DEF PullOK, PullFields
  <2>5. PullOK(q)
    BY <2>1, <2>2, <2>4 DEF PullOK
  <2> QED BY <1>0, <1>8, <2>1, <2>3, <2>5 DEF Complete, GateInv
<1>9. CASE Close
  BY <1>0, <1>9 DEF Close, GateInv
<1>10. CASE UNCHANGED gateVars
  BY <1>10 DEF gateVars, GateInv
<1> QED
  BY <1>1, <1>2, <1>3, <1>4, <1>5, <1>6, <1>7, <1>8, <1>9, <1>10 DEF GateNext

(* What passes records its tasks: a delta is filed under the key of its    *)
(* Issue and no other file speaks of it.                                   *)
LEMMA PassingTreeRecords ==
  ASSUME NEW t, Passes(t)
  PROVE  RecordedOnce(t)
<1> SUFFICES ASSUME NEW k \in Keys
             PROVE  /\ k \in Required(t) => {j \in Keys : t.delta[j] = k.issue} = {k}
                    /\ ~(k \in t.completed /\ k \in t.active)
  BY DEF RecordedOnce
<1>1. ~(k \in t.completed /\ k \in t.active)
  BY DEF Passes, BuildStatusOK
<1>2. ASSUME k \in Required(t) PROVE t.delta[k] = k.issue /\ k \in Files(t)
  BY <1>2 DEF Passes, DeltasOK
<1>3. ASSUME k \in Required(t), NEW j \in Keys, t.delta[j] = k.issue
      PROVE  j = k
  <2>1. k.issue \in Nat \ {0}
    BY KeysAssumption
  <2>2. j \in Files(t)
    BY <1>3, <2>1 DEF Files, NoDelta
  <2> QED BY <1>2, <1>3, <2>2 DEF Passes, DeltasOK
<1> QED BY <1>1, <1>2, <1>3

(* In whatever order pull requests are checked, updated and merged, and    *)
(* main broken by others: an Issue is completed only when the commit of its*)
(* pull request on main has its tasks recorded once.                       *)
THEOREM CompletedAlwaysRecorded == GateSpec => []CompletedIsRecorded
<1>1. GateInv => CompletedIsRecorded
  BY PassingTreeRecords DEF GateInv, PullOK, CompletedIsRecorded
<1> QED BY <1>1, InitGate, StepKeepsGate, PTL DEF GateSpec

(* A pull request that is merged into the very main it was checked with    *)
(* leaves a main with its tasks recorded once.                             *)
THEOREM FreshMergesAlwaysSafe == GateSpec => FreshMergesAreSafe
<1> DEFINE Fresh ==
      \A p \in pull :
        (/\ p.commit = {} /\ tree \in p.seen
         /\ \E q \in pull' : q.commit # {}) => RecordedOnce(tree')
<1>1. GateInv /\ [GateNext]_gateVars => [Fresh]_gateVars
  <2> SUFFICES ASSUME GateInv, GateNext, NEW p \in pull, p.commit = {}, tree \in p.seen,
                      NEW q \in pull', q.commit # {}
               PROVE  RecordedOnce(tree')
    BY DEF gateVars
  <2>1. pull = {p} /\ Passes(Merged(p))
    BY DEF GateInv, PullOK, Merged
  <2>2. CASE MergePull
    <3>1. tree' = Merged(p)
      BY <2>1, <2>2 DEF MergePull
    <3> QED BY <2>1, <3>1, PassingTreeRecords
  <2>3. CASE Open \/ UpdatePull \/ Close
    BY <2>1, <2>3 DEF Open, UpdatePull, Close, Pull
  <2>4. CASE CheckPull \/ CheckHead
    BY <2>1, <2>4 DEF CheckPull, CheckHead, GateInv, PullOK, PullFields
  <2>5. CASE MergeOther
    BY <2>1, <2>5 DEF MergeOther
  <2>6. CASE CheckMain \/ Complete
    BY <2>1, <2>6 DEF CheckMain, Complete
  <2> QED BY <2>2, <2>3, <2>4, <2>5, <2>6 DEF GateNext
<1> QED
  <2>1. GateSpec => [][Fresh]_gateVars
    BY <1>1, InitGate, StepKeepsGate, PTL DEF GateSpec
  <2> QED BY <2>1 DEF FreshMergesAreSafe

-----------------------------------------------------------------------------
(* What SortedById makes of a list of rows with ids of their own.          *)

Smaller(R, r) == {s \in R : s.id < r.id}

LEMMA SmallerIsFewer ==
  ASSUME NEW R, IsFiniteSet(R), \A r \in R : r.id \in Nat,
         NEW r \in R, NEW s \in R, r.id < s.id
  PROVE  /\ Cardinality(Smaller(R, r)) < Cardinality(Smaller(R, s))
         /\ Cardinality(Smaller(R, s)) \in Nat /\ Cardinality(Smaller(R, r)) \in Nat
<1>1. Smaller(R, r) \subseteq Smaller(R, s) /\ r \in Smaller(R, s) /\ r \notin Smaller(R, r)
  BY DEF Smaller
<1>2. IsFiniteSet(Smaller(R, r)) /\ IsFiniteSet(Smaller(R, s))
  BY FS_Subset DEF Smaller
<1>3. Cardinality(Smaller(R, r)) <= Cardinality(Smaller(R, s))
      /\ (Cardinality(Smaller(R, r)) = Cardinality(Smaller(R, s)) => Smaller(R, r) = Smaller(R, s))
  BY <1>1, <1>2, FS_Subset
<1>4. Cardinality(Smaller(R, s)) \in Nat /\ Cardinality(Smaller(R, r)) \in Nat
  BY <1>2, FS_CardinalityType
<1> QED BY <1>1, <1>3, <1>4

Listed(rows) ==
  /\ DOMAIN rows = 1..Len(rows) /\ Len(rows) \in Nat
  /\ \A i \in 1..Len(rows) : rows[i].id \in Nat
  /\ IsInjective(Ids(rows))

LEMMA RowsAreFinite ==
  ASSUME NEW rows, Listed(rows)
  PROVE  /\ IsFiniteSet(ToSet(rows)) /\ Cardinality(ToSet(rows)) = Len(rows)
         /\ \A r \in ToSet(rows) : r.id \in Nat
         /\ \A r, s \in ToSet(rows) : r.id = s.id => r = s
<1> DEFINE n == Len(rows)
           f == [i \in 1..n |-> rows[i]]
           R == ToSet(rows)
<1>1. n \in Nat /\ R = {rows[i] : i \in 1..n}
  BY DEF Listed, ToSet
<1>2. \A i, j \in 1..n : rows[i].id = rows[j].id => i = j
  BY DEF Listed, Ids, IsInjective
<1>3. f \in Surjection(1..n, R)
  BY <1>1 DEF Surjection
<1>4. f \in Injection(1..n, R)
  BY <1>1, <1>2 DEF Injection, IsInjective
<1>5. IsFiniteSet(1..n) /\ Cardinality(1..n) = n
  BY <1>1, FS_Interval
<1>6. IsFiniteSet(R) /\ Cardinality(R) = n
  BY <1>3, <1>4, <1>5, FS_Surjection
<1> QED BY <1>1, <1>2, <1>6 DEF Listed

LEMMA SortedByIdIsSorted ==
  ASSUME NEW rows, Listed(rows)
  PROVE  /\ DOMAIN SortedById(rows) = 1..Len(rows) /\ Len(SortedById(rows)) = Len(rows)
         /\ \A i \in 1..Len(rows) : SortedById(rows)[i] \in ToSet(rows)
         /\ \A r \in ToSet(rows) : \E i \in 1..Len(rows) : SortedById(rows)[i] = r
<1> DEFINE n == Len(rows)
           R == ToSet(rows)
           t == SortedById(rows)
           rank == [r \in R |-> Cardinality(Smaller(R, r)) + 1]
<1>1. /\ IsFiniteSet(R) /\ Cardinality(R) = n /\ n \in Nat
      /\ \A r \in R : r.id \in Nat
      /\ \A r, s \in R : r.id = s.id => r = s
  BY RowsAreFinite DEF Listed
<1>2. /\ DOMAIN t = 1..n /\ t = [i \in 1..n |-> t[i]]
      /\ \A i \in 1..n : t[i] = CHOOSE r \in R : Cardinality(Smaller(R, r)) = i - 1
  <2>1. t = [i \in DOMAIN rows |-> CHOOSE r \in R : Cardinality(Smaller(R, r)) = i - 1]
    BY DEF SortedById, Smaller
  <2>2. DOMAIN rows = 1..n
    BY DEF Listed
  <2> HIDE DEF t, R
  <2> QED BY <2>1, <2>2
<1> HIDE DEF R, n
<1>3. ASSUME NEW r \in R
      PROVE  Cardinality(Smaller(R, r)) \in Nat /\ Cardinality(Smaller(R, r)) + 1 \in 1..n
  <2>1. Smaller(R, r) \subseteq R /\ r \notin Smaller(R, r)
    BY <1>1 DEF Smaller
  <2>2. Cardinality(Smaller(R, r)) < n /\ Cardinality(Smaller(R, r)) \in Nat
    BY <2>1, <1>1, FS_Subset, FS_CardinalityType
  <2> QED BY <2>2, <1>1
<1>4. ASSUME NEW r \in R, NEW s \in R, Cardinality(Smaller(R, r)) = Cardinality(Smaller(R, s))
      PROVE  r = s
  <2>1. ~(r.id < s.id) /\ ~(s.id < r.id)
    BY <1>1, <1>4, SmallerIsFewer
  <2> QED BY <1>1, <2>1
<1>5. rank \in Injection(R, 1..n)
  BY <1>3, <1>4 DEF Injection, IsInjective
<1>6. IsFiniteSet(1..n) /\ Cardinality(1..n) = n
  BY <1>1, FS_Interval
<1>7. rank \in Surjection(R, 1..n)
  BY <1>1, <1>5, <1>6, FS_Injection
<1>8. ASSUME NEW i \in 1..n
      PROVE  t[i] \in R /\ Cardinality(Smaller(R, t[i])) = i - 1
  <2>1. PICK r \in R : rank[r] = i
    BY <1>7 DEF Surjection
  <2>2. Cardinality(Smaller(R, r)) = i - 1
    BY <1>3, <2>1
  <2> QED BY <1>2, <2>2
<1>9. ASSUME NEW r \in R PROVE \E i \in 1..n : t[i] = r
  <2>1. PICK i \in 1..n : i = Cardinality(Smaller(R, r)) + 1
    BY <1>3
  <2>2. Cardinality(Smaller(R, t[i])) = Cardinality(Smaller(R, r)) /\ t[i] \in R
    BY <1>3, <1>8, <2>1
  <2>3. t[i] = r
    <3> HIDE DEF t
    <3> QED BY <1>4, <2>2
  <2> QED BY <2>3
<1>10. Len(t) = n
  BY <1>1, <1>2
<1> QED BY <1>2, <1>8, <1>9, <1>10 DEF R, n

(* The manifest's sources are the rows that were offered, no more and no   *)
(* fewer.                                                                  *)
LEMMA ManifestListsRows ==
  ASSUME NEW o \in Offers, ManifestOK(o), NEW at
  PROVE  LET m == ManifestOf(o, at)
         IN  /\ DOMAIN m.required = 1..Len(o.rows) /\ Len(m.required) = Len(o.rows)
             /\ m.required = Ids(m.sources) /\ DOMAIN m.sources = 1..Len(o.rows)
             /\ ToSet(m.sources) = ToSet(o.rows)
             /\ ToSet(m.required) = ToSet(Ids(o.rows))
             /\ m.conflicts = o.conflicts
             /\ m.supersessions = Supersessions(m.sources)
             /\ m.frontier = {[key |-> r.key, id |-> r.id] :
                               r \in {s \in ToSet(m.sources) : s.key # 0}}
<1> DEFINE t == SortedById(o.rows)
           m == ManifestOf(o, at)
<1>1. Listed(o.rows)
  BY OffersAssumption DEF Listed, ManifestOK
<1>2. /\ DOMAIN t = 1..Len(o.rows) /\ Len(t) = Len(o.rows)
      /\ \A i \in 1..Len(o.rows) : t[i] \in ToSet(o.rows)
      /\ \A r \in ToSet(o.rows) : \E i \in 1..Len(o.rows) : t[i] = r
  BY <1>1, SortedByIdIsSorted
<1>3. /\ m.sources = t /\ m.required = Ids(t) /\ m.conflicts = o.conflicts
      /\ m.supersessions = Supersessions(t)
      /\ m.frontier = {[key |-> r.key, id |-> r.id] : r \in {s \in ToSet(t) : s.key # 0}}
  BY DEF ManifestOf
<1> HIDE DEF m, t
<1>4. ToSet(t) = ToSet(o.rows)
  BY <1>2 DEF ToSet
<1>5. DOMAIN Ids(t) = 1..Len(o.rows) /\ \A i \in 1..Len(o.rows) : Ids(t)[i] = t[i].id
  BY <1>2 DEF Ids
<1>6. DOMAIN o.rows = 1..Len(o.rows) /\ Len(o.rows) \in Nat
  BY <1>1 DEF Listed
<1>7. Len(Ids(t)) = Len(o.rows)
  <2>1. Ids(t) = [i \in 1..Len(o.rows) |-> t[i].id]
    BY <1>2 DEF Ids
  <2> QED BY <1>6, <2>1
<1>8. ToSet(Ids(t)) = ToSet(Ids(o.rows))
  <2>1. ToSet(Ids(t)) = {r.id : r \in ToSet(t)}
    BY <1>2, <1>5 DEF ToSet
  <2>2. ToSet(Ids(o.rows)) = {r.id : r \in ToSet(o.rows)}
    BY DEF ToSet, Ids
  <2> QED BY <1>4, <2>1, <2>2
<1> QED BY <1>2, <1>3, <1>4, <1>5, <1>7, <1>8 DEF m

-----------------------------------------------------------------------------
(* The batch: what is accepted rests on the offer it began with, through a *)
(* manifest of some earlier moment.                                        *)
BatchFields == {"at", "offer", "manifest", "coverage", "result"}

Grounds ==
  \E o \in Offers, h \in 0..atHeads :
    b.offer = {o} /\ ManifestOK(o) /\ b.manifest = {ManifestOf(o, h)}

BatchInv ==
  /\ DOMAIN b = BatchFields /\ atHeads \in Nat
  /\ b.at \in {"idle", "read", "manifest", "cover", "result", "verify", "accepted", "refused"}
  /\ b.at \in {"read", "manifest"} => \E o \in Offers : b.offer = {o}
  /\ b.at \in {"cover", "result", "verify", "accepted"} => Grounds
  /\ b.at \in {"result", "verify", "accepted"} => CoverageOK(Manifest, b.coverage)
  /\ b.at \in {"verify", "accepted"} =>
       \E r : b.result = {r} /\ ResultOK(Manifest, b.coverage, r)

LEMMA BatchInitially == InitBatch => BatchInv
BY DEF InitBatch, Nothing, BatchInv, BatchFields

LEMMA RefusingKeeps ==
  ASSUME BatchInv, RefuseBatch PROVE BatchInv'
<1>1. b' = [b EXCEPT !.at = "refused"] /\ atHeads' = atHeads
  BY DEF RefuseBatch, BatchTurn
<1>2. DOMAIN b' = BatchFields /\ b'.at = "refused"
  BY <1>1 DEF BatchInv, BatchFields
<1> QED BY <1>1, <1>2 DEF BatchInv

(* A turn that changes nothing but where the batch is.                     *)
LEMMA PassingKeeps ==
  ASSUME BatchInv,
         NEW next \in {"manifest", "accepted"}, BatchTurn([b EXCEPT !.at = next]),
         next = "manifest" => b.at = "read", next = "accepted" => b.at = "verify"
  PROVE  BatchInv'
<1>1. b' = [b EXCEPT !.at = next] /\ atHeads' = atHeads
  BY DEF BatchTurn
<1>2. /\ DOMAIN b' = BatchFields /\ b'.at = next
      /\ b'.offer = b.offer /\ b'.manifest = b.manifest
      /\ b'.coverage = b.coverage /\ b'.result = b.result
  BY <1>1 DEF BatchInv, BatchFields
<1>3. Grounds' = Grounds /\ Manifest' = Manifest
  BY <1>1, <1>2 DEF Grounds, Manifest
<1> HIDE DEF Grounds, Manifest
<1> QED BY <1>1, <1>2, <1>3 DEF BatchInv

LEMMA BatchStepKeeps == BatchInv /\ [BatchNext]_batchVars => BatchInv'
<1> SUFFICES ASSUME BatchInv, [BatchNext]_batchVars PROVE BatchInv'
  OBVIOUS
<1>1. CASE Propose
  <2>1. PICK o \in Offers :
          RefuseBatch \/ BatchTurn([b EXCEPT !.at = "read", !.offer = {o}])
    BY <1>1 DEF Propose
  <2>2. CASE BatchTurn([b EXCEPT !.at = "read", !.offer = {o}])
    <3>1. b' = [b EXCEPT !.at = "read", !.offer = {o}] /\ atHeads' = atHeads
      BY <2>2 DEF BatchTurn
    <3>2. DOMAIN b' = BatchFields /\ b'.at = "read" /\ b'.offer = {o}
      BY <3>1 DEF BatchInv, BatchFields
    <3> QED BY <3>1, <3>2 DEF BatchInv
  <2> QED BY <2>1, <2>2, RefusingKeeps
<1>2. CASE ReadSources
  <2>1. b.at = "read" /\ (BatchTurn([b EXCEPT !.at = "manifest"]) \/ RefuseBatch)
    BY <1>2 DEF ReadSources, ReadBack
  <2> QED BY <2>1, PassingKeeps, RefusingKeeps
<1>3. CASE GenerateManifest
  <2>1. b.at = "manifest"
    BY <1>3 DEF GenerateManifest
  <2>2. PICK o \in Offers : b.offer = {o}
    BY <2>1 DEF BatchInv
  <2>3. Offer = o
    BY <2>2 DEF Offer
  <2>4. \/ RefuseBatch
        \/ /\ ManifestOK(o)
           /\ BatchTurn([b EXCEPT !.at = "cover", !.manifest = {ManifestOf(o, atHeads)}])
    BY <1>3, <2>3 DEF GenerateManifest
  <2>5. CASE /\ ManifestOK(o)
             /\ BatchTurn([b EXCEPT !.at = "cover", !.manifest = {ManifestOf(o, atHeads)}])
    <3>1. /\ b' = [b EXCEPT !.at = "cover", !.manifest = {ManifestOf(o, atHeads)}]
          /\ atHeads' = atHeads
      BY <2>5 DEF BatchTurn
    <3>2. /\ DOMAIN b' = BatchFields /\ b'.at = "cover" /\ b'.offer = {o}
          /\ b'.manifest = {ManifestOf(o, atHeads)}
      BY <2>2, <3>1 DEF BatchInv, BatchFields
    <3>3. Grounds'
      BY <2>5, <3>1, <3>2 DEF Grounds, BatchInv
    <3> QED BY <3>1, <3>2, <3>3 DEF BatchInv
  <2> QED BY <2>4, <2>5, RefusingKeeps
<1>4. CASE FinalizeCoverage
  <2>1. b.at = "cover"
    BY <1>4 DEF FinalizeCoverage
  <2>2. RefuseBatch \/ \E rows :
          CoverageOK(Manifest, rows) /\ BatchTurn([b EXCEPT !.at = "result", !.coverage = rows])
    BY <1>4 DEF FinalizeCoverage
  <2>3. ASSUME NEW rows, CoverageOK(Manifest, rows),
               BatchTurn([b EXCEPT !.at = "result", !.coverage = rows])
        PROVE  BatchInv'
    <3>1. b' = [b EXCEPT !.at = "result", !.coverage = rows] /\ atHeads' = atHeads
      BY <2>3 DEF BatchTurn
    <3>2. /\ DOMAIN b' = BatchFields /\ b'.at = "result" /\ b'.offer = b.offer
          /\ b'.manifest = b.manifest /\ b'.coverage = rows
      BY <3>1 DEF BatchInv, BatchFields
    <3>3. Grounds' /\ Manifest' = Manifest
      BY <2>1, <3>1, <3>2 DEF Grounds, Manifest, BatchInv
    <3> HIDE DEF Grounds, Manifest
    <3> QED BY <2>3, <3>1, <3>2, <3>3 DEF BatchInv
  <2> QED BY <2>2, <2>3, RefusingKeeps
<1>5. CASE FinalizeResult
  <2>1. b.at = "result"
    BY <1>5 DEF FinalizeResult
  <2>2. RefuseBatch \/ \E r : /\ ResultOK(Manifest, b.coverage, r)
                              /\ BatchTurn([b EXCEPT !.at = "verify", !.result = {r}])
    BY <1>5 DEF FinalizeResult
  <2>3. ASSUME NEW r, ResultOK(Manifest, b.coverage, r),
               BatchTurn([b EXCEPT !.at = "verify", !.result = {r}])
        PROVE  BatchInv'
    <3>1. b' = [b EXCEPT !.at = "verify", !.result = {r}] /\ atHeads' = atHeads
      BY <2>3 DEF BatchTurn
    <3>2. /\ DOMAIN b' = BatchFields /\ b'.at = "verify" /\ b'.offer = b.offer
          /\ b'.manifest = b.manifest /\ b'.coverage = b.coverage /\ b'.result = {r}
      BY <3>1 DEF BatchInv, BatchFields
    <3>3. Grounds' /\ Manifest' = Manifest
      BY <2>1, <3>1, <3>2 DEF Grounds, Manifest, BatchInv
    <3> HIDE DEF Grounds, Manifest
    <3> QED BY <2>1, <2>3, <3>1, <3>2, <3>3 DEF BatchInv
  <2> QED BY <2>2, <2>3, RefusingKeeps
<1>6. CASE VerifyBatch
  <2>1. b.at = "verify" /\ (BatchTurn([b EXCEPT !.at = "accepted"]) \/ RefuseBatch)
    BY <1>6 DEF VerifyBatch, ReadBack
  <2> QED BY <2>1, PassingKeeps, RefusingKeeps
<1>7. CASE Land
  <2>1. b' = b /\ atHeads' = atHeads + 1
    BY <1>7 DEF Land
  <2>2. Grounds => Grounds'
    BY <2>1 DEF Grounds, BatchInv
  <2>3. Manifest' = Manifest
    BY <2>1 DEF Manifest
  <2> HIDE DEF Grounds, Manifest
  <2> QED BY <2>1, <2>2, <2>3 DEF BatchInv
<1>8. CASE UNCHANGED batchVars
  BY <1>8 DEF batchVars, BatchInv, Grounds, Manifest
<1> QED BY <1>1, <1>2, <1>3, <1>4, <1>5, <1>6, <1>7, <1>8 DEF BatchNext

THEOREM BatchInvariant == BatchSpec => []BatchInv
BY BatchInitially, BatchStepKeeps, PTL DEF BatchSpec

(* validate_coverage, validate_result and verify_batch: an accepted batch  *)
(* covers the rows of the offer it began with, each once, and its result   *)
(* gives each the status its coverage gives.                               *)
THEOREM FrontierAlwaysCovered == BatchSpec => []FrontierIsCovered
<1>1. BatchInv => FrontierIsCovered
  <2> SUFFICES ASSUME BatchInv, b.at = "accepted", NEW o \in b.offer, NEW r \in b.result
               PROVE  LET covered == Ids(b.coverage)
                      IN  /\ Len(covered) = Len(o.rows)
                          /\ ToSet(covered) = ToSet(Ids(o.rows))
                          /\ \A i \in DOMAIN o.rows : o.rows[i].key # 0 =>
                               \E f \in Manifest.frontier :
                                 f.key = o.rows[i].key /\ f.id \in ToSet(covered)
                          /\ \A i \in DOMAIN covered : \E s \in ToSet(r.rows) :
                               s.id = covered[i] /\ s.status = b.coverage[i].status
    BY DEF FrontierIsCovered
  <2>1. PICK h \in 0..atHeads : o \in Offers /\ ManifestOK(o) /\ b.manifest = {ManifestOf(o, h)}
    BY DEF BatchInv, Grounds
  <2> DEFINE m == ManifestOf(o, h)
             covered == Ids(b.coverage)
  <2>2. Manifest = m
    BY <2>1 DEF Manifest
  <2>3. /\ DOMAIN m.required = 1..Len(o.rows) /\ Len(m.required) = Len(o.rows)
        /\ m.required = Ids(m.sources) /\ DOMAIN m.sources = 1..Len(o.rows)
        /\ ToSet(m.sources) = ToSet(o.rows)
        /\ ToSet(m.required) = ToSet(Ids(o.rows))
        /\ m.frontier = {[key |-> e.key, id |-> e.id] :
                           e \in {s \in ToSet(m.sources) : s.key # 0}}
    BY <2>1, ManifestListsRows
  <2>4. SortedUnique(covered) /\ covered = m.required
    BY <2>2 DEF BatchInv, CoverageOK
  <2>5. /\ Ids(r.rows) = m.required
        /\ \A i \in DOMAIN r.rows : \E row \in ToSet(b.coverage) :
             row.id = r.rows[i].id /\ row.status = r.rows[i].status
    BY <2>2 DEF BatchInv, ResultOK
  <2> HIDE DEF m
  <2>6. ASSUME NEW i \in DOMAIN o.rows, o.rows[i].key # 0
        PROVE  \E f \in m.frontier : f.key = o.rows[i].key /\ f.id \in ToSet(covered)
    <3> DEFINE f == [key |-> o.rows[i].key, id |-> o.rows[i].id]
    <3>1. o.rows[i] \in ToSet(m.sources)
      BY <2>3 DEF ToSet
    <3>2. f \in m.frontier
      BY <2>3, <2>6, <3>1
    <3>3. o.rows[i].id \in ToSet(Ids(o.rows))
      BY DEF ToSet, Ids
    <3> QED BY <2>3, <2>4, <3>2, <3>3
  <2>7. ASSUME NEW i \in DOMAIN covered
        PROVE  \E s \in ToSet(r.rows) : s.id = covered[i] /\ s.status = b.coverage[i].status
    <3>1. /\ DOMAIN covered = DOMAIN b.coverage /\ DOMAIN covered = DOMAIN r.rows
          /\ \A j \in DOMAIN covered : /\ covered[j] = b.coverage[j].id
                                       /\ covered[j] = r.rows[j].id
      <4>1. /\ DOMAIN Ids(r.rows) = DOMAIN r.rows
            /\ \A j \in DOMAIN r.rows : Ids(r.rows)[j] = r.rows[j].id
        BY DEF Ids
      <4>2. /\ DOMAIN covered = DOMAIN b.coverage
            /\ \A j \in DOMAIN b.coverage : covered[j] = b.coverage[j].id
        BY DEF Ids
      <4> QED BY <2>4, <2>5, <4>1, <4>2
    <3>2. PICK j \in DOMAIN b.coverage : /\ b.coverage[j].id = r.rows[i].id
                                         /\ b.coverage[j].status = r.rows[i].status
      BY <2>5, <3>1 DEF ToSet
    <3>3. covered[j] = covered[i] /\ j \in DOMAIN covered
      BY <3>1, <3>2
    <3>4. covered[i] \in Nat
      <4>1. DOMAIN covered = 1..Len(o.rows) /\ ToSet(covered) = ToSet(Ids(o.rows))
        BY <2>3, <2>4
      <4>2. covered[i] \in ToSet(Ids(o.rows))
        BY <4>1 DEF ToSet
      <4>3. PICK k \in DOMAIN o.rows : covered[i] = o.rows[k].id
        BY <4>2 DEF ToSet, Ids
      <4> QED BY <2>1, <4>3, OffersAssumption
    <3>5. i \in Nat /\ j \in Nat
      <4>1. DOMAIN covered = 1..Len(o.rows)
        BY <2>3, <2>4
      <4> HIDE DEF covered
      <4>2. Len(o.rows) \in Nat
        BY <2>1, OffersAssumption
      <4> QED BY <3>3, <4>1, <4>2
    <3>6. i = j
      BY <2>4, <3>3, <3>4, <3>5 DEF SortedUnique
    <3> QED BY <3>1, <3>2, <3>6 DEF ToSet
  <2> QED BY <2>2, <2>3, <2>4, <2>6, <2>7
<1> QED BY <1>1, BatchInvariant, PTL

(* _historical_semantics and _validate_artifact: what an accepted artifact *)
(* is drawn from is not part of a conflict, nor superseded, unless it says *)
(* so.                                                                     *)
THEOREM ArtifactsAlwaysKeepHistory == BatchSpec => []ArtifactsKeepHistory
<1>1. BatchInv => ArtifactsKeepHistory
  <2> SUFFICES ASSUME BatchInv, b.at = "accepted", NEW r \in b.result, NEW a \in r.artifacts
               PROVE  /\ \A k \in Manifest.conflicts :
                           k.sources \cap a.sources # {} => k.id \in a.conflicts
                      /\ \A e \in Manifest.supersessions :
                           e.old \in a.sources => e.old \in a.superseded
    BY DEF ArtifactsKeepHistory
  <2>1. PICK o \in Offers, h \in 0..atHeads : ManifestOK(o) /\ b.manifest = {ManifestOf(o, h)}
    BY DEF BatchInv, Grounds
  <2> DEFINE m == ManifestOf(o, h)
             R == ToSet(o.rows)
             ids == {s.id : s \in R}
             row(id) == CHOOSE s \in R : s.id = id
             used == {s \in R : s.id \in a.sources}
             groups == UNION {s.conflicts : s \in used}
             old == {s.id : s \in {q \in used : q.supersededBy # {}}}
  <2>2. Manifest = m
    BY <2>1 DEF Manifest
  <2>3. /\ ToSet(m.sources) = R /\ m.conflicts = o.conflicts
        /\ m.supersessions = Supersessions(m.sources)
    BY <2>1, ManifestListsRows
  <2>4. HistoryMarked(m, a)
    BY <2>2 DEF BatchInv, ResultOK
  <2>5. HistoricalOK(o.rows, o.conflicts)
    BY <2>1 DEF ManifestOK
  <2>6. /\ groups # {} => groups \subseteq a.conflicts
        /\ old # {} => old \subseteq a.superseded
    BY <2>3, <2>4 DEF HistoryMarked
  <2>7. ASSUME NEW k \in o.conflicts, k.sources \cap a.sources # {}
        PROVE  k.id \in a.conflicts
    <3>1. PICK id \in k.sources : id \in a.sources
      BY <2>7
    <3>2. PICK s \in R : s.id = id
      BY <2>5, <3>1 DEF HistoricalOK
    <3>3. s.conflicts = {g.id : g \in {f \in o.conflicts : s.id \in f.sources}}
      BY <2>5 DEF HistoricalOK
    <3>4. k.id \in s.conflicts /\ s \in used
      BY <3>1, <3>2, <3>3
    <3> QED BY <2>6, <3>4
  <2>8. ASSUME NEW e \in Supersessions(m.sources), e.old \in a.sources
        PROVE  e.old \in a.superseded
    <3>1. PICK s \in R : \E q \in s.supersedes \cap ids : e = [old |-> q, by |-> s.id]
      BY <2>3 DEF Supersessions
    <3>2. e.old \in s.supersedes /\ e.old \in ids
      BY <3>1
    <3>3. s.id \in row(e.old).supersededBy
      BY <2>5, <3>2 DEF HistoricalOK
    <3>4. row(e.old) \in R /\ row(e.old).id = e.old
      BY <3>2
    <3> HIDE DEF row
    <3>5. e.old \in old
      BY <2>8, <3>3, <3>4
    <3> QED BY <2>6, <3>5
  <2> QED BY <2>2, <2>3, <2>7, <2>8
<1> QED BY <1>1, BatchInvariant, PTL

-----------------------------------------------------------------------------
(* How a manifest's sources are partitioned.  The sums of their sizes from *)
(* the first one on never fall; the loop cuts only where the next source   *)
(* would not fit; so whoever cuts otherwise must cut within every part but *)
(* the last.                                                               *)
(*                                                                         *)
(* P[i] are the bytes of the first i rows.                                 *)
Weighed(R) == \A r \in R : r.id \in Nat /\ r.bytes \in Nat

Sums(P, rows) ==
  /\ P \in [0..Len(rows) -> Nat] /\ P[0] = 0
  /\ \A i \in 1..Len(rows) : P[i] = P[i - 1] + rows[i].bytes

LEMMA SumsExist ==
  ASSUME NEW R, Weighed(R), NEW rows \in Seq(R)
  PROVE  \E P : Sums(P, rows)
<1> DEFINE n == Len(rows)
           step == [x \in (1..n) \X Nat |-> x[2] + rows[x[1]].bytes]
<1>1. n \in Nat /\ 0 \in Nat /\ \A i \in 1..n : rows[i].bytes \in Nat
  BY DEF Weighed
<1>2. step \in [(1..n) \X Nat -> Nat]
  BY <1>1
<1>3. \A i \in 1..n, s \in Nat : step[<<i, s>>] = s + rows[i].bytes
  OBVIOUS
<1> HIDE DEF n, step
<1>4. PICK P \in [0..n -> Nat] : Iterates(P, 0, step, n)
  BY <1>1, <1>2, Iterations
<1>5. ASSUME NEW i \in 1..n PROVE P[i] = P[i - 1] + rows[i].bytes
  <2>1. P[i - 1] \in Nat
    BY <1>1
  <2> QED BY <1>3, <1>4, <2>1 DEF Iterates
<1> QED BY <1>4, <1>5 DEF Sums, Iterates, n

LEMMA SumsGrow ==
  ASSUME NEW R, Weighed(R), NEW rows \in Seq(R), NEW P, Sums(P, rows),
         NEW i \in 0..Len(rows), NEW j \in i..Len(rows)
  PROVE  P[i] <= P[j]
<1>1. Len(rows) \in Nat /\ P \in [0..Len(rows) -> Nat]
  BY DEF Sums
<1>2. ASSUME NEW k \in 1..Len(rows) PROVE P[k - 1] <= P[k]
  <2>1. rows[k] \in R
    OBVIOUS
  <2>2. rows[k].bytes \in Nat
    BY <2>1 DEF Weighed
  <2>3. P[k - 1] \in Nat /\ P[k] = P[k - 1] + rows[k].bytes
    BY <1>1 DEF Sums
  <2> QED BY <2>2, <2>3
<1> QED BY <1>1, <1>2, Grows

(* A part of a list, from one row to another.                              *)
LEMMA PartsOfLists ==
  ASSUME NEW R, NEW rows \in Seq(R), NEW a \in 0..Len(rows), NEW e \in a..Len(rows)
  PROVE  LET part == SubSeq(rows, a + 1, e)
         IN  /\ part \in Seq(R) /\ Len(part) = e - a
             /\ \A i \in 1..(e - a) : part[i] = rows[a + i]
<1>1. \A i \in a + 1..e : rows[i] \in R
  OBVIOUS
<1>2. a + 1 \in Int /\ e \in Int
  OBVIOUS
<1> DEFINE part == SubSeq(rows, a + 1, e)
<1>3. /\ part \in Seq(R) /\ Len(part) = (IF a + 1 <= e THEN e - (a + 1) + 1 ELSE 0)
      /\ \A i \in 1..(e - (a + 1) + 1) : part[i] = rows[a + 1 + i - 1]
  BY <1>1, <1>2, SubSeqProperties
<1> HIDE DEF part
<1>4. part \in Seq(R) /\ Len(part) = e - a
  BY <1>3
<1>5. ASSUME NEW i \in 1..(e - a) PROVE part[i] = rows[a + i]
  <2>1. i \in 1..(e - (a + 1) + 1) /\ a + 1 + i - 1 = a + i
    OBVIOUS
  <2> QED BY <1>3, <2>1
<1> QED BY <1>4, <1>5 DEF part

(* total adds up the bytes of the rows.                                    *)
Totals(total, rows) ==
  total = [i \in 0..Len(rows) |-> IF i = 0 THEN 0 ELSE total[i - 1] + rows[i].bytes]

LEMMA BytesOfParts ==
  ASSUME NEW R, Weighed(R), NEW rows \in Seq(R), NEW P, Sums(P, rows),
         NEW a \in 0..Len(rows), NEW e \in a..Len(rows)
  PROVE  Bytes(SubSeq(rows, a + 1, e)) = P[e] - P[a]
<1> DEFINE part == SubSeq(rows, a + 1, e)
           n == e - a
           total == CHOOSE g : Totals(g, part)
           f == [i \in 0..n |-> P[a + i] - P[a]]
<1>1. /\ n \in Nat /\ Len(part) = n
      /\ \A i \in 1..n : part[i] = rows[a + i]
  BY PartsOfLists
<1>2. Bytes(part) = total[Len(part)]
  BY Zenon DEF Bytes, Totals
<1> HIDE DEF part
<1>3. P \in [0..Len(rows) -> Nat] /\ Len(rows) \in Nat /\ a \in Nat
  BY DEF Sums
<1>4. ASSUME NEW i \in 0..n
      PROVE  f[i] = IF i = 0 THEN 0 ELSE f[i - 1] + part[i].bytes
  <2>1. CASE i = 0
    BY <1>3, <2>1
  <2>2. CASE i # 0
    <3>1. i \in 1..n /\ i - 1 \in 0..n /\ a + i \in 1..Len(rows) /\ a + (i - 1) = (a + i) - 1
      BY <1>1, <1>3, <2>2
    <3>2. f[i] = P[a + i] - P[a] /\ f[i - 1] = P[(a + i) - 1] - P[a]
      BY <3>1
    <3>3. P[a + i] = P[(a + i) - 1] + rows[a + i].bytes
      BY <3>1 DEF Sums
    <3>4. part[i] = rows[a + i] /\ rows[a + i].bytes \in Nat
      BY <1>1, <3>1 DEF Weighed
    <3>5. P[a + i] \in Nat /\ P[(a + i) - 1] \in Nat /\ P[a] \in Nat
      BY <1>3, <3>1
    <3> HIDE DEF f
    <3> QED BY <2>2, <3>2, <3>3, <3>4, <3>5
  <2> QED BY <2>1, <2>2
<1>5. f = [i \in 0..Len(part) |-> IF i = 0 THEN 0 ELSE f[i - 1] + part[i].bytes]
  <2>1. f = [i \in 0..Len(part) |-> f[i]]
    BY <1>1
  <2> HIDE DEF f
  <2> QED BY <1>1, <1>4, <2>1, Zenon
<1> HIDE DEF f
<1>6. Totals(total, part)
  BY <1>5, Zenon DEF Totals
<1> HIDE DEF total
<1>7. total = [i \in 0..n |-> IF i = 0 THEN 0 ELSE total[i - 1] + part[i].bytes]
  BY <1>1, <1>6, Zenon DEF Totals
<1> DEFINE Same == {i \in Nat : i \in 0..n => total[i] = f[i]}
<1>8. 0 \in Same
  BY <1>4, <1>7
<1>9. ASSUME NEW i \in 1..n, i - 1 \in Same PROVE i \in Same
  <2>1. total[i - 1] = f[i - 1]
    BY <1>9
  <2>2. total[i] = total[i - 1] + part[i].bytes
    BY <1>7
  <2>3. f[i] = f[i - 1] + part[i].bytes
    BY <1>4
  <2> QED BY <2>1, <2>2, <2>3
<1> HIDE DEF Same, n
<1>10. \A i \in 0..n : i \in Same
  <2>1. n \in Nat
    BY <1>1
  <2> QED BY <2>1, <1>8, <1>9, CountUp
<1>11. total[n] = f[n]
  <2>1. n \in Nat /\ n \in 0..n
    BY <1>1
  <2> QED BY <2>1, <1>10 DEF Same
<1>12. f[n] = P[e] - P[a]
  BY <1>1 DEF f, n
<1> QED BY <1>1, <1>2, <1>11, <1>12 DEF part

-----------------------------------------------------------------------------
(* t is the list s with another last member.                               *)
LEMMA AnotherLast ==
  ASSUME NEW T, NEW s \in Seq(T), s # <<>>, NEW x \in T, NEW t, t = Front(s) \o <<x>>
  PROVE  /\ Len(s) \in Nat \ {0} /\ Last(s) = s[Len(s)] /\ Last(s) \in T
         /\ t \in Seq(T) /\ Len(t) = Len(s) /\ t[Len(s)] = x
         /\ \A j \in 1..(Len(s) - 1) : t[j] = s[j]
<1> DEFINE n == Len(s)
           front == SubSeq(s, 1, n - 1)
           one == <<x>>
<1>1. n \in Nat \ {0} /\ \A j \in 1..n : s[j] \in T
  BY EmptySeq
<1>2. Last(s) = s[n] /\ Last(s) \in T
  BY <1>1 DEF Last
<1>3. t = front \o one
  BY DEF Front
<1>4. /\ front \in Seq(T) /\ Len(front) = n - 1
      /\ \A j \in 1..(n - 1) : front[j] = s[j]
  <2>1. front = SubSeq(s, 0 + 1, n - 1)
    OBVIOUS
  <2>2. 0 \in 0..Len(s) /\ n - 1 \in 0..Len(s)
    BY <1>1
  <2> HIDE DEF front
  <2>3. /\ front \in Seq(T) /\ Len(front) = (n - 1) - 0
        /\ \A j \in 1..((n - 1) - 0) : front[j] = s[0 + j]
    BY <2>1, <2>2, PartsOfLists
  <2> QED BY <1>1, <2>3
<1>5. one \in Seq(T) /\ Len(one) = 1 /\ one[1] = x
  OBVIOUS
<1> HIDE DEF front, one
<1>6. /\ t \in Seq(T) /\ Len(t) = Len(front) + Len(one)
      /\ \A j \in 1..(Len(front) + Len(one)) :
           t[j] = IF j <= Len(front) THEN front[j] ELSE one[j - Len(front)]
  <2>1. /\ front \o one \in Seq(T) /\ Len(front \o one) = Len(front) + Len(one)
        /\ \A j \in 1..(Len(front) + Len(one)) :
             (front \o one)[j] = IF j <= Len(front) THEN front[j] ELSE one[j - Len(front)]
    BY <1>4, <1>5, ConcatProperties
  <2> QED BY <1>3, <2>1
<1> HIDE DEF n
<1>7. Len(t) = n /\ t[n] = x
  BY <1>1, <1>4, <1>5, <1>6
<1>8. \A j \in 1..(n - 1) : t[j] = s[j]
  BY <1>1, <1>4, <1>5, <1>6
<1> QED BY <1>1, <1>2, <1>6, <1>7, <1>8 DEF n

(* The same for a list of parts.                                           *)
Parts(s, R) == s \in Seq(Seq(R))

LEMMA AnotherLastPart ==
  ASSUME NEW R, NEW s, Parts(s, R), s # <<>>, NEW x \in Seq(R), NEW t, t = Front(s) \o <<x>>
  PROVE  /\ Len(s) \in Nat \ {0} /\ Last(s) = s[Len(s)] /\ Last(s) \in Seq(R)
         /\ Parts(t, R) /\ Len(t) = Len(s) /\ t[Len(s)] = x
         /\ \A j \in 1..(Len(s) - 1) : t[j] = s[j]
<1>1. PICK T : T = Seq(R)
  OBVIOUS
<1>2. s \in Seq(T) /\ x \in T
  BY <1>1 DEF Parts
<1>3. Len(s) \in Nat \ {0} /\ Last(s) = s[Len(s)] /\ Last(s) \in T
  BY <1>2, AnotherLast
<1>4. t \in Seq(T)
  BY <1>2, AnotherLast
<1>5. Len(t) = Len(s)
  BY <1>2, AnotherLast
<1>6. t[Len(s)] = x
  BY <1>2, AnotherLast
<1>7. \A j \in 1..(Len(s) - 1) : t[j] = s[j]
  BY <1>2, AnotherLast
<1> QED BY <1>1, <1>3, <1>4, <1>5, <1>6, <1>7, Zenon DEF Parts

(* One turn of the loop of _build_partitions.                              *)
Add(before, row, limit) ==
  IF before # <<>> /\ Fits(Last(before), row, limit)
  THEN Front(before) \o <<Append(Last(before), row)>>
  ELSE Append(before, <<row>>)

LEMMA AddedParts ==
  ASSUME NEW R, NEW before, Parts(before, R), NEW row \in R, NEW limit
  PROVE  Parts(Add(before, row, limit), R)
<1>1. <<row>> \in Seq(R)
  OBVIOUS
<1>2. Parts(Append(before, <<row>>), R)
  BY <1>1, AppendProperties DEF Parts
<1>3. ASSUME before # <<>>
      PROVE  Parts(Front(before) \o <<Append(Last(before), row)>>, R)
  <2>1. Last(before) \in Seq(R)
    BY <1>1, <1>3, AnotherLastPart
  <2>2. Append(Last(before), row) \in Seq(R)
    BY <2>1, AppendProperties
  <2> QED BY <1>3, <2>2, AnotherLastPart
<1> QED BY <1>2, <1>3 DEF Add

(* The first i rows, cut at the ends: each part is within the limit, and   *)
(* the first row after it would not have been.                             *)
Packs(parts, ends, rows, P, limit, i) ==
  /\ ends \in [0..Len(parts) -> 0..i] /\ ends[0] = 0 /\ ends[Len(parts)] = i
  /\ \A j \in 1..Len(parts) :
       /\ ends[j - 1] < ends[j]
       /\ parts[j] = SubSeq(rows, ends[j - 1] + 1, ends[j])
       /\ P[ends[j]] - P[ends[j - 1]] <= limit
  /\ \A j \in 1..(Len(parts) - 1) : P[ends[j] + 1] - P[ends[j - 1]] > limit

LEMMA FillingPacks ==
  ASSUME NEW R, Weighed(R), NEW rows \in Seq(R), NEW P, Sums(P, rows),
         NEW limit \in Nat, NEW i \in 1..Len(rows),
         NEW before, Parts(before, R), NEW ends, Packs(before, ends, rows, P, limit, i - 1),
         before # <<>>, Fits(Last(before), rows[i], limit)
  PROVE  \E more : Packs(Add(before, rows[i], limit), more, rows, P, limit, i)
<1> DEFINE k == Len(before)
           last == Append(Last(before), rows[i])
           after == Front(before) \o <<last>>
           more == [j \in 0..k |-> IF j < k THEN ends[j] ELSE i]
<1>1. rows[i] \in R /\ Len(rows) \in Nat /\ i \in Nat \ {0} /\ <<rows[i]>> \in Seq(R)
  OBVIOUS
<1>2. Last(before) = before[k] /\ Last(before) \in Seq(R) /\ k \in Nat \ {0}
  BY <1>1, AnotherLastPart
<1>3. last \in Seq(R)
  BY <1>1, <1>2, AppendProperties
<1> HIDE DEF last
<1>4. /\ Len(after) = k /\ after[k] = last
      /\ \A j \in 1..(k - 1) : after[j] = before[j]
  <2>1. after = Front(before) \o <<last>>
    OBVIOUS
  <2> HIDE DEF after
  <2>2. Len(after) = k
    BY <1>3, <2>1, AnotherLastPart
  <2>3. after[k] = last
    <3>1. PICK t : t = after
      OBVIOUS
    <3>2. PICK x : x = last
      OBVIOUS
    <3>3. x \in Seq(R) /\ t = Front(before) \o <<x>>
      BY <1>3, <2>1, <3>1, <3>2
    <3>4. t[Len(before)] = x
      BY <3>3, AnotherLastPart
    <3> QED BY <3>1, <3>2, <3>4
  <2>4. \A j \in 1..(k - 1) : after[j] = before[j]
    BY <1>3, <2>1, AnotherLastPart
  <2> QED BY <2>2, <2>3, <2>4
<1>5. Add(before, rows[i], limit) = after
  BY DEF Add, last
<1> HIDE DEF after, k
<1>6. /\ ends \in [0..k -> 0..(i - 1)] /\ ends[0] = 0 /\ ends[k] = i - 1
      /\ \A j \in 1..k : /\ ends[j - 1] < ends[j]
                         /\ before[j] = SubSeq(rows, ends[j - 1] + 1, ends[j])
                         /\ P[ends[j]] - P[ends[j - 1]] <= limit
      /\ \A j \in 1..(k - 1) : P[ends[j] + 1] - P[ends[j - 1]] > limit
  BY DEF Packs, k
<1>7. PICK a \in 0..(i - 1) : a = ends[k - 1] /\ a < i - 1
  BY <1>2, <1>6
<1>8. before[k] = SubSeq(rows, a + 1, i - 1)
  <2>1. k \in 1..k
    BY <1>2
  <2>2. before[k] = SubSeq(rows, ends[k - 1] + 1, ends[k])
    BY <1>6, <2>1
  <2> QED BY <1>6, <1>7, <2>2
<1>9. last = SubSeq(rows, a + 1, i)
  <2>1. a + 1 \in 1..Len(rows) /\ i \in a + 1..Len(rows)
    BY <1>1, <1>7
  <2>2. SubSeq(rows, a + 1, i) = SubSeq(rows, a + 1, i - 1) \o <<rows[i]>>
    BY <2>1, SubSeqRecursiveSecond
  <2>3. last = Last(before) \o <<rows[i]>>
    BY <1>1, <1>2, AppendIsConcat DEF last
  <2> QED BY <1>2, <1>8, <2>2, <2>3
<1>10. P[i] - P[a] <= limit
  <2>1. Bytes(Last(before)) + rows[i].bytes <= limit
    BY DEF Fits
  <2>2. a \in 0..Len(rows) /\ i - 1 \in a..Len(rows)
    BY <1>1, <1>7
  <2>3. Bytes(Last(before)) = P[i - 1] - P[a]
    BY <1>2, <1>8, <2>2, BytesOfParts
  <2>4. P[i] = P[i - 1] + rows[i].bytes
    BY DEF Sums
  <2>5. P[i] \in Nat /\ P[i - 1] \in Nat /\ P[a] \in Nat /\ rows[i].bytes \in Nat
    <3>1. P \in [0..Len(rows) -> Nat] /\ i \in 0..Len(rows) /\ i - 1 \in 0..Len(rows)
      BY <1>1 DEF Sums
    <3>2. rows[i].bytes \in Nat
      BY <1>1 DEF Weighed
    <3> QED BY <2>2, <3>1, <3>2
  <2> QED BY <2>1, <2>3, <2>4, <2>5
<1>11. more \in [0..k -> 0..i] /\ more[0] = 0 /\ more[k] = i
  <2>1. ASSUME NEW j \in 0..k PROVE (IF j < k THEN ends[j] ELSE i) \in 0..i
    <3>1. ends[j] \in 0..(i - 1)
      BY <1>6
    <3> QED BY <1>1, <3>1
  <2>2. more \in [0..k -> 0..i]
    BY <2>1
  <2>3. more[0] = ends[0]
    BY <1>2
  <2>4. more[k] = i
    BY <1>2
  <2> QED BY <1>6, <2>2, <2>3, <2>4
<1>12. \A j \in 0..(k - 1) : more[j] = ends[j]
  BY <1>2
<1> HIDE DEF more
<1>13. ASSUME NEW j \in 1..k
       PROVE  /\ more[j - 1] < more[j]
              /\ after[j] = SubSeq(rows, more[j - 1] + 1, more[j])
              /\ P[more[j]] - P[more[j - 1]] <= limit
  <2>1. CASE j = k
    <3>1. more[j - 1] = a /\ more[j] = i
      BY <1>2, <1>7, <1>11, <1>12, <2>1
    <3> QED BY <1>4, <1>7, <1>9, <1>10, <2>1, <3>1
  <2>2. CASE j # k
    <3>0. j \in 1..(k - 1) /\ j \in 0..(k - 1) /\ j - 1 \in 0..(k - 1)
      BY <1>2, <2>2
    <3>1. j \in 1..(k - 1) /\ more[j] = ends[j] /\ more[j - 1] = ends[j - 1]
      BY <1>12, <3>0
    <3> QED BY <1>4, <1>6, <3>1
  <2> QED BY <2>1, <2>2
<1>14. ASSUME NEW j \in 1..(k - 1)
       PROVE  P[more[j] + 1] - P[more[j - 1]] > limit
  <2>1. more[j] = ends[j] /\ more[j - 1] = ends[j - 1]
    BY <1>2, <1>12
  <2> QED BY <1>6, <2>1
<1>15. Packs(after, more, rows, P, limit, i)
  BY <1>4, <1>11, <1>13, <1>14 DEF Packs
<1> QED BY <1>5, <1>15

LEMMA OpeningPacks ==
  ASSUME NEW R, Weighed(R), NEW rows \in Seq(R), NEW P, Sums(P, rows),
         NEW limit \in Nat, NEW i \in 1..Len(rows), rows[i].bytes <= limit,
         NEW before, Parts(before, R), NEW ends, Packs(before, ends, rows, P, limit, i - 1),
         before = <<>> \/ ~Fits(Last(before), rows[i], limit)
  PROVE  \E more : Packs(Add(before, rows[i], limit), more, rows, P, limit, i)
<1> DEFINE k == Len(before)
           after == Append(before, <<rows[i]>>)
           more == [j \in 0..(k + 1) |-> IF j <= k THEN ends[j] ELSE i]
<1>1. rows[i] \in R /\ Len(rows) \in Nat /\ i \in Nat \ {0} /\ <<rows[i]>> \in Seq(R)
  OBVIOUS
<1>2. k \in Nat /\ (k # 0 => before # <<>>)
  BY EmptySeq DEF Parts
<1>3. /\ Len(after) = k + 1 /\ after[k + 1] = <<rows[i]>>
      /\ \A j \in 1..k : after[j] = before[j]
  BY <1>1, AppendProperties DEF Parts
<1>4. Add(before, rows[i], limit) = after
  BY DEF Add
<1>5. k # 0 => Last(before) = before[k]
  BY DEF Last
<1> HIDE DEF after, k
<1>6. /\ ends \in [0..k -> 0..(i - 1)] /\ ends[0] = 0 /\ ends[k] = i - 1
      /\ \A j \in 1..k : /\ ends[j - 1] < ends[j]
                         /\ before[j] = SubSeq(rows, ends[j - 1] + 1, ends[j])
                         /\ P[ends[j]] - P[ends[j - 1]] <= limit
      /\ \A j \in 1..(k - 1) : P[ends[j] + 1] - P[ends[j - 1]] > limit
  BY DEF Packs, k
<1>7. P[i] = P[i - 1] + rows[i].bytes /\ P[i] \in Nat /\ P[i - 1] \in Nat
  BY <1>1 DEF Sums
<1>8. more \in [0..(k + 1) -> 0..i] /\ more[0] = 0 /\ more[k + 1] = i
  BY <1>1, <1>2, <1>6
<1>9. \A j \in 0..k : more[j] = ends[j]
  BY <1>2
<1> HIDE DEF more
<1>10. ASSUME NEW j \in 1..(k + 1)
       PROVE  /\ more[j - 1] < more[j]
              /\ after[j] = SubSeq(rows, more[j - 1] + 1, more[j])
              /\ P[more[j]] - P[more[j - 1]] <= limit
  <2>1. CASE j = k + 1
    <3>1. more[j - 1] = i - 1 /\ more[j] = i
      BY <1>2, <1>6, <1>8, <1>9, <2>1
    <3>2. SubSeq(rows, i - 1 + 1, i) = <<rows[i]>>
      <4>1. /\ SubSeq(rows, i, i) = SubSeq(rows, i, i - 1) \o <<rows[i]>>
            /\ SubSeq(rows, i, i - 1) = <<>>
        BY <1>1, SubSeqRecursiveSecond, SubSeqEmpty
      <4>2. <<>> \o <<rows[i]>> = <<rows[i]>>
        BY <1>1, ConcatEmptySeq
      <4>3. i - 1 + 1 = i
        BY <1>1
      <4> QED BY <4>1, <4>2, <4>3
    <3>3. P[i] - P[i - 1] <= limit
      <4>1. rows[i].bytes \in Nat
        BY <1>1 DEF Weighed
      <4> QED BY <1>7, <4>1
    <3> QED BY <1>1, <1>3, <2>1, <3>1, <3>2, <3>3
  <2>2. CASE j # k + 1
    <3>1. j \in 1..k /\ more[j] = ends[j] /\ more[j - 1] = ends[j - 1]
      BY <1>2, <1>9, <2>2
    <3> QED BY <1>3, <1>6, <3>1
  <2> QED BY <2>1, <2>2
<1>11. ASSUME NEW j \in 1..k
       PROVE  P[more[j] + 1] - P[more[j - 1]] > limit
  <2>1. more[j] = ends[j] /\ more[j - 1] = ends[j - 1]
    BY <1>2, <1>9
  <2>2. CASE j = k
    <3>1. k # 0 /\ before # <<>>
      BY <1>2, <2>2
    <3>2. ~(Bytes(Last(before)) + rows[i].bytes <= limit)
      BY <3>1 DEF Fits
    <3>3. PICK a \in 0..(i - 1) : a = ends[k - 1] /\ a < i - 1
      BY <1>2, <1>6, <3>1
    <3>4. a \in 0..Len(rows) /\ i - 1 \in a..Len(rows)
      BY <1>1, <3>3
    <3>5. Last(before) = SubSeq(rows, a + 1, i - 1)
      <4>1. k \in 1..k
        BY <1>2, <3>1
      <4>2. before[k] = SubSeq(rows, ends[k - 1] + 1, ends[k])
        BY <1>6, <4>1
      <4> QED BY <1>5, <1>6, <3>1, <3>3, <4>2
    <3>6. Bytes(Last(before)) = P[i - 1] - P[a]
      BY <3>4, <3>5, BytesOfParts
    <3>7. P[a] \in Nat /\ rows[i].bytes \in Nat
      BY <1>1, <3>4 DEF Sums, Weighed
    <3>8. P[i] - P[a] > limit
      BY <1>7, <3>2, <3>6, <3>7
    <3>9. more[j] + 1 = i /\ more[j - 1] = a
      BY <1>1, <1>6, <2>1, <2>2, <3>3
    <3> QED BY <3>8, <3>9
  <2>3. CASE j # k
    <3>1. j \in 1..(k - 1)
      BY <1>2, <2>3
    <3> QED BY <1>6, <2>1, <3>1
  <2> QED BY <2>2, <2>3
<1>12. \A j \in 1..(Len(after) - 1) : P[more[j] + 1] - P[more[j - 1]] > limit
  <2>1. Len(after) - 1 = k
    BY <1>2, <1>3
  <2> QED BY <1>11, <2>1
<1>13. Packs(after, more, rows, P, limit, i)
  BY <1>3, <1>8, <1>10, <1>12 DEF Packs
<1> QED BY <1>4, <1>13

(* parts is what the loop has made of the first i rows, for each i.        *)
Fills(parts, rows, limit) ==
  parts = [i \in 0..Len(rows) |->
             IF i = 0 THEN <<>>
             ELSE LET before == parts[i - 1]
                  IN  IF before # <<>> /\ Fits(Last(before), rows[i], limit)
                      THEN Front(before) \o <<Append(Last(before), rows[i])>>
                      ELSE Append(before, <<rows[i]>>)]

Adds(parts, rows, limit) ==
  parts = [i \in 0..Len(rows) |->
             IF i = 0 THEN <<>> ELSE Add(parts[i - 1], rows[i], limit)]

LEMMA FillsTurnByTurn ==
  ASSUME NEW rows, NEW limit, NEW parts
  PROVE  Fills(parts, rows, limit) <=> Adds(parts, rows, limit)
BY Zenon DEF Fills, Adds, Add

LEMMA FillingRuns ==
  ASSUME NEW R, NEW rows \in Seq(R), NEW limit
  PROVE  \E parts : Fills(parts, rows, limit)
<1> DEFINE n == Len(rows)
<1>1. n \in Nat /\ \A i \in 1..n : rows[i] \in R
  OBVIOUS
<1>2. PICK V : \A v : v \in V <=> Parts(v, R)
  BY DEF Parts
<1> DEFINE step == [x \in (1..n) \X V |-> Add(x[2], rows[x[1]], limit)]
<1>3. \A i \in 1..n, v \in V : Add(v, rows[i], limit) \in V
  BY <1>1, <1>2, AddedParts
<1> HIDE DEF n
<1>4. step \in [(1..n) \X V -> V]
  BY <1>3
<1>5. \A i \in 1..n, v \in V : step[<<i, v>>] = Add(v, rows[i], limit)
  OBVIOUS
<1>6. <<>> \in V
  <2>1. <<>> \in Seq(Seq(R))
    BY EmptySeq
  <2> QED BY <1>2, <2>1, Zenon DEF Parts
<1> HIDE DEF step
<1>7. PICK f \in [0..n -> V] : Iterates(f, <<>>, step, n)
  BY <1>1, <1>4, <1>6, Iterations
<1>8. ASSUME NEW i \in 0..n
      PROVE  f[i] = IF i = 0 THEN <<>> ELSE Add(f[i - 1], rows[i], limit)
  <2>1. CASE i = 0
    BY <1>7, <2>1 DEF Iterates
  <2>2. CASE i # 0
    <3>1. i \in 1..n /\ i - 1 \in 0..n
      BY <1>1, <2>2
    <3>2. f[i] = step[<<i, f[i - 1]>>] /\ f[i - 1] \in V
      BY <1>7, <3>1 DEF Iterates
    <3> QED BY <1>5, <2>2, <3>1, <3>2
  <2> QED BY <2>1, <2>2
<1>9. f = [i \in 0..n |-> IF i = 0 THEN <<>> ELSE Add(f[i - 1], rows[i], limit)]
  <2>1. f = [i \in 0..n |-> f[i]]
    OBVIOUS
  <2> QED BY <1>8, <2>1, Zenon
<1>10. Fills(f, rows, limit)
  BY <1>9, FillsTurnByTurn, Zenon DEF Adds, n
<1> QED BY <1>10

(* The partitions of a list of rows are as they are packed.                *)
LEMMA PartitionsPack ==
  ASSUME NEW R, Weighed(R), NEW rows \in Seq(R), NEW P, Sums(P, rows),
         NEW limit \in Nat, \A i \in 1..Len(rows) : rows[i].bytes <= limit
  PROVE  \E parts, ends :
           /\ Parts(parts, R) /\ Packs(parts, ends, rows, P, limit, Len(rows))
           /\ Partitions(rows, limit) = [j \in DOMAIN parts |-> Ids(parts[j])]
<1> DEFINE n == Len(rows)
           built == CHOOSE g : Fills(g, rows, limit)
<1>1. n \in Nat /\ \A i \in 1..n : rows[i] \in R
  OBVIOUS
<1>2. Partitions(rows, limit) = [j \in DOMAIN built[n] |-> Ids(built[n][j])]
  BY Zenon DEF Partitions, Fills
<1>3. PICK f : f = built /\ Fills(f, rows, limit)
  BY FillingRuns, Zenon
<1> HIDE DEF built
<1>4. f = [i \in 0..n |-> IF i = 0 THEN <<>> ELSE Add(f[i - 1], rows[i], limit)]
  <2>1. Adds(f, rows, limit)
    BY <1>3, FillsTurnByTurn, Zenon
  <2> QED BY <2>1, Zenon DEF Adds
<1> HIDE DEF n
<1>5. f[0] = <<>> /\ \A i \in 1..n : f[i] = Add(f[i - 1], rows[i], limit)
  BY <1>1, <1>4
<1> DEFINE Packed(i) ==
             Parts(f[i], R) /\ \E ends : Packs(f[i], ends, rows, P, limit, i)
           S == {i \in Nat : i \in 0..n => Packed(i)}
<1>6. 0 \in S
  <2> DEFINE ends == [j \in 0..0 |-> 0]
             none == <<>>
  <2>1. Parts(none, R) /\ Len(none) = 0
    BY DEF Parts
  <2> HIDE DEF none
  <2>2. Packs(none, ends, rows, P, limit, 0)
    BY <2>1 DEF Packs
  <2>3. Packed(0)
    BY <1>5, <2>1, <2>2, Zenon DEF none
  <2> QED BY <2>3
<1>7. ASSUME NEW i \in 1..n, i - 1 \in S PROVE i \in S
  <2>1. i - 1 \in 0..n /\ i \in Nat /\ i \in 1..Len(rows)
    BY <1>1 DEF n
  <2>2. Packed(i - 1)
    BY <1>7, <2>1
  <2>3. PICK ends : Packs(f[i - 1], ends, rows, P, limit, i - 1)
    BY <2>2
  <2> DEFINE before == f[i - 1]
  <2>4. Parts(before, R) /\ Packs(before, ends, rows, P, limit, i - 1)
    BY <2>2, <2>3
  <2>5. f[i] = Add(before, rows[i], limit)
    BY <1>5
  <2> HIDE DEF before
  <2>6. Parts(f[i], R)
    BY <1>1, <2>4, <2>5, AddedParts
  <2>7. \E more : Packs(f[i], more, rows, P, limit, i)
    <3>1. CASE before # <<>> /\ Fits(Last(before), rows[i], limit)
      BY <2>1, <2>4, <2>5, <3>1, FillingPacks
    <3>2. CASE ~(before # <<>> /\ Fits(Last(before), rows[i], limit))
      BY <2>1, <2>4, <2>5, <3>2, OpeningPacks
    <3> QED BY <3>1, <3>2
  <2> QED BY <2>1, <2>6, <2>7
<1> HIDE DEF S
<1>8. \A i \in 0..n : i \in S
  BY <1>1, <1>6, <1>7, CountUp
<1>9. Packed(n)
  BY <1>1, <1>8 DEF S
<1>10. PICK ends : Packs(f[n], ends, rows, P, limit, n)
  BY <1>9
<1> QED BY <1>2, <1>3, <1>9, <1>10, Zenon DEF n

-----------------------------------------------------------------------------
(* No way to cut a list has fewer parts.                                   *)
NextCut(cuts, n, c) == Min({n} \cup {d \in cuts : d > c})

LEMMA NextCutIsNext ==
  ASSUME NEW n \in Nat \ {0}, NEW cuts, cuts \subseteq 1..(n - 1), NEW c \in {0} \cup cuts
  PROVE  /\ c \in 0..(n - 1) /\ NextCut(cuts, n, c) \in (c + 1)..n
         /\ NextCut(cuts, n, c) \in cuts \cup {n}
         /\ \A d \in cuts : d > c => NextCut(cuts, n, c) <= d
<1> DEFINE X == {n} \cup {d \in cuts : d > c}
<1>1. n \in Nat \ {0} /\ \A d \in cuts : d \in 1..(n - 1)
  OBVIOUS
<1>2. c \in 0..(n - 1)
  BY <1>1
<1>3. \A x \in X : x = n \/ (x \in cuts /\ x > c)
  OBVIOUS
<1>4. n \in X /\ \A d \in cuts : d > c => d \in X
  OBVIOUS
<1>5. NextCut(cuts, n, c) = Min(X)
  BY DEF NextCut
<1> HIDE DEF X
<1>6. X \in SUBSET Nat
  <2>1. ASSUME NEW x \in X PROVE x \in Nat
    <3>1. CASE x = n
      BY <3>1
    <3>2. CASE x \in cuts
      <4>1. x \in 1..(n - 1)
        BY <1>1, <3>2
      <4> QED BY <4>1
    <3> QED BY <1>3, <3>1, <3>2
  <2> QED BY <2>1
<1>7. Min(X) \in X /\ \A x \in X : Min(X) <= x
  BY <1>4, <1>6, MinIsThere
<1>8. NextCut(cuts, n, c) = n \/ (NextCut(cuts, n, c) \in cuts /\ NextCut(cuts, n, c) > c)
  BY <1>3, <1>5, <1>7
<1>9. NextCut(cuts, n, c) \in (c + 1)..n /\ NextCut(cuts, n, c) \in cuts \cup {n}
  <2>1. PICK v : v = NextCut(cuts, n, c)
    OBVIOUS
  <2>2. CASE v = n
    BY <1>2, <2>1, <2>2
  <2>3. CASE v \in cuts /\ v > c
    <3>1. v \in 1..(n - 1)
      BY <1>1, <2>3
    <3> QED BY <1>2, <2>1, <2>3, <3>1
  <2> QED BY <1>8, <2>1, <2>2, <2>3
<1>10. \A d \in cuts : d > c => NextCut(cuts, n, c) <= d
  BY <1>4, <1>5, <1>7
<1> QED BY <1>2, <1>9, <1>10

LEMMA EndsGrow ==
  ASSUME NEW parts, Len(parts) \in Nat, NEW ends, NEW rows, NEW P, NEW limit, NEW i \in Nat,
         Packs(parts, ends, rows, P, limit, i),
         NEW j \in 0..Len(parts), NEW l \in j..Len(parts)
  PROVE  /\ ends[j] <= ends[l] /\ (j < l => ends[j] < ends[l])
         /\ ends[j] \in 0..i /\ ends[l] \in 0..i
<1> DEFINE k == Len(parts)
<1>1. ends \in [0..k -> 0..i] /\ \A m \in 1..k : ends[m - 1] < ends[m]
  BY DEF Packs
<1>2. k \in Nat
  OBVIOUS
<1> HIDE DEF k
<1>3. ends \in [0..k -> Nat]
  BY <1>1
<1>4. \A m \in 1..k : ends[m - 1] <= ends[m]
  <2>1. ASSUME NEW m \in 1..k PROVE ends[m - 1] <= ends[m]
    <3>1. ends[m - 1] \in Nat /\ ends[m] \in Nat
      BY <1>2, <1>3
    <3> QED BY <1>1, <3>1
  <2> QED BY <2>1
<1>5. j \in 0..k /\ l \in j..k
  BY DEF k
<1>6. ends[j] <= ends[l]
  BY <1>2, <1>3, <1>4, <1>5, Grows
<1>7. ASSUME j < l PROVE ends[j] < ends[l]
  <2>1. j + 1 \in 1..k /\ j + 1 \in 0..k /\ l \in (j + 1)..k /\ (j + 1) - 1 = j
    BY <1>2, <1>5, <1>7
  <2>2. ends[j + 1] <= ends[l]
    BY <1>2, <1>3, <1>4, <2>1, Grows
  <2>3. ends[j] < ends[j + 1]
    BY <1>1, <2>1
  <2>4. ends[j] \in Nat /\ ends[j + 1] \in Nat /\ ends[l] \in Nat
    BY <1>3, <1>5, <2>1
  <2> QED BY <2>2, <2>3, <2>4
<1>8. ends[j] \in 0..i /\ ends[l] \in 0..i
  BY <1>1, <1>2, <1>5
<1> QED BY <1>6, <1>7, <1>8

(* Wherever a part but the last ends, some other way to cut has a cut too. *)
LEMMA CutInEachPart ==
  ASSUME NEW R, Weighed(R), NEW rows \in Seq(R), Len(rows) # 0, NEW P, Sums(P, rows),
         NEW limit \in Nat, NEW parts, Len(parts) \in Nat, NEW ends,
         Packs(parts, ends, rows, P, limit, Len(rows)),
         NEW cuts, cuts \subseteq 1..(Len(rows) - 1),
         \A c \in {0} \cup cuts :
           Bytes(SubSeq(rows, c + 1, NextCut(cuts, Len(rows), c))) <= limit,
         NEW j \in 1..(Len(parts) - 1)
  PROVE  \E d \in cuts : ends[j - 1] < d /\ d <= ends[j]
<1> DEFINE n == Len(rows)
           k == Len(parts)
<1>1. n \in Nat \ {0} /\ k \in Nat
  OBVIOUS
<1>2. /\ ends[j - 1] \in 0..n /\ ends[j] \in 0..n /\ ends[k] \in 0..n
      /\ ends[j - 1] < ends[j] /\ ends[j] < ends[k]
  <2>1. j - 1 \in 0..k /\ j \in (j - 1)..k /\ j \in 0..k /\ k \in j..k /\ j - 1 < j /\ j < k
    BY <1>1
  <2>2. ends[j - 1] \in 0..n /\ ends[j] \in 0..n /\ ends[j - 1] < ends[j]
    BY <1>1, <2>1, EndsGrow
  <2>3. ends[k] \in 0..n /\ ends[j] < ends[k]
    BY <1>1, <2>1, EndsGrow
  <2> QED BY <2>2, <2>3
<1>3. PICK lo \in 0..n, hi \in 0..n : /\ lo = ends[j - 1] /\ hi = ends[j]
                                      /\ lo < hi /\ hi < n
  <2>1. ends[k] = n
    BY DEF Packs
  <2> QED BY <1>2, <2>1
<1>4. P[hi + 1] - P[lo] > limit
  BY <1>1, <1>3 DEF Packs
<1> DEFINE T == {c \in {0} \cup cuts : c <= lo}
<1>5. T \subseteq 0..n /\ T # {}
  <2>1. ASSUME NEW c \in T PROVE c \in 0..n
    <3>1. c = 0 \/ c \in 1..(n - 1)
      OBVIOUS
    <3> QED BY <1>1, <3>1
  <2>2. 0 \in T
    BY <1>3
  <2> QED BY <2>1, <2>2
<1>6. PICK c \in T : \A d \in T : d <= c
  <2> HIDE DEF T, n
  <2> QED BY <1>1, <1>5, LargestNumber
<1>7. c \in {0} \cup cuts /\ c <= lo
  BY <1>6
<1>8. \A d \in cuts : d <= lo => d <= c
  BY <1>6
<1> DEFINE d == NextCut(cuts, n, c)
<1>9. /\ c \in 0..(n - 1) /\ d \in (c + 1)..n /\ d \in cuts \cup {n}
  BY <1>1, <1>7, NextCutIsNext
<1>10. Bytes(SubSeq(rows, c + 1, d)) <= limit
  BY <1>7
<1> HIDE DEF d, T
<1>11. lo < d
  <2>1. d = n \/ d \in cuts
    BY <1>9
  <2>2. CASE d = n
    BY <1>1, <1>3, <2>2
  <2>3. CASE d \in cuts
    <3>1. d > c /\ c \in Nat /\ d \in Nat
      BY <1>1, <1>9
    <3>2. ~(d <= lo)
      BY <1>8, <2>3, <3>1
    <3> QED BY <1>3, <3>1, <3>2
  <2> QED BY <2>1, <2>2, <2>3
<1>12. d <= hi
  <2> SUFFICES ASSUME ~(d <= hi) PROVE FALSE
    OBVIOUS
  <2>1. /\ c \in 0..n /\ d \in 0..n /\ d \in c..n /\ lo \in c..n /\ hi + 1 \in 0..n
        /\ d \in (hi + 1)..n
    BY <1>1, <1>3, <1>7, <1>9
  <2>2. Bytes(SubSeq(rows, c + 1, d)) = P[d] - P[c]
    BY <2>1, BytesOfParts
  <2>3. P[c] <= P[lo]
    BY <1>3, <2>1, SumsGrow
  <2>4. P[hi + 1] <= P[d]
    BY <2>1, SumsGrow
  <2>5. P[c] \in Nat /\ P[d] \in Nat /\ P[lo] \in Nat /\ P[hi + 1] \in Nat
    BY <1>3, <2>1 DEF Sums
  <2> QED BY <1>4, <1>10, <2>2, <2>3, <2>4, <2>5
<1>13. d \in cuts
  <2>1. d # n
    BY <1>1, <1>3, <1>9, <1>12
  <2> QED BY <1>9, <2>1
<1> QED BY <1>3, <1>11, <1>12, <1>13

LEMMA NoFewerParts ==
  ASSUME NEW R, Weighed(R), NEW rows \in Seq(R), Len(rows) # 0, NEW P, Sums(P, rows),
         NEW limit \in Nat, NEW parts, Len(parts) \in Nat, NEW ends,
         Packs(parts, ends, rows, P, limit, Len(rows)),
         NEW cuts, cuts \subseteq 1..(Len(rows) - 1),
         \A c \in {0} \cup cuts :
           Bytes(SubSeq(rows, c + 1, NextCut(cuts, Len(rows), c))) <= limit
  PROVE  Cardinality(cuts) + 1 >= Len(parts)
<1> DEFINE n == Len(rows)
           k == Len(parts)
           D == 1..(k - 1)
           cut(j) == CHOOSE d \in cuts : ends[j - 1] < d /\ d <= ends[j]
           f == [j \in D |-> cut(j)]
<1>1. n \in Nat /\ k \in Nat
  OBVIOUS
<1>2. ASSUME NEW j \in D
      PROVE  cut(j) \in cuts /\ ends[j - 1] < cut(j) /\ cut(j) <= ends[j]
  <2>1. \E d \in cuts : ends[j - 1] < d /\ d <= ends[j]
    BY CutInEachPart
  <2> QED BY <2>1
<1>3. ASSUME NEW i \in D, NEW j \in D, i < j PROVE cut(i) # cut(j)
  <2>1. i \in 0..k /\ j - 1 \in i..k
    BY <1>1, <1>3
  <2>2. ends[i] <= ends[j - 1] /\ ends[i] \in 0..n /\ ends[j - 1] \in 0..n
    BY <1>1, <2>1, EndsGrow
  <2>3. cut(i) <= ends[i] /\ ends[j - 1] < cut(j) /\ cut(i) \in cuts /\ cut(j) \in cuts
    BY <1>2
  <2> HIDE DEF cut
  <2>4. cut(i) \in Nat /\ cut(j) \in Nat
    <3>1. \A d \in cuts : d \in Nat
      OBVIOUS
    <3> QED BY <2>3, <3>1
  <2> QED BY <2>2, <2>3, <2>4
<1>4. f \in [D -> cuts]
  BY <1>2
<1>5. ASSUME NEW i \in D, NEW j \in D, f[i] = f[j] PROVE i = j
  <2>1. cut(i) = cut(j)
    BY <1>5
  <2>2. ~(i < j) /\ ~(j < i)
    <3> HIDE DEF cut
    <3> QED BY <1>3, <2>1
  <2> QED BY <1>1, <2>2
<1>6. f \in Injection(D, cuts)
  <2> HIDE DEF f, D
  <2> QED BY <1>4, <1>5 DEF Injection, IsInjective
<1>7. IsFiniteSet(cuts)
  <2>1. IsFiniteSet(1..(n - 1))
    BY <1>1, FS_Interval
  <2> QED BY <2>1, FS_Subset
<1>8. IsFiniteSet(D) /\ Cardinality(D) = IF k = 0 THEN 0 ELSE k - 1
  <2>1. 1 \in Int /\ k - 1 \in Int
    BY <1>1
  <2>2. IsFiniteSet(D) /\ Cardinality(D) = IF 1 > k - 1 THEN 0 ELSE k - 1 - 1 + 1
    BY <2>1, FS_Interval
  <2> QED BY <1>1, <2>2
<1>9. Cardinality(D) <= Cardinality(cuts) /\ Cardinality(cuts) \in Nat
  <2> HIDE DEF f, D
  <2> QED BY <1>6, <1>7, <1>8, FS_Injection, FS_CardinalityType
<1> QED BY <1>1, <1>8, <1>9

(* The ends of the parts, but for the last, are such a way to cut.         *)
LEMMA EndsAreCuts ==
  ASSUME NEW R, Weighed(R), NEW rows \in Seq(R), Len(rows) # 0, NEW P, Sums(P, rows),
         NEW limit \in Nat, NEW parts, Len(parts) \in Nat, NEW ends,
         Packs(parts, ends, rows, P, limit, Len(rows))
  PROVE  \E cuts \in SUBSET (1..(Len(rows) - 1)) :
           /\ \A c \in {0} \cup cuts :
                Bytes(SubSeq(rows, c + 1, NextCut(cuts, Len(rows), c))) <= limit
           /\ Cardinality(cuts) + 1 = Len(parts)
<1> DEFINE n == Len(rows)
           k == Len(parts)
           D == 1..(k - 1)
           f == [j \in D |-> ends[j]]
           cuts == {ends[j] : j \in D}
<1>1. n \in Nat \ {0} /\ k \in Nat
  OBVIOUS
<1>2. ends[0] = 0 /\ ends[k] = n /\ ends \in [0..k -> 0..n]
  BY DEF Packs
<1>3. k \in Nat \ {0}
  BY <1>1, <1>2
<1>4. \A i \in 0..k, j \in 0..k :
        /\ ends[i] \in 0..n
        /\ i <= j => ends[i] <= ends[j]
        /\ i < j => ends[i] < ends[j]
  <2>1. ASSUME NEW i \in 0..k, NEW j \in 0..k, i <= j
        PROVE  /\ ends[i] <= ends[j] /\ (i < j => ends[i] < ends[j])
    <3>1. j \in i..k
      BY <1>1, <2>1
    <3> QED BY <1>1, <3>1, EndsGrow
  <2>2. \A i \in 0..k : ends[i] \in 0..n
    BY <1>2
  <2> HIDE DEF n, k
  <2> QED BY <1>1, <2>1, <2>2
<1> HIDE DEF n, k
<1>5. ASSUME NEW j \in D PROVE ends[j] \in 1..(n - 1)
  <2>1. 0 \in 0..k /\ j \in 0..k /\ k \in 0..k /\ 0 < j /\ j < k
    BY <1>1
  <2>2. ends[0] < ends[j] /\ ends[j] < ends[k] /\ ends[j] \in 0..n
    BY <1>4, <2>1
  <2> QED BY <1>1, <1>2, <2>2
<1>6. cuts \in SUBSET (1..(n - 1))
  BY <1>5
<1>7. ASSUME NEW j \in 1..k
      PROVE  NextCut(cuts, n, ends[j - 1]) = ends[j]
  <2> DEFINE X == {n} \cup {d \in cuts : d > ends[j - 1]}
  <2>1. j - 1 \in 0..k /\ j \in 0..k /\ j - 1 < j
    BY <1>1
  <2>2. /\ ends[j - 1] \in 0..n /\ ends[j] \in 0..n
        /\ ends[j - 1] < ends[j]
    BY <1>4, <2>1
  <2>3. X \in SUBSET Nat
    <3>1. \A d \in cuts : d \in Nat
      BY <1>6
    <3> QED BY <1>1, <3>1
  <2>4. ends[j] \in X
    <3>1. CASE j = k
      BY <1>2, <3>1
    <3>2. CASE j # k
      <4>1. j \in D
        BY <1>1, <3>2
      <4>2. ends[j] \in cuts
        BY <4>1
      <4> QED BY <2>2, <4>2
    <3> QED BY <3>1, <3>2
  <2>5. ASSUME NEW x \in X PROVE ends[j] <= x
    <3>1. CASE x = n
      BY <1>1, <2>2, <3>1
    <3>2. CASE x \in cuts /\ x > ends[j - 1]
      <4>1. PICK i \in D : x = ends[i]
        BY <3>2
      <4>2. i \in 0..k /\ ends[i] > ends[j - 1]
        BY <1>1, <3>2, <4>1
      <4>3. ~(i <= j - 1)
        <5>1. i <= j - 1 => ends[i] <= ends[j - 1]
          BY <1>4, <2>1, <4>2
        <5>2. ends[i] \in Nat /\ ends[j - 1] \in Nat
          BY <1>4, <2>1, <4>2
        <5> QED BY <4>2, <5>1, <5>2
      <4>4. j <= i
        BY <4>3
      <4> QED BY <1>4, <2>1, <4>1, <4>2, <4>4
    <3> QED BY <3>1, <3>2
  <2>6. NextCut(cuts, n, ends[j - 1]) = Min(X)
    BY DEF NextCut
  <2> HIDE DEF X
  <2> QED BY <2>3, <2>4, <2>5, <2>6, MinIsLeast
<1>8. ASSUME NEW c \in {0} \cup cuts
      PROVE  Bytes(SubSeq(rows, c + 1, NextCut(cuts, n, c))) <= limit
  <2>1. PICK j \in 1..k : c = ends[j - 1]
    <3>1. CASE c = 0
      BY <1>2, <1>3, <3>1
    <3>2. CASE c \in cuts
      <4>1. PICK i \in D : c = ends[i]
        BY <3>2
      <4>2. i + 1 \in 1..k /\ (i + 1) - 1 = i
        BY <1>1
      <4> QED BY <4>1, <4>2
    <3> QED BY <3>1, <3>2
  <2>2. NextCut(cuts, n, c) = ends[j]
    BY <1>7, <2>1
  <2> HIDE DEF cuts
  <2>3. j - 1 \in 0..k /\ j \in 0..k /\ j - 1 < j
    BY <1>1
  <2>4. c \in 0..Len(rows) /\ ends[j] \in c..Len(rows)
    <3>1. ends[j - 1] \in 0..n /\ ends[j] \in 0..n /\ ends[j - 1] < ends[j]
      BY <1>4, <2>3
    <3> QED BY <1>1, <2>1, <3>1 DEF n
  <2>5. Bytes(SubSeq(rows, c + 1, ends[j])) = P[ends[j]] - P[c]
    BY <2>4, BytesOfParts
  <2>6. P[ends[j]] - P[ends[j - 1]] <= limit
    BY DEF Packs, k
  <2> QED BY <2>1, <2>2, <2>5, <2>6
<1>9. Cardinality(cuts) + 1 = k
  <2>1. f \in Surjection(D, cuts)
    BY DEF Surjection
  <2>2. ASSUME NEW i \in D, NEW j \in D, f[i] = f[j] PROVE i = j
    <3>1. i \in 0..k /\ j \in 0..k /\ i \in Nat /\ j \in Nat
      BY <1>1
    <3>2. ends[i] = ends[j] /\ ends[i] \in Nat
      BY <1>4, <2>2, <3>1
    <3>3. ~(i < j) /\ ~(j < i)
      BY <1>4, <3>1, <3>2
    <3> QED BY <3>1, <3>3
  <2>3. f \in Injection(D, cuts)
    <3>1. f \in [D -> cuts]
      OBVIOUS
    <3> HIDE DEF f, D, cuts
    <3> QED BY <2>2, <3>1 DEF Injection, IsInjective
  <2>4. IsFiniteSet(D) /\ Cardinality(D) = k - 1
    <3>1. 1 \in Int /\ k - 1 \in Int
      BY <1>1
    <3>2. IsFiniteSet(D) /\ Cardinality(D) = IF 1 > k - 1 THEN 0 ELSE k - 1 - 1 + 1
      BY <3>1, FS_Interval
    <3> QED BY <1>3, <3>2
  <2>5. Cardinality(cuts) = Cardinality(D)
    <3> HIDE DEF f, D, cuts
    <3> QED BY <2>1, <2>3, <2>4, FS_Surjection
  <2> QED BY <1>3, <2>4, <2>5
<1> HIDE DEF cuts
<1> QED BY <1>6, <1>8, <1>9 DEF n, k

(* The parts, one after the other, are the list.                           *)
Joins(joined, lists) ==
  joined = [j \in 1..Len(lists) |->
              IF j = 1 THEN lists[j] ELSE joined[j - 1] \o lists[j]]

LEMMA PartsJoin ==
  ASSUME NEW R, Weighed(R), NEW rows \in Seq(R), Len(rows) # 0, NEW P, NEW limit,
         NEW parts, Parts(parts, R), NEW ends,
         Packs(parts, ends, rows, P, limit, Len(rows))
  PROVE  LET lists == [j \in DOMAIN parts |-> Ids(parts[j])]
         IN  /\ FlattenSeq(lists) = Ids(rows) /\ Len(lists) = Len(parts)
             /\ \A j \in DOMAIN lists : lists[j] # <<>>
<1> DEFINE n == Len(rows)
           k == Len(parts)
           ids == Ids(rows)
           lists == [j \in DOMAIN parts |-> Ids(parts[j])]
           joined == CHOOSE g : Joins(g, lists)
           f == [j \in 1..k |-> SubSeq(ids, 1, ends[j])]
<1>1. n \in Nat \ {0} /\ k \in Nat /\ DOMAIN parts = 1..k
  BY LenProperties DEF Parts
<1>2. ends[0] = 0 /\ ends[k] = n /\ ends \in [0..k -> 0..n]
  BY DEF Packs
<1>3. k \in Nat \ {0}
  BY <1>1, <1>2
<1>4. ids \in Seq(Nat) /\ Len(ids) = n /\ \A i \in 1..n : ids[i] = rows[i].id
  <2>1. DOMAIN rows = 1..n /\ \A i \in 1..n : rows[i].id \in Nat
    BY <1>1 DEF Weighed
  <2>2. ids = [i \in 1..n |-> rows[i].id]
    BY <2>1 DEF Ids
  <2>3. ids \in [1..n -> Nat]
    BY <2>1, <2>2
  <2> HIDE DEF ids, n
  <2> QED BY <1>1, <2>2, <2>3
<1>5. /\ DOMAIN lists = 1..k /\ Len(lists) = k
      /\ \A j \in 1..k : lists[j] = Ids(parts[j])
  BY <1>1
<1> HIDE DEF n, k, ids, lists
<1>6. ASSUME NEW j \in 1..k
      PROVE  /\ ends[j - 1] \in 0..n /\ ends[j] \in (ends[j - 1] + 1)..n
             /\ lists[j] = SubSeq(ids, ends[j - 1] + 1, ends[j])
  <2>1. PICK a \in 0..n, e \in 0..n : a = ends[j - 1] /\ e = ends[j]
    BY <1>1, <1>2
  <2>2. a < e /\ parts[j] = SubSeq(rows, a + 1, e)
    BY <2>1 DEF Packs, k
  <2>3. a \in 0..Len(rows) /\ e \in a..Len(rows) /\ e \in (a + 1)..n
    BY <1>1, <2>2 DEF n
  <2>4. parts[j] \in Seq(R) /\ Len(parts[j]) = e - a
        /\ \A i \in 1..(e - a) : parts[j][i] = rows[a + i]
    BY <2>2, <2>3, PartsOfLists
  <2>5. /\ SubSeq(ids, a + 1, e) \in Seq(Nat) /\ Len(SubSeq(ids, a + 1, e)) = e - a
        /\ \A i \in 1..(e - a) : SubSeq(ids, a + 1, e)[i] = ids[a + i]
    <3>1. a \in 0..Len(ids) /\ e \in a..Len(ids)
      BY <1>4, <2>3 DEF n
    <3> QED BY <1>4, <3>1, PartsOfLists
  <2>6. DOMAIN parts[j] = 1..(e - a)
    BY <2>4, LenProperties
  <2>7. ASSUME NEW i \in 1..(e - a) PROVE parts[j][i].id = SubSeq(ids, a + 1, e)[i]
    <3>1. a + i \in 1..n
      BY <1>1, <2>2, <2>7
    <3> QED BY <1>4, <2>4, <2>5, <3>1
  <2>8. Ids(parts[j]) = [i \in 1..(e - a) |-> SubSeq(ids, a + 1, e)[i]]
    BY <2>6, <2>7 DEF Ids
  <2>9. SubSeq(ids, a + 1, e) = [i \in 1..(e - a) |-> SubSeq(ids, a + 1, e)[i]]
    <3>1. PICK s : s = SubSeq(ids, a + 1, e)
      OBVIOUS
    <3>2. s \in Seq(Nat) /\ Len(s) = e - a
      BY <2>5, <3>1
    <3>3. s = [i \in 1..(e - a) |-> s[i]]
      BY <3>2
    <3> QED BY <3>1, <3>3
  <2>10. lists[j] = SubSeq(ids, a + 1, e)
    BY <1>5, <2>8, <2>9
  <2> QED BY <2>1, <2>3, <2>10
<1>7. ASSUME NEW j \in 1..k
      PROVE  f[j] = IF j = 1 THEN lists[j] ELSE f[j - 1] \o lists[j]
  <2>1. CASE j = 1
    <3>0. 1 \in 1..k /\ j - 1 = 0 /\ 0 + 1 = 1
      BY <1>3, <2>1
    <3>1. f[1] = SubSeq(ids, 1, ends[1]) /\ j - 1 = 0 /\ 0 + 1 = 1
      BY <3>0
    <3>2. lists[1] = SubSeq(ids, 1, ends[1])
      BY <1>2, <1>6, <2>1, <3>1
    <3> QED BY <2>1, <3>1, <3>2
  <2>2. CASE j # 1
    <3>0. j - 1 \in 1..k
      BY <1>1, <2>2
    <3>1. f[j - 1] = SubSeq(ids, 1, ends[j - 1]) /\ f[j] = SubSeq(ids, 1, ends[j])
      BY <3>0
    <3>2. /\ 1 \in 1..(Len(ids) + 1)
          /\ ends[j - 1] \in (1 - 1)..Len(ids) /\ ends[j] \in ends[j - 1]..Len(ids)
      BY <1>1, <1>4, <1>6
    <3>3. SubSeq(ids, 1, ends[j - 1]) \o SubSeq(ids, ends[j - 1] + 1, ends[j])
            = SubSeq(ids, 1, ends[j])
      BY <1>4, <3>2, ConcatAdjacentSubSeq
    <3>4. lists[j] = SubSeq(ids, ends[j - 1] + 1, ends[j])
      BY <1>6
    <3> HIDE DEF f
    <3> QED BY <2>2, <3>1, <3>3, <3>4
  <2> QED BY <2>1, <2>2
<1>8. f = [j \in 1..k |-> IF j = 1 THEN lists[j] ELSE f[j - 1] \o lists[j]]
  <2>1. f = [j \in 1..k |-> f[j]]
    OBVIOUS
  <2> HIDE DEF f
  <2> QED BY <1>7, <2>1, Zenon
<1>9. f[k] = ids
  <2>1. f[k] = SubSeq(ids, 1, Len(ids))
    BY <1>2, <1>3, <1>4
  <2> QED BY <1>4, <2>1, SubSeqFull
<1> HIDE DEF f
<1>10. Joins(f, lists)
  BY <1>5, <1>8, Zenon DEF Joins
<1>11. Joins(joined, lists)
  BY <1>10, Zenon
<1>12. FlattenSeq(lists) = joined[k]
  <2>1. Len(lists) # 0
    BY <1>3, <1>5
  <2> QED BY <1>5, <2>1, Zenon DEF FlattenSeq, Joins
<1> HIDE DEF joined
<1>13. joined = [j \in 1..k |-> IF j = 1 THEN lists[j] ELSE joined[j - 1] \o lists[j]]
  BY <1>5, <1>11, Zenon DEF Joins
<1> DEFINE S == {j \in Nat : j \in 1..k => joined[j] = f[j]}
<1>14. 0 \in S
  OBVIOUS
<1>15. ASSUME NEW j \in 1..k, j - 1 \in S PROVE j \in S
  <2>1. CASE j = 1
    <3>1. joined[j] = lists[j] /\ f[j] = lists[j]
      BY <1>7, <1>13, <2>1
    <3> QED BY <2>1, <3>1
  <2>2. CASE j # 1
    <3>1. j - 1 \in 1..k /\ joined[j - 1] = f[j - 1]
      BY <1>1, <1>15, <2>2
    <3>2. joined[j] = joined[j - 1] \o lists[j]
      BY <1>13, <2>2
    <3>3. f[j] = f[j - 1] \o lists[j]
      BY <1>7, <2>2
    <3>4. joined[j] = f[j]
      BY <3>1, <3>2, <3>3, Zenon
    <3> QED BY <1>1, <3>4
  <2> QED BY <2>1, <2>2
<1> HIDE DEF S
<1>16. \A j \in 0..k : j \in S
  BY <1>1, <1>14, <1>15, CountUp
<1>17. joined[k] = f[k]
  BY <1>3, <1>16 DEF S
<1>18. ASSUME NEW j \in 1..k PROVE lists[j] # <<>>
  <2>1. PICK a \in 0..n : a = ends[j - 1]
    BY <1>6
  <2>2. PICK e \in (a + 1)..n : e = ends[j]
    BY <1>6, <2>1
  <2>3. a \in 0..Len(ids) /\ e \in a..Len(ids) /\ e - a # 0
    BY <1>1, <1>4, <2>2
  <2>4. Len(SubSeq(ids, a + 1, e)) = e - a
    BY <1>4, <2>3, PartsOfLists
  <2>5. lists[j] = SubSeq(ids, a + 1, e)
    BY <1>6, <2>1, <2>2
  <2>6. Len(lists[j]) # 0
    BY <2>3, <2>4, <2>5
  <2>7. Len(<<>>) = 0
    OBVIOUS
  <2> QED BY <2>6, <2>7, Zenon
<1> QED BY <1>5, <1>9, <1>12, <1>17, <1>18 DEF ids, lists, k

-----------------------------------------------------------------------------
(* Every manifest there is was generated from an offer that was in order.  *)
ManifestInv ==
  \A m \in b.manifest : \E o \in Offers, h \in 0..atHeads :
    ManifestOK(o) /\ m = ManifestOf(o, h)

LEMMA ManifestStays ==
  ASSUME ManifestInv, atHeads \in Nat, atHeads' \in {atHeads, atHeads + 1},
         b'.manifest = b.manifest
  PROVE  ManifestInv'
<1> SUFFICES ASSUME NEW m \in b.manifest
             PROVE  \E o \in Offers, h \in 0..atHeads' : ManifestOK(o) /\ m = ManifestOf(o, h)
  BY DEF ManifestInv
<1>1. PICK o \in Offers, h \in 0..atHeads : ManifestOK(o) /\ m = ManifestOf(o, h)
  BY DEF ManifestInv
<1>2. h \in 0..atHeads'
  OBVIOUS
<1> QED BY <1>1, <1>2

LEMMA ManifestKept ==
  BatchInv /\ ManifestInv /\ [BatchNext]_batchVars => ManifestInv'
<1> SUFFICES ASSUME BatchInv, ManifestInv, [BatchNext]_batchVars PROVE ManifestInv'
  OBVIOUS
<1>1. DOMAIN b = BatchFields /\ atHeads \in Nat
  BY DEF BatchInv
<1>2. ASSUME NEW next, BatchTurn([b EXCEPT !.at = next]) PROVE ManifestInv'
  <2>1. b'.manifest = b.manifest /\ atHeads' = atHeads
    BY <1>1, <1>2 DEF BatchTurn, BatchFields
  <2> QED BY <1>1, <2>1, ManifestStays
<1>3. ASSUME RefuseBatch PROVE ManifestInv'
  BY <1>2, <1>3 DEF RefuseBatch
<1>4. CASE Propose
  <2>1. PICK o \in Offers :
          RefuseBatch \/ BatchTurn([b EXCEPT !.at = "read", !.offer = {o}])
    BY <1>4 DEF Propose
  <2>2. CASE BatchTurn([b EXCEPT !.at = "read", !.offer = {o}])
    <3>1. b'.manifest = b.manifest /\ atHeads' = atHeads
      BY <1>1, <2>2 DEF BatchTurn, BatchFields
    <3> QED BY <1>1, <3>1, ManifestStays
  <2> QED BY <1>3, <2>1, <2>2
<1>5. CASE ReadSources
  BY <1>2, <1>3, <1>5 DEF ReadSources, ReadBack
<1>6. CASE GenerateManifest
  <2>1. b.at = "manifest"
    BY <1>6 DEF GenerateManifest
  <2>2. PICK o \in Offers : b.offer = {o}
    BY <2>1 DEF BatchInv
  <2>3. Offer = o
    BY <2>2 DEF Offer
  <2>4. \/ RefuseBatch
        \/ /\ ManifestOK(o)
           /\ BatchTurn([b EXCEPT !.at = "cover", !.manifest = {ManifestOf(o, atHeads)}])
    BY <1>6, <2>3 DEF GenerateManifest
  <2>5. CASE /\ ManifestOK(o)
             /\ BatchTurn([b EXCEPT !.at = "cover", !.manifest = {ManifestOf(o, atHeads)}])
    <3>1. b'.manifest = {ManifestOf(o, atHeads)} /\ atHeads' = atHeads
      BY <1>1, <2>5 DEF BatchTurn, BatchFields
    <3>2. atHeads \in 0..atHeads'
      BY <1>1, <3>1
    <3> QED BY <2>5, <3>1, <3>2 DEF ManifestInv
  <2> QED BY <1>3, <2>4, <2>5
<1>7. CASE FinalizeCoverage
  <2>1. RefuseBatch \/ \E rows : BatchTurn([b EXCEPT !.at = "result", !.coverage = rows])
    BY <1>7 DEF FinalizeCoverage
  <2>2. ASSUME NEW rows, BatchTurn([b EXCEPT !.at = "result", !.coverage = rows])
        PROVE  ManifestInv'
    <3>1. b'.manifest = b.manifest /\ atHeads' = atHeads
      BY <1>1, <2>2 DEF BatchTurn, BatchFields
    <3> QED BY <1>1, <3>1, ManifestStays
  <2> QED BY <1>3, <2>1, <2>2
<1>8. CASE FinalizeResult
  <2>1. RefuseBatch \/ \E r : BatchTurn([b EXCEPT !.at = "verify", !.result = {r}])
    BY <1>8 DEF FinalizeResult
  <2>2. ASSUME NEW r, BatchTurn([b EXCEPT !.at = "verify", !.result = {r}])
        PROVE  ManifestInv'
    <3>1. b'.manifest = b.manifest /\ atHeads' = atHeads
      BY <1>1, <2>2 DEF BatchTurn, BatchFields
    <3> QED BY <1>1, <3>1, ManifestStays
  <2> QED BY <1>3, <2>1, <2>2
<1>9. CASE VerifyBatch
  BY <1>2, <1>3, <1>9 DEF VerifyBatch, ReadBack
<1>10. CASE Land
  BY <1>1, <1>10, ManifestStays DEF Land
<1>11. CASE UNCHANGED batchVars
  BY <1>1, <1>11, ManifestStays DEF batchVars
<1> QED BY <1>4, <1>5, <1>6, <1>7, <1>8, <1>9, <1>10, <1>11 DEF BatchNext

THEOREM ManifestsAlwaysGrounded == BatchSpec => []ManifestInv
<1>1. InitBatch => ManifestInv
  BY DEF InitBatch, Nothing, ManifestInv
<1> QED BY <1>1, ManifestKept, BatchInvariant, PTL DEF BatchSpec

(* What the rows of an offer that is in order are, once they are sorted.   *)
LEMMA SortedRowsFit ==
  ASSUME NEW o \in Offers, ManifestOK(o)
  PROVE  LET S == SortedById(o.rows)
             R == ToSet(o.rows)
         IN  /\ Weighed(R) /\ S \in Seq(R) /\ Len(S) # 0
             /\ o.limit \in Nat /\ \A i \in 1..Len(S) : S[i].bytes <= o.limit
<1> DEFINE n == Len(o.rows)
           R == ToSet(o.rows)
           S == SortedById(o.rows)
<1>1. Listed(o.rows) /\ \A i \in 1..n : o.rows[i].bytes \in Nat
  BY OffersAssumption DEF Listed, ManifestOK
<1>2. /\ DOMAIN S = 1..n /\ Len(S) = n /\ \A i \in 1..n : S[i] \in R
  BY <1>1, SortedByIdIsSorted
<1>3. n \in Nat /\ DOMAIN o.rows = 1..n
  BY <1>1 DEF Listed
<1>4. o.limit \in Nat
  BY DEF ManifestOK
<1>5. \A r \in R : r.id \in Nat /\ r.bytes \in Nat /\ r.bytes <= o.limit
  <2>1. \A i \in 1..n : /\ o.rows[i].id \in Nat /\ o.rows[i].bytes \in Nat
                        /\ o.rows[i].bytes <= o.limit
    BY <1>1, <1>3 DEF Listed, ManifestOK
  <2> QED BY <1>3, <2>1 DEF ToSet
<1>6. n # 0
  BY DEF ManifestOK
<1>7. S = [i \in 1..n |-> S[i]]
  <2>1. S = [i \in DOMAIN o.rows |-> CHOOSE r \in R : Cardinality(Smaller(R, r)) = i - 1]
    BY DEF SortedById, Smaller
  <2> HIDE DEF S, R
  <2>2. S = [i \in DOMAIN o.rows |-> S[i]]
    BY <2>1
  <2> QED BY <1>3, <2>2
<1>8. S \in Seq(R)
  <2> HIDE DEF S, R, n
  <2>1. S \in [1..n -> R]
    BY <1>2, <1>7
  <2> QED BY <1>3, <2>1
<1>9. \A i \in 1..n : S[i].bytes <= o.limit
  <2> HIDE DEF S, R, n
  <2> QED BY <1>2, <1>5
<1> QED BY <1>2, <1>4, <1>5, <1>6, <1>8, <1>9 DEF Weighed

(* _build_partitions: the partitions of a manifest are the sources in their*)
(* order, and no way to cut them within the limit has fewer parts.         *)
THEOREM PartitionsAlwaysFewest == BatchSpec => []PartitionsAreFewest
<1>1. ManifestInv => PartitionsAreFewest
  <2> SUFFICES ASSUME ManifestInv, NEW m \in b.manifest
               PROVE  LET n == Len(m.sources)
                          within(cuts) == \A c \in {0} \cup cuts :
                            Bytes(SubSeq(m.sources, c + 1, NextCut(cuts, n, c))) <= m.limit
                      IN  /\ FlattenSeq(m.partitions) = m.required
                          /\ \A i \in DOMAIN m.partitions : m.partitions[i] # <<>>
                          /\ \A cuts \in SUBSET (1..(n - 1)) :
                               within(cuts) => Cardinality(cuts) + 1 >= Len(m.partitions)
                          /\ \E cuts \in SUBSET (1..(n - 1)) :
                               within(cuts) /\ Cardinality(cuts) + 1 = Len(m.partitions)
    BY DEF PartitionsAreFewest, NextCut
  <2>1. PICK o \in Offers, h \in 0..atHeads : ManifestOK(o) /\ m = ManifestOf(o, h)
    BY DEF ManifestInv
  <2>2. /\ m.sources = SortedById(o.rows) /\ m.limit = o.limit
        /\ m.required = Ids(m.sources) /\ m.partitions = Partitions(m.sources, m.limit)
    BY <2>1 DEF ManifestOf
  <2>3. PICK S, R, limit : /\ S = SortedById(o.rows) /\ R = ToSet(o.rows) /\ limit = o.limit
                           /\ S = m.sources /\ limit = m.limit
    BY <2>2
  <2>4. /\ Weighed(R) /\ S \in Seq(R) /\ Len(S) # 0
        /\ limit \in Nat /\ \A i \in 1..Len(S) : S[i].bytes <= limit
    BY <2>1, <2>3, SortedRowsFit
  <2>5. PICK P : Sums(P, S)
    BY <2>4, SumsExist
  <2>6. PICK parts, ends :
          /\ Parts(parts, R) /\ Packs(parts, ends, S, P, limit, Len(S))
          /\ Partitions(S, limit) = [j \in DOMAIN parts |-> Ids(parts[j])]
    BY <2>4, <2>5, PartitionsPack
  <2>7. Len(parts) \in Nat
    BY <2>6, LenProperties DEF Parts
  <2>8. m.partitions = [j \in DOMAIN parts |-> Ids(parts[j])]
    BY <2>2, <2>3, <2>6
  <2>9. /\ FlattenSeq(m.partitions) = Ids(S) /\ Len(m.partitions) = Len(parts)
        /\ \A i \in DOMAIN m.partitions : m.partitions[i] # <<>>
    <3>1. PICK lists : lists = [j \in DOMAIN parts |-> Ids(parts[j])]
      OBVIOUS
    <3>2. /\ FlattenSeq(lists) = Ids(S) /\ Len(lists) = Len(parts)
          /\ \A i \in DOMAIN lists : lists[i] # <<>>
      BY <2>4, <2>6, <3>1, PartsJoin
    <3> QED BY <2>8, <3>1, <3>2
  <2>10. \A cuts \in SUBSET (1..(Len(S) - 1)) :
           (\A c \in {0} \cup cuts :
              Bytes(SubSeq(S, c + 1, NextCut(cuts, Len(S), c))) <= limit)
           => Cardinality(cuts) + 1 >= Len(parts)
    <3>1. ASSUME NEW cuts \in SUBSET (1..(Len(S) - 1)),
                 \A c \in {0} \cup cuts :
                   Bytes(SubSeq(S, c + 1, NextCut(cuts, Len(S), c))) <= limit
          PROVE  Cardinality(cuts) + 1 >= Len(parts)
      <4>1. cuts \subseteq 1..(Len(S) - 1)
        OBVIOUS
      <4> QED BY <2>4, <2>5, <2>6, <2>7, <3>1, <4>1, NoFewerParts
    <3> QED BY <3>1
  <2>11. \E cuts \in SUBSET (1..(Len(S) - 1)) :
           /\ \A c \in {0} \cup cuts :
                Bytes(SubSeq(S, c + 1, NextCut(cuts, Len(S), c))) <= limit
           /\ Cardinality(cuts) + 1 = Len(parts)
    BY <2>4, <2>5, <2>6, <2>7, EndsAreCuts
  <2> QED BY <2>2, <2>3, <2>9, <2>10, <2>11, Zenon
<1> QED BY <1>1, ManifestsAlwaysGrounded, PTL

-----------------------------------------------------------------------------
(* The three together: no step of one is a step of another.                *)
LEMMA KnowledgeIsItsParts == KnowledgeSpec => GateSpec /\ LedgerSpec /\ BatchSpec
<1>1. InitKnowledge => InitTree /\ InitLedger /\ InitBatch
  BY DEF InitKnowledge
<1>2. ASSUME [NextKnowledge]_Knowledge
      PROVE  [GateNext]_gateVars /\ [LedgerNext]_ledgerVars /\ [BatchNext]_batchVars
  BY <1>2 DEF NextKnowledge, Knowledge, GateStep, LedgerStep, BatchStep
<1> QED BY <1>1, <1>2, PTL DEF KnowledgeSpec, GateSpec, LedgerSpec, BatchSpec

(* Sessions, requests and their jobs, candidates and results, and what a   *)
(* batch has when it is that far.                                          *)
THEOREM KnowledgeAlwaysTyped == KnowledgeSpec => []TypeOK
<1>1. BatchInv => BatchOK
  BY DEF BatchInv, Grounds, BatchOK
<1>2. LedgerTypeOK /\ BatchOK => TypeOK
  BY DEF TypeOK
<1> QED BY <1>1, <1>2, KnowledgeIsItsParts, LedgerTypesAlways, BatchInvariant, PTL

(* The invariants of the run, each of the program of the behaviour: Issues *)
(* completed on commits that record their tasks; consistent ledgers and one*)
(* request for each id; the fewest partitions, of which all sources are    *)
(* covered and no artifact hides the history.                              *)
THEOREM KnowledgeAlwaysSafe ==
  KnowledgeSpec => [](/\ TypeOK /\ CompletedIsRecorded /\ LedgerIsConsistent
                      /\ IdsStandForOneRequest /\ PartitionsAreFewest
                      /\ FrontierIsCovered /\ ArtifactsKeepHistory)
<1>1. GateSpec => []CompletedIsRecorded
  BY CompletedAlwaysRecorded
<1>2. LedgerSpec => []LedgerIsConsistent /\ []IdsStandForOneRequest
  BY LedgerAlwaysConsistent, IdsAlwaysOneRequest, PTL
<1>3. BatchSpec => []PartitionsAreFewest /\ []FrontierIsCovered /\ []ArtifactsKeepHistory
  BY PartitionsAlwaysFewest, FrontierAlwaysCovered, ArtifactsAlwaysKeepHistory, PTL
<1> QED BY <1>1, <1>2, <1>3, KnowledgeIsItsParts, KnowledgeAlwaysTyped, PTL
=============================================================================
