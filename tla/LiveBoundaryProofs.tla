-------------------------- MODULE LiveBoundaryProofs --------------------------
(***************************************************************************)
(* Theorems about LiveBoundary, for every set of requests and answers and  *)
(* every number of moves of main and of jobs that are run again.           *)
(***************************************************************************)
EXTENDS LiveBoundary, TLAPS, WellFoundedInduction, NaturalsInduction

Places == {"idle", "preflight", "queued", "reverify", "execute", "oidc",
           "exchange", "call", "verify", "ended"}

Fields == {"at", "request", "sha", "asked", "failure", "result"}

(* What can be told from the request alone has been checked.               *)
Admitted == RequestCode(Q) = "none" /\ Q.pack = "exact"

(* `live` is one record; it has a request once it is dispatched, and a     *)
(* result only when it has ended.                                          *)
LiveRecord ==
  /\ DOMAIN live = Fields
  /\ live.at \in Places
  /\ live.asked \in BOOLEAN
  /\ live.at # "idle" => live.request # {}
  /\ live.at # "ended" => live.result = {}

(* Main only moves forward: what the live job found when it began lies     *)
(* between the commit of the run and main as it is.                        *)
MainGrows ==
  /\ main \in Nat /\ live.sha \in Nat /\ live.sha <= main
  /\ live.at \in {"reverify", "execute", "oidc", "exchange", "call", "verify"} =>
       mainAtStart # {}
  /\ live.at \in {"idle", "preflight", "queued"} => mainAtStart = {}
  /\ \A m \in mainAtStart : m \in Nat /\ live.sha <= m /\ m <= main

(* How far the run has come says what has been established.                *)
Established ==
  /\ live.at \in {"execute", "oidc", "exchange", "call", "verify"} =>
       mainAtStart = {live.sha}
  /\ live.at \in {"oidc", "exchange", "call", "verify"} => Admitted
  /\ live.asked => live.at \in {"exchange", "call", "verify", "ended"}
  /\ live.asked => Admitted /\ mainAtStart = {live.sha}

(* Calls are only made at one place, and after each of them it was decided *)
(* whether there may be another.                                           *)
CallsInOrder ==
  /\ replies \in Seq(Replies)
  /\ live.at \notin {"call", "verify", "ended"} => replies = <<>>
  /\ live.at = "call" => \A i \in DOMAIN replies : replies[i].kind \in Retryable
  /\ live.at = "verify" => Len(replies) > 0 /\ Last(replies).output # {}
  /\ NoCallAfterAnswer
  /\ AttemptsAreCalls

LiveInv == LiveRecord /\ MainGrows /\ Established /\ CallsInOrder

USE DEF Places, Fields

-----------------------------------------------------------------------------
LEMMA InitEstablishes == Init => LiveInv
BY BoundsAssumption
   DEF Init, Idle, LiveInv, LiveRecord, MainGrows, Established, CallsInOrder,
       NoCallAfterAnswer, AttemptsAreCalls

(* Nothing but the variables of LiveBoundary matters.                      *)
LEMMA StutterKeeps == LiveInv /\ UNCHANGED vars => LiveInv'
BY DEF vars, LiveInv, LiveRecord, MainGrows, Established, Admitted, Q,
       CallsInOrder, NoCallAfterAnswer, AttemptsAreCalls

LEMMA DispatchKeeps ==
  ASSUME LiveInv, NEW q \in Requests, Dispatch(q)
  PROVE  LiveInv'
<1>1. LiveRecord'
  BY DEF LiveInv, LiveRecord, Dispatch, Turn
<1>2. MainGrows'
  BY DEF LiveInv, LiveRecord, MainGrows, Established, Dispatch, Turn
<1>3. Established'
  BY DEF LiveInv, LiveRecord, Established, Dispatch, Turn
<1>4. CallsInOrder'
  BY DEF LiveInv, LiveRecord, CallsInOrder, NoCallAfterAnswer, AttemptsAreCalls,
         Dispatch, Turn
<1> QED
  BY <1>1, <1>2, <1>3, <1>4 DEF LiveInv

(* A run that ends keeps its request and commit, and has a result for `n`  *)
(* calls or none.                                                          *)
Ends(d, asked, n) ==
  /\ DOMAIN d = Fields /\ d.at = "ended" /\ d.asked = asked
  /\ d.request = live.request /\ d.sha = live.sha
  /\ \A r \in d.result : r.attempts = n

LEMMA StoppingEnds ==
  ASSUME LiveRecord, live.at # "ended", NEW code, NEW n
  PROVE  Ends(Stopped(code), live.asked, n) /\ Ends(Crashed, live.asked, n)
BY DEF LiveRecord, Ends, Stopped, Crashed

LEMMA ResultEnds ==
  ASSUME LiveRecord, live.at # "ended", NEW status, NEW failure, NEW n
  PROVE  Ends(MakeResult(status, failure, n), live.asked, n)
<1>1. CASE failure \in ResultCodes \cup {"none"}
  BY <1>1 DEF LiveRecord, Ends, MakeResult
<1>2. CASE failure \notin ResultCodes \cup {"none"}
  BY <1>2 DEF LiveRecord, Ends, MakeResult, Crashed
<1> QED
  BY <1>1, <1>2

(* A run that ends where it is, with all its calls accounted for.          *)
LEMMA EndKeeps ==
  ASSUME LiveInv, live.at # "idle", live.at # "ended",
         NEW asked \in BOOLEAN, asked = live.asked \/ live.at = "oidc",
         Ends(live', asked, Len(replies)),
         UNCHANGED <<main, replies, mainAtStart, reruns>>
  PROVE  LiveInv'
<1>1. LiveRecord'
  BY DEF LiveInv, LiveRecord, Ends
<1>2. MainGrows'
  BY DEF LiveInv, MainGrows, Ends
<1>3. Established'
  BY DEF LiveInv, Established, Ends, Admitted, Q
<1>4. CallsInOrder'
  BY DEF LiveInv, CallsInOrder, NoCallAfterAnswer, AttemptsAreCalls, Ends
<1> QED
  BY <1>1, <1>2, <1>3, <1>4 DEF LiveInv

(* The checks a job makes either let it go on to the next place, in which  *)
(* case they hold, or end it.                                              *)
LEMMA ChecksDecide ==
  ASSUME LiveRecord, live.at \in {"preflight", "execute"}, NEW next,
         PublicChecks(next)
  PROVE  /\ UNCHANGED <<main, replies, mainAtStart, reruns>>
         /\ \/ live' = [live EXCEPT !.at = next] /\ Admitted
            \/ Ends(live', live.asked, Len(replies))
<1>1. UNCHANGED <<main, replies, mainAtStart, reruns>>
  BY DEF PublicChecks, Turn
<1>2. \/ live' = [live EXCEPT !.at = next] /\ Admitted
      \/ \E code : live' = Stopped(code)
      \/ live' = Crashed
  BY DEF PublicChecks, Turn, Admitted
<1> QED
  BY <1>1, <1>2, StoppingEnds

LEMMA PreflightKeeps == LiveInv /\ Preflight => LiveInv'
<1> SUFFICES ASSUME LiveInv, Preflight PROVE LiveInv'
  OBVIOUS
<1>1. LiveRecord /\ live.at = "preflight" /\ PublicChecks("queued")
  BY DEF LiveInv, Preflight
<1>2. /\ UNCHANGED <<main, replies, mainAtStart, reruns>>
      /\ \/ live' = [live EXCEPT !.at = "queued"]
         \/ Ends(live', live.asked, Len(replies))
  BY <1>1, ChecksDecide
<1>3. CASE live' = [live EXCEPT !.at = "queued"]
  BY <1>1, <1>2, <1>3 DEF LiveInv, LiveRecord, MainGrows, Established, Admitted, Q,
     CallsInOrder, NoCallAfterAnswer, AttemptsAreCalls
<1>4. CASE Ends(live', live.asked, Len(replies))
  BY <1>1, <1>2, <1>4, EndKeeps DEF LiveRecord
<1> QED
  BY <1>2, <1>3, <1>4

LEMMA ExecuteKeeps == LiveInv /\ Execute => LiveInv'
<1> SUFFICES ASSUME LiveInv, Execute PROVE LiveInv'
  OBVIOUS
<1>1. LiveRecord /\ live.at = "execute" /\ PublicChecks("oidc")
  BY DEF LiveInv, Execute
<1>2. /\ UNCHANGED <<main, replies, mainAtStart, reruns>>
      /\ \/ live' = [live EXCEPT !.at = "oidc"] /\ Admitted
         \/ Ends(live', live.asked, Len(replies))
  BY <1>1, ChecksDecide
<1>3. CASE live' = [live EXCEPT !.at = "oidc"] /\ Admitted
  BY <1>1, <1>2, <1>3 DEF LiveInv, LiveRecord, MainGrows, Established, Admitted, Q,
     CallsInOrder, NoCallAfterAnswer, AttemptsAreCalls
<1>4. CASE Ends(live', live.asked, Len(replies))
  BY <1>1, <1>2, <1>4, EndKeeps DEF LiveRecord
<1> QED
  BY <1>2, <1>3, <1>4

LEMMA StartLiveKeeps == LiveInv /\ StartLive => LiveInv'
<1> SUFFICES ASSUME LiveInv, StartLive PROVE LiveInv'
  OBVIOUS
<1>1. LiveRecord'
  BY DEF LiveInv, LiveRecord, StartLive
<1>2. MainGrows'
  BY DEF LiveInv, LiveRecord, MainGrows, StartLive
<1>3. Established'
  BY DEF LiveInv, LiveRecord, Established, StartLive
<1>4. CallsInOrder'
  BY DEF LiveInv, LiveRecord, CallsInOrder, NoCallAfterAnswer, AttemptsAreCalls,
         StartLive
<1> QED
  BY <1>1, <1>2, <1>3, <1>4 DEF LiveInv

(* Main is at the run's commit when it is read again, hence was so when the*)
(* live job began.                                                         *)
LEMMA ReverifyKeeps == LiveInv /\ Reverify => LiveInv'
<1> SUFFICES ASSUME LiveInv, Reverify PROVE LiveInv'
  OBVIOUS
<1>1. LiveRecord /\ live.at = "reverify" /\ UNCHANGED <<main, replies, mainAtStart, reruns>>
  BY DEF LiveInv, Reverify, Turn
<1>2. CASE main = live.sha /\ live' = [live EXCEPT !.at = "execute"]
  <2>1. LiveRecord'
    BY <1>1, <1>2 DEF LiveRecord
  <2>2. MainGrows'
    BY <1>1, <1>2 DEF LiveInv, LiveRecord, MainGrows
  <2>3. mainAtStart = {live.sha}
    BY <1>1, <1>2 DEF LiveInv, MainGrows
  <2>4. Established'
    BY <1>1, <1>2, <2>3 DEF LiveInv, LiveRecord, Established
  <2>5. CallsInOrder'
    BY <1>1, <1>2 DEF LiveInv, LiveRecord, CallsInOrder, NoCallAfterAnswer,
       AttemptsAreCalls
  <2> QED
    BY <2>1, <2>2, <2>4, <2>5 DEF LiveInv
<1>3. CASE live' \in {Stopped("main moved"), Crashed}
  <2>1. Ends(live', live.asked, Len(replies))
    BY <1>1, <1>3, StoppingEnds
  <2> QED
    BY <1>1, <2>1, EndKeeps DEF LiveRecord
<1> QED
  BY <1>2, <1>3 DEF Reverify, Turn

LEMMA AskOidcKeeps == LiveInv /\ AskOidc => LiveInv'
<1> SUFFICES ASSUME LiveInv, AskOidc PROVE LiveInv'
  OBVIOUS
<1>1. /\ LiveRecord /\ live.at = "oidc" /\ replies = <<>>
      /\ UNCHANGED <<main, replies, mainAtStart, reruns>>
  BY DEF LiveInv, CallsInOrder, AskOidc, Turn
<1>2. CASE live' = [live EXCEPT !.at = "exchange", !.asked = TRUE]
  BY <1>1, <1>2 DEF LiveInv, LiveRecord, MainGrows, Established, Admitted, Q,
     CallsInOrder, NoCallAfterAnswer, AttemptsAreCalls
<1>3. CASE \E code : live' = Degraded(code, 0)
  BY <1>1, <1>3, ResultEnds, EndKeeps DEF Degraded, LiveRecord
<1>4. CASE \E code : live' = [Degraded(code, 0) EXCEPT !.asked = TRUE]
  <2>1. PICK code : live' = [Degraded(code, 0) EXCEPT !.asked = TRUE]
    BY <1>4
  <2>2. Ends(Degraded(code, 0), live.asked, 0)
    BY <1>1, ResultEnds DEF Degraded
  <2>3. Ends(live', TRUE, 0)
    BY <2>1, <2>2 DEF Ends
  <2> QED
    BY <1>1, <2>3, EndKeeps
<1>5. CASE live' = [Crashed EXCEPT !.asked = TRUE]
  <2>1. Ends(live', TRUE, 0)
    BY <1>1, <1>5, StoppingEnds DEF Ends
  <2> QED
    BY <1>1, <2>1, EndKeeps
<1> QED
  BY <1>2, <1>3, <1>4, <1>5 DEF AskOidc, Turn

LEMMA ExchangeKeeps == LiveInv /\ Exchange => LiveInv'
<1> SUFFICES ASSUME LiveInv, Exchange PROVE LiveInv'
  OBVIOUS
<1>1. /\ LiveRecord /\ live.at = "exchange" /\ replies = <<>>
      /\ UNCHANGED <<main, replies, mainAtStart, reruns>>
  BY DEF LiveInv, CallsInOrder, Exchange, Turn
<1>2. CASE live' = [live EXCEPT !.at = "call"]
  BY <1>1, <1>2 DEF LiveInv, LiveRecord, MainGrows, Established, Admitted, Q,
     CallsInOrder, NoCallAfterAnswer, AttemptsAreCalls
<1>3. CASE \E code : live' = Degraded(code, 0)
  BY <1>1, <1>3, ResultEnds, EndKeeps DEF Degraded, LiveRecord
<1>4. CASE live' = Crashed
  BY <1>1, <1>4, StoppingEnds, EndKeeps DEF LiveRecord
<1> QED
  BY <1>2, <1>3, <1>4 DEF Exchange, Turn

(* What a call makes of the run: it ends with all calls counted, has an    *)
(* answer to verify, or may call again since the failure may pass.         *)
LEMMA CallDecides ==
  ASSUME LiveRecord, live.at = "call", NEW reply \in Replies, NEW n \in Nat, NEW max,
         live' = AfterCall(reply, n, max)
  PROVE  \/ Ends(live', live.asked, n)
         \/ live' = [live EXCEPT !.at = "verify"] /\ reply.output # {}
         \/ live' = live /\ reply.kind \in Retryable
<1>1. \/ live' = Crashed
      \/ live' = [live EXCEPT !.at = "verify"] /\ reply.output # {}
      \/ live' = live /\ reply.kind \in Retryable
      \/ \E code : live' = Degraded(code, n)
  <2>1. CASE reply.kind = "exception"
    BY <2>1 DEF AfterCall
  <2>2. CASE reply.kind = "answer" /\ \E o \in reply.output : o.schema = "v1"
    BY <2>2 DEF AfterCall
  <2>3. CASE reply.kind = "answer" /\ \A o \in reply.output : o.schema # "v1"
    BY <2>3 DEF AfterCall, Retryable
  <2>4. CASE reply.kind \notin {"exception", "answer"}
    BY <2>4 DEF AfterCall, Retryable
  <2> QED
    BY <2>1, <2>2, <2>3, <2>4
<1> QED
  BY <1>1, StoppingEnds, ResultEnds DEF Degraded

LEMMA CallKeeps == LiveInv /\ Call => LiveInv'
<1> SUFFICES ASSUME LiveInv, Call PROVE LiveInv'
  OBVIOUS
<1>1. /\ LiveRecord /\ live.at = "call" /\ UNCHANGED <<main, mainAtStart, reruns>>
      /\ replies \in Seq(Replies) /\ \A i \in DOMAIN replies : replies[i].kind \in Retryable
  BY DEF LiveInv, CallsInOrder, Call
<1>2. PICK reply \in Replies :
        /\ replies' = Append(replies, reply)
        /\ live' = AfterCall(reply, Len(replies) + 1, Q.in.budgets.attempts)
  BY DEF Call
<1>3. /\ replies' \in Seq(Replies) /\ Len(replies') = Len(replies) + 1
      /\ replies'[Len(replies')] = reply
      /\ \A i \in 1..Len(replies) : replies'[i] = replies[i]
  BY <1>1, <1>2
<1>4. \A i \in DOMAIN replies' : i < Len(replies') => replies'[i].kind \in Retryable
  BY <1>1, <1>3
<1>5. \/ Ends(live', live.asked, Len(replies'))
      \/ live' = [live EXCEPT !.at = "verify"] /\ reply.output # {}
      \/ live' = live /\ reply.kind \in Retryable
  <2>1. Len(replies) + 1 \in Nat
    BY <1>1
  <2> QED
    BY <1>1, <1>2, <1>3, <2>1, CallDecides
<1>6. LiveRecord'
  BY <1>1, <1>5 DEF LiveRecord, Ends
<1>7. MainGrows'
  BY <1>1, <1>5 DEF LiveInv, LiveRecord, MainGrows, Ends
<1>8. Established'
  BY <1>1, <1>5 DEF LiveInv, LiveRecord, Established, Admitted, Q, Ends
<1>9. CallsInOrder'
  <2>1. NoCallAfterAnswer'
    BY <1>4 DEF NoCallAfterAnswer
  <2>2. AttemptsAreCalls' /\ live'.at \in {"call", "verify", "ended"}
    BY <1>1, <1>5 DEF LiveRecord, AttemptsAreCalls, Ends
  <2>3. live'.at = "call" => \A i \in DOMAIN replies' : replies'[i].kind \in Retryable
    BY <1>1, <1>3, <1>4, <1>5 DEF LiveRecord, Ends
  <2>4. live'.at = "verify" => Len(replies') > 0 /\ Last(replies').output # {}
    BY <1>1, <1>3, <1>5 DEF LiveRecord, Ends, Last
  <2> QED
    BY <1>3, <2>1, <2>2, <2>3, <2>4 DEF CallsInOrder
<1> QED
  BY <1>6, <1>7, <1>8, <1>9 DEF LiveInv

LEMMA VerifyKeeps == LiveInv /\ Verify => LiveInv'
<1> SUFFICES ASSUME LiveInv, Verify PROVE LiveInv'
  OBVIOUS
<1>1. LiveRecord /\ live.at = "verify" /\ UNCHANGED <<main, replies, mainAtStart, reruns>>
  BY DEF LiveInv, Verify, Turn
<1>2. Ends(live', live.asked, Len(replies))
  BY <1>1, ResultEnds DEF Verify, Turn
<1> QED
  BY <1>1, <1>2, EndKeeps DEF LiveRecord

LEMMA RunAgainKeeps ==
  ASSUME LiveInv, NEW place \in {"queued", "preflight"}, RunAgain(place)
  PROVE  LiveInv'
<1>1. LiveRecord'
  BY DEF LiveInv, LiveRecord, RunAgain
<1>2. MainGrows'
  BY DEF LiveInv, LiveRecord, MainGrows, RunAgain
<1>3. Established'
  BY DEF LiveInv, LiveRecord, Established, RunAgain
<1>4. CallsInOrder'
  BY DEF LiveInv, LiveRecord, CallsInOrder, NoCallAfterAnswer, AttemptsAreCalls,
         RunAgain
<1> QED
  BY <1>1, <1>2, <1>3, <1>4 DEF LiveInv

LEMMA MoveMainKeeps == LiveInv /\ MoveMain => LiveInv'
BY DEF LiveInv, LiveRecord, MainGrows, Established, Admitted, Q, CallsInOrder,
       NoCallAfterAnswer, AttemptsAreCalls, MoveMain

LEMMA NextKeeps == LiveInv /\ [Next]_vars => LiveInv'
BY DispatchKeeps, PreflightKeeps, StartLiveKeeps, ReverifyKeeps, ExecuteKeeps,
   AskOidcKeeps, ExchangeKeeps, CallKeeps, VerifyKeeps, RunAgainKeeps,
   MoveMainKeeps, StutterKeeps
   DEF Next, Step, RerunLive, RerunAll

-----------------------------------------------------------------------------
(* The invariant that says, for every place of the run, what has been      *)
(* established when it gets there.                                         *)
THEOREM RunsAreInOrder == Spec => []LiveInv
BY InitEstablishes, NextKeeps, PTL DEF Spec

(* A run has a request, an answer to verify and a result only where its    *)
(* code has them.                                                          *)
THEOREM RecordsAlwaysRight == Spec => []LiveOK
<1>1. LiveInv => LiveOK
  BY DEF LiveInv, LiveRecord, CallsInOrder, LiveOK
<1> QED
  BY <1>1, RunsAreInOrder, PTL

(* No OIDC token is asked for unless the public checks hold and main was at*)
(* the run's commit when the live job began, however often main moves and  *)
(* the live job is run again.                                              *)
THEOREM ChecksComeFirst == Spec => []CredentialAfterChecks
<1>1. LiveInv => CredentialAfterChecks
  BY DEF LiveInv, Established, Admitted, CredentialAfterChecks
<1> QED
  BY <1>1, RunsAreInOrder, PTL

(* A result reports as many attempts as calls were made.                   *)
THEOREM CallsAreCounted == Spec => []AttemptsAreCalls
<1>1. LiveInv => AttemptsAreCalls
  BY DEF LiveInv, CallsInOrder
<1> QED
  BY <1>1, RunsAreInOrder, PTL

(* The provider is asked again only after a failure that may pass.         *)
THEOREM AnswersEndCalls == Spec => []NoCallAfterAnswer
<1>1. LiveInv => NoCallAfterAnswer
  BY DEF LiveInv, CallsInOrder
<1> QED
  BY <1>1, RunsAreInOrder, PTL

-----------------------------------------------------------------------------
(* Accepted answers, and the contract.                                     *)

LEMMA SmallestExists ==
  ASSUME NEW S \in SUBSET Nat, S # {}
  PROVE  \E i \in S : \A j \in S : i <= j
<1>1. PICK i \in S : \A j \in S : ~(<<j, i>> \in OpToRel(<, Nat))
  BY WFMin, NatLessThanWellFounded, Zenon
<1>2. \A j \in S : ~(j < i)
  BY <1>1 DEF OpToRel
<1> QED BY <1>2, SMT

(* A list of checks that does not fail has no check that fails: of those   *)
(* that did there would be a first one.                                    *)
LEMMA NoneFails ==
  ASSUME NEW codes, NEW n \in Nat, DOMAIN codes = 1 .. n,
         FirstFailure(codes) = "none"
  PROVE  \A i \in 1 .. n : codes[i] = "none"
<1> DEFINE failed == {i \in 1 .. n : codes[i] # "none"}
<1> SUFFICES ASSUME failed # {} PROVE FALSE
  OBVIOUS
<1>1. PICK i \in failed : \A j \in failed : i <= j
  <2>1. failed \in SUBSET Nat
    OBVIOUS
  <2> HIDE DEF failed
  <2> QED BY <2>1, SmallestExists
<1>2. i \in DOMAIN codes /\ codes[i] # "none" /\ \A j \in 1 .. i - 1 : codes[j] = "none"
  BY <1>1
<1> DEFINE first == CHOOSE k \in DOMAIN codes : /\ codes[k] # "none"
                                                /\ \A j \in 1 .. k - 1 : codes[j] = "none"
<1>3. codes[first] # "none"
  BY <1>2
<1>4. FirstFailure(codes) = codes[first]
  BY <1>2 DEF FirstFailure
<1> QED BY <1>3, <1>4

LEMMA CheckHolds == \A code, holds : Check(code, holds) = "none" => code = "none" \/ holds
BY DEF Check

(* What is true of a request whose checks hold.                            *)
LEMMA AdmittedRequests ==
  ASSUME NEW q, RequestCode(q) = "none"
  PROVE  q.in.wellFormed
<1> DEFINE codes == <<Check("REQUEST_ID_MISMATCH", q.bound), InputCode(q.in),
                      Check("LIVE_BUDGET_EXCEEDED",
                            \A b \in DOMAIN LiveCaps : q.in.budgets[b] <= LiveCaps[b])>>
<1>1. FirstFailure(codes) = "none"
  BY DEF RequestCode
<1>2. DOMAIN codes = 1 .. 3 /\ codes[2] = InputCode(q.in)
  OBVIOUS
<1> HIDE DEF codes
<1>3. InputCode(q.in) = "none"
  <2>1. \A i \in 1 .. 3 : codes[i] = "none"
    <3>1. 3 \in Nat
      OBVIOUS
    <3>2. DOMAIN codes = 1 .. 3
      BY <1>2
    <3> QED BY <1>1, <3>1, <3>2, NoneFails
  <2> QED BY <1>2, <2>1
<1> DEFINE in == q.in
           inCodes == <<
        Check("SCHEMA_INVALID", in.wellFormed),
        Check("INPUT_BINDING_MISMATCH", in.bound),
        Check("PROVENANCE_MISMATCH", OrderedUnique(in.sources)),
        Check("PUBLIC_DATA_VIOLATION", in.public),
        Check("BUDGET_EXCEEDED", /\ in.bytes <= in.budgets.inputBytes
                                 /\ in.tokens <= in.budgets.inputTokens),
        Check("HISTORICAL_SEMANTICS_MISMATCH",
              /\ \A conflict \in in.conflicts : conflict.sources \subseteq ToSet(in.sources)
              /\ \A s \in in.supersessions :
                   s.old # s.by /\ {s.old, s.by} \subseteq ToSet(in.sources))>>
<1>4. FirstFailure(inCodes) = "none"
  BY <1>3 DEF InputCode
<1>5. DOMAIN inCodes = 1 .. 6
  OBVIOUS
<1>6. inCodes[1] = Check("SCHEMA_INVALID", in.wellFormed)
  OBVIOUS
<1> HIDE DEF inCodes
<1>7. \A i \in 1 .. 6 : inCodes[i] = "none"
  BY <1>4, <1>5, NoneFails
<1> QED BY <1>6, <1>7, CheckHolds

(* What an artifact is when its checks hold.                               *)
LEMMA ArtifactChecked ==
  ASSUME NEW in, NEW a, ArtifactCode(in, a) = "none"
  PROVE  /\ ToSet(a.sources) \subseteq ToSet(in.sources)
         /\ a.public
         /\ ConflictsMarked(in, a) /\ SupersededMarked(in, a)
<1> DEFINE codes ==
      <<Check("PROVENANCE_MISMATCH", OrderedUnique(a.sources)
                                       /\ ToSet(a.sources) \subseteq ToSet(in.sources)),
        Check("SCHEMA_INVALID", a.sorted),
        Check("PUBLIC_DATA_VIOLATION", a.public),
        Check("SILENT_CONFLICT_SELECTION", ConflictsMarked(in, a)),
        Check("HISTORICAL_SEMANTICS_MISMATCH", SupersededMarked(in, a))>>
<1>1. FirstFailure(codes) = "none"
  BY DEF ArtifactCode
<1>2. DOMAIN codes = 1 .. 5
  OBVIOUS
<1>3. \A i \in 1 .. 5 : codes[i] = "none"
  <2> HIDE DEF codes
  <2> QED BY <1>1, <1>2, NoneFails
<1>4. codes[1] = "none" /\ codes[3] = "none" /\ codes[4] = "none" /\ codes[5] = "none"
  BY <1>3
<1> QED BY <1>4 DEF Check

LEMMA NotEmptySeq ==
  ASSUME NEW S, NEW s \in Seq(S), s # <<>>
  PROVE  ToSet(s) # {}
<1>1. 1 \in DOMAIN s
  OBVIOUS
<1> QED BY <1>1 DEF ToSet

(* What the verifier accepts is grounded.                                  *)
LEMMA AcceptedOutputs ==
  ASSUME NEW q, NEW o \in Answers, OutputCode(q.in, o) = "none"
  PROVE  Grounded(q, o)
<1> DEFINE
      in == q.in
      listed == \A i \in DOMAIN o.artifacts : o.artifacts[i].sources # <<>>
      codes ==
    <<InputCode(in),
      Check("UNSUPPORTED_SCHEMA_VERSION", o.schema = "v1"),
      Check("AUTHORITY_PROMOTION_ATTEMPT", o.class \in {"absent", "derived"}),
      Check("SCHEMA_INVALID",
            /\ o.class = "derived" /\ o.artifacts # <<>>
            /\ \A i \in DOMAIN o.artifacts : o.artifacts[i].sources # <<>>),
      Check("INPUT_BINDING_MISMATCH", o.of = in.id),
      Check("PROVENANCE_MISMATCH", o.sources = in.sources),
      Check("HISTORICAL_SEMANTICS_MISMATCH", o.history = History(in)),
      Check("BUDGET_EXCEEDED", /\ o.usage.input = in.tokens
                               /\ o.usage.output <= in.budgets.outputTokens
                               /\ o.usage.attempts <= in.budgets.attempts),
      Check("SCHEMA_INVALID",
            OrderedUnique([i \in DOMAIN o.artifacts |-> o.artifacts[i].id])),
      ArtifactsCode(in, o.artifacts),
      Check("BUDGET_EXCEEDED", /\ OutputBytes(o) = o.usage.bytes
                               /\ OutputBytes(o) <= in.budgets.outputBytes)>>
<1>1. FirstFailure(codes) = "none"
  BY DEF OutputCode
<1>2. DOMAIN codes = 1 .. 11
  OBVIOUS
<1>3. \A i \in 1 .. 11 : codes[i] = "none"
  <2> HIDE DEF codes
  <2> QED BY <1>1, <1>2, NoneFails
<1>4. /\ codes[4] = "none" /\ codes[5] = "none" /\ codes[7] = "none"
      /\ codes[10] = "none" /\ codes[11] = "none"
  <2> HIDE DEF codes
  <2> QED BY <1>3
<1>5. o.class = "derived" /\ o.artifacts # <<>> /\ listed
  BY <1>4 DEF Check
<1>6. o.of = in.id /\ o.history = History(in)
  BY <1>4 DEF Check
<1>7. OutputBytes(o) <= in.budgets.outputBytes
  BY <1>4 DEF Check
<1>8. \A i \in DOMAIN o.artifacts : ArtifactCode(in, o.artifacts[i]) = "none"
  <2> DEFINE each == [i \in DOMAIN o.artifacts |-> ArtifactCode(in, o.artifacts[i])]
  <2>1. FirstFailure(each) = "none"
    BY <1>4 DEF ArtifactsCode
  <2>2. DOMAIN each = 1 .. Len(o.artifacts) /\ Len(o.artifacts) \in Nat
    BY AnswersAssumption
  <2>3. \A i \in 1 .. Len(o.artifacts) : each[i] = "none"
    <3> HIDE DEF each
    <3> QED BY <2>1, <2>2, NoneFails
  <2> QED BY <2>2, <2>3
<1>9. ToSet(o.artifacts) # {}
  BY <1>5, NotEmptySeq, AnswersAssumption
<1>10. ASSUME NEW a \in ToSet(o.artifacts)
       PROVE  /\ a.public
              /\ ToSet(a.sources) \subseteq ToSet(in.sources)
              /\ ConflictsMarked(in, a) /\ SupersededMarked(in, a)
              /\ ToSet(a.sources) # {}
  <2>1. PICK i \in DOMAIN o.artifacts : a = o.artifacts[i]
    BY DEF ToSet
  <2>2. ArtifactCode(in, a) = "none" /\ a.sources # <<>>
    BY <1>5, <1>8, <2>1
  <2>3. ToSet(a.sources) # {}
    BY <2>2, NotEmptySeq, AnswersAssumption
  <2> QED BY <2>2, <2>3, ArtifactChecked
<1> HIDE DEF codes
<1>11. ASSUME NEW a \in ToSet(o.artifacts), NEW s \in ToSet(a.sources)
       PROVE  /\ \A k \in in.conflicts : s \in k.sources => k.id \in a.conflicts
              /\ (\E r \in in.supersessions : r.old = s) => s \in a.superseded
  <2>1. ConflictsMarked(in, a) /\ SupersededMarked(in, a)
    BY <1>10
  <2>2. \A k \in in.conflicts : s \in k.sources => k.id \in a.conflicts
    BY <2>1 DEF ConflictsMarked
  <2>3. (\E r \in in.supersessions : r.old = s) => s \in a.superseded
    BY <2>1 DEF SupersededMarked
  <2> QED BY <2>2, <2>3
<1> QED
  BY <1>5, <1>6, <1>7, <1>9, <1>10, <1>11 DEF Grounded

(* A run is one request's, a job with a token has asked for it, one that is*)
(* to call still may, and what a job accepts is grounded.                  *)
Kept ==
  /\ live.at = "idle" => live.request = {}
  /\ live.at # "idle" => \E q \in Requests : live.request = {q}
  /\ live.at \in {"exchange", "call", "verify"} => live.asked
  /\ live.at = "call" => Len(replies) < Q.in.budgets.attempts
  /\ \A r \in live.result :
       /\ r.status = "accepted" <=> r.materialization = "accepted"
       /\ r.status = "accepted" => Grounded(Q, LastAnswer)

LEMMA OneRequest ==
  ASSUME Kept, live.at # "idle"
  PROVE  Q \in Requests /\ live.request = {Q}
BY DEF Kept, Q

LEMMA NothingTaken ==
  ASSUME \A r \in live.result : r.status # "accepted"
  PROVE  Taken = {}
BY DEF Taken

(* A job that goes on, to a place where it has no token yet.               *)
LEMMA GoesOn ==
  ASSUME LiveInv, Kept, live.at \notin {"idle", "ended"}, replies' = replies,
         live'.at \in {"queued", "reverify", "execute", "oidc"},
         live'.request = live.request, live'.result = {},
         live'.asked = live.asked
  PROVE  Kept' /\ UNCHANGED Contract!vars
<1>1. Kept'
  BY DEF Kept
<1>2. Stage' = Stage
  BY DEF Stage
<1>3. Taken = {} /\ Taken' = {}
  BY DEF LiveInv, LiveRecord, Taken
<1> QED BY <1>1, <1>2, <1>3 DEF Contract!vars

(* A job that ends and accepts nothing.                                    *)
LEMMA EndsEmpty ==
  ASSUME LiveInv, Kept, live.at \notin {"idle", "ended"}, replies' = replies,
         live'.at = "ended", live'.request = live.request,
         \A r \in live'.result : r.status # "accepted" /\ r.materialization # "accepted"
  PROVE  Kept' /\ Contract!Next
<1>1. Kept'
  BY DEF Kept
<1>2. Stage \in {"closed", "open"} /\ Stage' = "ended"
  BY DEF Stage
<1>3. Taken = {} /\ Taken' = {}
  BY DEF LiveInv, LiveRecord, Taken
<1> QED BY <1>1, <1>2, <1>3 DEF Contract!Next, Contract!End

(* The ways a job has to end without accepting anything.                   *)
LEMMA WaysToEnd ==
  ASSUME LiveRecord, live.at # "ended", NEW d, NEW e,
         \/ \E code : d = Stopped(code)
         \/ d = Crashed
         \/ \E status, code, n : status # "accepted" /\ d = MakeResult(status, code, n),
         e = d \/ e = [d EXCEPT !.asked = TRUE]
  PROVE  /\ e.at = "ended" /\ e.request = live.request
         /\ \A r \in e.result : r.status # "accepted" /\ r.materialization # "accepted"
<1> DEFINE Empty(f) ==
             /\ DOMAIN f = Fields /\ f.at = "ended" /\ f.request = live.request
             /\ \A r \in f.result : r.status # "accepted" /\ r.materialization # "accepted"
<1>1. ASSUME NEW code PROVE Empty(Stopped(code)) /\ Empty(Crashed)
  BY DEF LiveRecord, Stopped, Crashed
<1>2. ASSUME NEW status, NEW code, NEW n, status # "accepted"
      PROVE  Empty(MakeResult(status, code, n))
  <2>1. CASE code \in ResultCodes \cup {"none"}
    <3> DEFINE r == [status |-> status, attempts |-> n, materialization |-> "none"]
    <3>1. MakeResult(status, code, n) =
            [live EXCEPT !.at = "ended", !.failure = code, !.result = {r}]
      BY <1>2, <2>1 DEF MakeResult
    <3>2. r.status # "accepted" /\ r.materialization # "accepted"
      BY <1>2
    <3> HIDE DEF r
    <3> QED BY <3>1, <3>2 DEF LiveRecord
  <2>2. CASE code \notin ResultCodes \cup {"none"}
    BY <2>2 DEF LiveRecord, MakeResult, Crashed
  <2> QED BY <2>1, <2>2
<1>3. Empty(d)
  <2> HIDE DEF Empty
  <2> QED BY <1>1, <1>2
<1> QED BY <1>3

(* The steps before a token is asked for.                                  *)
LEMMA ChecksRefine ==
  ASSUME LiveInv, Kept, Preflight \/ Reverify \/ Execute
  PROVE  Kept' /\ [Contract!Next]_(Contract!vars)
<1>1. /\ LiveRecord /\ live.at \notin {"idle", "ended"} /\ replies' = replies
      /\ \/ live' = [live EXCEPT !.at = "queued"]
         \/ live' = [live EXCEPT !.at = "execute"]
         \/ live' = [live EXCEPT !.at = "oidc"]
         \/ \E code : live' = Stopped(code)
         \/ live' = Crashed
  BY DEF LiveInv, Preflight, Reverify, Execute, PublicChecks, Turn
<1>2. CASE \E at \in {"queued", "execute", "oidc"} : live' = [live EXCEPT !.at = at]
  <2>1. /\ live'.at \in {"queued", "reverify", "execute", "oidc"}
        /\ live'.request = live.request /\ live'.asked = live.asked
        /\ live'.result = {}
    BY <1>1, <1>2 DEF LiveRecord
  <2> QED BY <1>1, <2>1, GoesOn
<1>3. CASE (\E code : live' = Stopped(code)) \/ live' = Crashed
  BY <1>1, <1>3, WaysToEnd, EndsEmpty
<1> QED BY <1>1, <1>2, <1>3

LEMMA StartLiveRefines ==
  ASSUME LiveInv, Kept, StartLive
  PROVE  Kept' /\ UNCHANGED Contract!vars
<1>1. /\ LiveRecord /\ live.at = "queued" /\ replies = <<>> /\ replies' = <<>>
      /\ live' = [live EXCEPT !.at = "reverify"]
  BY DEF LiveInv, CallsInOrder, StartLive
<1>2. /\ live'.at \in {"queued", "reverify", "execute", "oidc"}
      /\ live'.request = live.request /\ live'.asked = live.asked
      /\ live'.result = {}
  BY <1>1 DEF LiveRecord
<1> QED BY <1>1, <1>2, GoesOn

(* A token is asked for by a request that is admitted.                     *)
LEMMA AskOidcRefines ==
  ASSUME LiveInv, Kept, AskOidc
  PROVE  Kept' /\ [Contract!Next]_(Contract!vars)
<1>1. /\ LiveRecord /\ live.at = "oidc" /\ replies' = replies
      /\ ~live.asked /\ Admitted /\ live.result = {}
  BY DEF LiveInv, LiveRecord, Established, AskOidc, Turn
<1>2. CASE live' = [live EXCEPT !.at = "exchange", !.asked = TRUE]
  <2>1. Kept'
    BY <1>1, <1>2 DEF Kept, LiveRecord
  <2>2. Stage = "closed" /\ Stage' = "open"
    BY <1>1, <1>2 DEF Stage, LiveRecord
  <2>3. Taken = {} /\ Taken' = {}
    BY <1>1, <1>2 DEF Taken, LiveRecord
  <2>4. \A q \in live.request : Admits(q)
    BY <1>1, OneRequest DEF Admitted, Admits
  <2>5. live'.request = live.request
    BY <1>1, <1>2 DEF LiveRecord
  <2> QED
    BY <1>1, <2>1, <2>2, <2>3, <2>4, <2>5 DEF Contract!Next, Contract!Open
<1>3. ASSUME NEW d, \/ \E code : d = Degraded(code, 0)
                    \/ d = Crashed,
             live' = d \/ live' = [d EXCEPT !.asked = TRUE]
      PROVE  Kept' /\ Contract!Next
  BY <1>1, <1>3, WaysToEnd, EndsEmpty DEF Degraded
<1> QED BY <1>2, <1>3 DEF AskOidc, Turn

LEMMA ExchangeRefines ==
  ASSUME LiveInv, Kept, Exchange
  PROVE  Kept' /\ [Contract!Next]_(Contract!vars)
<1>1. /\ LiveRecord /\ live.at = "exchange" /\ replies = <<>> /\ replies' = replies
      /\ Admitted /\ live.result = {}
  BY DEF LiveInv, LiveRecord, Established, CallsInOrder, Exchange, Turn
<1>2. CASE live' = [live EXCEPT !.at = "call"]
  <2>1. Q.in.budgets.attempts \in Nat \ {0}
    BY <1>1, OneRequest, AdmittedRequests, AttemptsAssumption DEF Admitted
  <2>2. Q' = Q /\ live'.request = live.request
    BY <1>1, <1>2 DEF Q, LiveRecord
  <2>3. Kept'
    BY <1>1, <1>2, <2>1, <2>2 DEF Kept, LiveRecord
  <2>4. Stage' = Stage
    BY <1>1, <1>2 DEF Stage, LiveRecord
  <2>5. Taken = {} /\ Taken' = {}
    BY <1>1, <1>2 DEF Taken, LiveRecord
  <2> QED BY <1>1, <2>2, <2>3, <2>4, <2>5 DEF Contract!vars
<1>3. CASE (\E code : live' = Degraded(code, 0)) \/ live' = Crashed
  BY <1>1, <1>3, WaysToEnd, EndsEmpty DEF Degraded
<1> QED BY <1>2, <1>3 DEF Exchange, Turn

(* A call is one of those that the request allows.                         *)
LEMMA CallRefines ==
  ASSUME LiveInv, Kept, Call
  PROVE  Kept' /\ Contract!Next
<1>1. /\ LiveRecord /\ live.at = "call" /\ live.result = {} /\ live.asked
      /\ replies \in Seq(Replies) /\ Admitted
  BY DEF LiveInv, LiveRecord, Established, CallsInOrder, Kept, Call
<1> DEFINE max == Q.in.budgets.attempts
           n == Len(replies) + 1
<1>2. max \in Nat \ {0} /\ n \in Nat /\ Len(replies) < max
  BY <1>1, OneRequest, AdmittedRequests, AttemptsAssumption DEF Admitted, Kept
<1>3. PICK reply \in Replies :
        replies' = Append(replies, reply) /\ live' = AfterCall(reply, n, max)
  BY DEF Call
<1>4. Len(replies') = n
  BY <1>1, <1>3
<1> HIDE DEF max, n
<1>5. \/ live' = Crashed
      \/ \E code : live' = Degraded(code, n)
      \/ live' = [live EXCEPT !.at = "verify"]
      \/ live' = live /\ n < max
  BY <1>2, <1>3 DEF AfterCall
<1>6. Stage = "open" /\ Taken = {}
  BY <1>1 DEF Stage, Taken
<1>7. live'.request = live.request /\ Q' = Q
  BY <1>1, <1>5, WaysToEnd DEF Degraded, Q, LiveRecord
<1>8. Kept' /\ Stage' \in {"open", "ended"} /\ Taken' = {}
  <2>1. CASE live' = Crashed \/ \E code : live' = Degraded(code, n)
    <3>1. /\ live'.at = "ended"
          /\ \A r \in live'.result : r.status # "accepted" /\ r.materialization # "accepted"
      BY <1>1, <2>1, WaysToEnd DEF Degraded
    <3> QED BY <1>1, <1>7, <3>1 DEF Kept, Stage, Taken
  <2>2. CASE live' = [live EXCEPT !.at = "verify"]
    BY <1>1, <1>7, <2>2 DEF Kept, Stage, Taken, LiveRecord
  <2>3. CASE live' = live /\ n < max
    BY <1>1, <1>4, <1>7, <2>3 DEF Kept, Stage, Taken, LiveRecord, max
  <2> QED BY <1>5, <2>1, <2>2, <2>3
<1>9. \A q \in live.request : Len(replies) < CallsOf(q)
  BY <1>1, <1>2, OneRequest DEF CallsOf, max
<1>10. Len(replies') = Len(replies) + 1
  BY <1>4 DEF n
<1> QED
  BY <1>6, <1>7, <1>8, <1>9, <1>10 DEF Contract!Next, Contract!Call

(* What is accepted is the one answer to the last call.                    *)
LEMMA VerifyRefines ==
  ASSUME LiveInv, Kept, Verify
  PROVE  Kept' /\ Contract!Next
<1>1. /\ LiveRecord /\ live.at = "verify" /\ live.result = {} /\ live.asked
      /\ replies \in Seq(Replies) /\ Len(replies) > 0 /\ replies' = replies
  BY DEF LiveInv, LiveRecord, CallsInOrder, Kept, Verify, Turn
<1>2. PICK q \in live.request, o \in Last(replies).output :
        live' = IF OutputCode(q.in, o) = "none"
                THEN MakeResult("accepted", "none", Len(replies))
                ELSE MakeResult("rejected", "VERIFIER_REJECTED", Len(replies))
  BY DEF Verify, Turn
<1>3. q = Q
  BY <1>1, OneRequest
<1>4. o \in Answers /\ LastAnswer = o
  <2>1. Last(replies) \in Replies
    BY <1>1 DEF Last
  <2> QED BY <2>1 DEF Replies, Reply, LastAnswer
<1>5. CASE OutputCode(q.in, o) = "none"
  <2> DEFINE r == [status |-> "accepted", attempts |-> Len(replies),
                   materialization |-> "accepted"]
  <2>1. live' = [live EXCEPT !.at = "ended", !.failure = "none", !.result = {r}]
    BY <1>2, <1>5 DEF MakeResult
  <2>2. r.status = "accepted" /\ r.materialization = "accepted"
    OBVIOUS
  <2> HIDE DEF r
  <2>3. /\ live'.at = "ended" /\ live'.request = live.request /\ live'.result = {r}
        /\ LastAnswer' = LastAnswer /\ Q' = Q
    BY <1>1, <2>1 DEF LiveRecord, LastAnswer, Q
  <2>4. Grounded(Q, o)
    BY <1>3, <1>4, <1>5, AcceptedOutputs
  <2>5. Grounded(Q, LastAnswer)'
    BY <1>4, <2>3, <2>4 DEF Grounded, History
  <2>6. Kept'
    BY <1>1, <2>2, <2>3, <2>5 DEF Kept
  <2>7. Stage = "open" /\ Stage' = "ended" /\ Taken' = {o}
    BY <1>1, <1>4, <2>2, <2>3 DEF Stage, Taken
  <2>8. \A p \in live.request : Grounded(p, o)
    BY <1>1, <2>4, OneRequest
  <2>9. Contract!Take(o)
    BY <1>1, <2>3, <2>7, <2>8 DEF Contract!Take
  <2> QED BY <1>4, <2>6, <2>9 DEF Contract!Next
<1>6. CASE OutputCode(q.in, o) # "none"
  BY <1>1, <1>2, <1>6, WaysToEnd, EndsEmpty
<1> QED BY <1>5, <1>6

(* What is run again begins anew, whatever it took before.                 *)
LEMMA RunAgainRefines ==
  ASSUME LiveInv, Kept, NEW place \in {"queued", "preflight"}, RunAgain(place)
  PROVE  Kept' /\ Contract!Next
<1>1. /\ live.at = "ended" /\ live'.at = place /\ ~live'.asked
      /\ live'.request = live.request /\ live'.result = {} /\ replies' = <<>>
  BY DEF LiveInv, LiveRecord, RunAgain
<1>2. Kept'
  BY <1>1 DEF Kept
<1>3. Taken' = {}
  BY <1>1 DEF Taken
<1>4. Stage = "ended" /\ Stage' = "closed"
  BY <1>1 DEF Stage
<1> QED
  BY <1>1, <1>2, <1>3, <1>4 DEF Contract!Next, Contract!Repeat

LEMMA DispatchRefines ==
  ASSUME LiveInv, Kept, NEW q \in Requests, Dispatch(q)
  PROVE  Kept' /\ Contract!Next
<1>1. /\ live.at = "idle" /\ live'.at = "preflight" /\ live'.request = {q}
      /\ live.result = {} /\ live'.result = {} /\ replies' = replies
      /\ ~live.asked /\ ~live'.asked
  BY DEF LiveInv, LiveRecord, Established, Dispatch, Turn
<1>2. Kept'
  BY <1>1 DEF Kept
<1>3. Taken = {} /\ Taken' = {}
  BY <1>1 DEF Taken
<1>4. Stage = "none" /\ Stage' = "closed"
  BY <1>1 DEF Stage
<1> QED
  BY <1>1, <1>2, <1>3, <1>4 DEF Contract!Next, Contract!Start

LEMMA QuietRefines ==
  ASSUME Kept, MoveMain \/ UNCHANGED vars
  PROVE  Kept' /\ UNCHANGED Contract!vars
<1>1. live' = live /\ replies' = replies
  BY DEF MoveMain, vars
<1>2. Kept'
  BY <1>1 DEF Kept, Q, LastAnswer, Grounded, History
<1> QED
  BY <1>1, <1>2 DEF Contract!vars, Stage, Taken, LastAnswer

LEMMA NextRefines ==
  LiveInv /\ Kept /\ [Next]_vars => Kept' /\ [Contract!Next]_(Contract!vars)
BY DispatchRefines, ChecksRefine, StartLiveRefines, AskOidcRefines,
   ExchangeRefines, CallRefines, VerifyRefines, RunAgainRefines, QuietRefines
   DEF Next, Step, RerunLive, RerunAll

LEMMA InitRefines == Init => Kept /\ Contract!Init
BY DEF Init, Idle, Kept, Contract!Init, Stage, Taken

(* A result is accepted only if the answer to the last call is grounded in *)
(* the request: the checks of the verifier, whichever fails first, add up  *)
(* to what may be materialised of an output.                               *)
THEOREM AcceptedAlwaysGrounded == Spec => []AcceptedIsGrounded
<1>1. Kept => AcceptedIsGrounded
  BY DEF Kept, AcceptedIsGrounded
<1> QED
  BY <1>1, InitRefines, NextRefines, RunsAreInOrder, PTL DEF Spec

(* The boundary implements its contract, however often a run is attempted: *)
(* the paid service is closed to each attempt until the request is admitted*)
(* by it, none calls it more often than the request allows, and none takes *)
(* more than one answer, a grounded one.                                   *)
THEOREM BoundaryImplementsContract == Spec => ImplementsContract
<1> QED
  BY InitRefines, NextRefines, RunsAreInOrder, PTL
     DEF Spec, ImplementsContract, Contract!Spec
=============================================================================
