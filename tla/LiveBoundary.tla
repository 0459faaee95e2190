----------------------------- MODULE LiveBoundary -----------------------------
(***************************************************************************)
(* The trusted OpenAI boundary (openai_live_boundary.py) in the two jobs   *)
(* of its workflow: `preflight` checks the request without a credential,   *)
(* `live` reads protected main again, makes the same checks, and only then *)
(* asks for an OIDC token, exchanges it, calls the provider a bounded      *)
(* number of times and has the answer judged by SemanticContract.          *)
(*                                                                         *)
(* The workflow has one concurrency group, so that one run at a time is    *)
(* modelled; the run, or its live job, may be run again when it has ended, *)
(* also when it has succeeded.  Meanwhile others move protected main.      *)
(* Every request over the network may fail in a way the code has a code    *)
(* for, or with an exception it does not catch.                            *)
(***************************************************************************)
EXTENDS SemanticContract

CONSTANTS
  Requests,    (* protected requests: [in, bound, pack]                    *)
  Answers,     (* outputs the model may return                             *)
  Moves,       (* bound: how often others move main                        *)
  Reruns       (* bound: how often the run or its live job is run again    *)

ASSUME BoundsAssumption == Moves \in Nat /\ Reruns \in Nat

(* The schema of an input asks for one attempt at least; an output lists   *)
(* its artifacts, and each of them its sources.                            *)
ASSUME AttemptsAssumption ==
  \A q \in Requests : q.in.wellFormed => q.in.budgets.attempts \in Nat \ {0}
ASSUME AnswersAssumption ==
  \A o \in Answers :
    /\ o.artifacts \in Seq(ToSet(o.artifacts))
    /\ \A a \in ToSet(o.artifacts) : a.sources \in Seq(ToSet(a.sources))

VARIABLES
  main,        (* protected main, counted                                  *)
  live,        (* the run: where it is, what it has found and returned     *)
  replies,     (* what the provider did at each call of the live job       *)
  mainAtStart, (* history: main when the live job began                    *)
  reruns       (* how often the run or its live job was run again          *)

vars == <<main, live, replies, mainAtStart, reruns>>

(* LIVE_CAPS, in the units of the instance, on top of the input's budgets. *)
LiveCaps == [inputBytes |-> 8, inputTokens |-> 8, outputBytes |-> 8,
             outputTokens |-> 8, attempts |-> 2]

(* The failure codes the schema of a result knows.                         *)
ResultCodes ==
  {"WIF_CONFIGURATION_ABSENT", "OIDC_TOKEN_UNAVAILABLE", "OIDC_CLAIM_MISMATCH",
   "TOKEN_EXCHANGE_REJECTED", "WIF_SCOPE_MISMATCH", "WIF_TOKEN_LIFETIME_INVALID",
   "TIMEOUT", "TRANSIENT_PROVIDER_ERROR", "RATE_LIMITED", "RETRY_EXHAUSTED",
   "PROVIDER_AUTH_REJECTED", "PROVIDER_REQUEST_REJECTED", "MALFORMED_RESPONSE",
   "UNSUPPORTED_SCHEMA_VERSION", "VERIFIER_REJECTED", "PROVIDER_FAILURE"}

Idle == [at |-> "idle", request |-> {}, sha |-> 0, asked |-> FALSE,
         failure |-> "none", result |-> {}]

Init ==
  /\ main = 0
  /\ live = Idle
  /\ replies = <<>>
  /\ mainAtStart = {}
  /\ reruns = 0

Q == CHOOSE q \in live.request : TRUE

Turn(d) == live' = d /\ UNCHANGED <<main, replies, mainAtStart, reruns>>

(* The process ends with a typed code printed, with an uncaught exception, *)
(* or with a result.                                                       *)
Stopped(code) == [live EXCEPT !.at = "ended", !.failure = code]
Crashed == [live EXCEPT !.at = "ended", !.failure = "exception"]

(* _make_result validates what it made against the schema of a result,     *)
(* which knows the codes above; what it raises nobody catches.             *)
MakeResult(status, failure, attempts) ==
  IF failure \in ResultCodes \cup {"none"}
  THEN [live EXCEPT !.at = "ended", !.failure = failure,
                    !.result = {[status |-> status, attempts |-> attempts,
                                 materialization |-> IF status = "accepted"
                                                     THEN "accepted" ELSE "none"]}]
  ELSE [Crashed EXCEPT !.failure = failure]

-----------------------------------------------------------------------------
(* validate_live_request: what can be told from the request alone.  That   *)
(* tools and storage are off is part of the schema already.                *)
RequestCode(q) ==
  FirstFailure(<<Check("REQUEST_ID_MISMATCH", q.bound),
                 InputCode(q.in),
                 Check("LIVE_BUDGET_EXCEEDED",
                       \A b \in DOMAIN LiveCaps : q.in.budgets[b] <= LiveCaps[b])>>)

(* The checks a job makes of its request and, unless the pack cannot be    *)
(* fetched, of the task-context pack: its bytes are those of the commit    *)
(* and path the request names, whoever fetches them.                       *)
PublicChecks(next) ==
  LET code == RequestCode(Q)
      packCode == CASE Q.pack = "exact" -> "none"
                    [] Q.pack = "digest" -> "TASK_CONTEXT_DIGEST_MISMATCH"
                    [] Q.pack = "secret" -> "PUBLIC_DATA_VIOLATION"
                    [] OTHER -> "TASK_CONTEXT_INVALID"
  IN  IF code # "none" THEN Turn(Stopped(code))
      ELSE \/ Turn(IF packCode = "none" THEN [live EXCEPT !.at = next]
                   ELSE Stopped(packCode))
           \/ Turn(Stopped("TASK_CONTEXT_UNAVAILABLE"))
           \/ Turn(Crashed)

Dispatch(q) ==
  /\ live.at = "idle"
  /\ Turn([live EXCEPT !.at = "preflight", !.request = {q}, !.sha = main])

Preflight == live.at = "preflight" /\ PublicChecks("queued")

(* The live job waits for a runner.                                        *)
StartLive ==
  /\ live.at = "queued"
  /\ live' = [live EXCEPT !.at = "reverify"]
  /\ replies' = <<>>
  /\ mainAtStart' = {main}
  /\ UNCHANGED <<main, reruns>>

(* Mutants of Reverify: main is not read again; a run for which main has   *)
(* moved waits.                                                            *)
ReverifyNothing == live.at = "reverify" /\ Turn([live EXCEPT !.at = "execute"])

ReverifyWaiting ==
  live.at = "reverify" /\ main = live.sha /\ Turn([live EXCEPT !.at = "execute"])

Reverify ==
  /\ live.at = "reverify"
  /\ \/ Turn(IF main = live.sha THEN [live EXCEPT !.at = "execute"]
             ELSE Stopped("main moved"))
     \/ Turn(Crashed)

(* load_request, assert_runtime_context and context_check.  The runtime is *)
(* the one that was dispatched; what it may be otherwise is not modelled.  *)
Execute == live.at = "execute" /\ PublicChecks("oidc")

-----------------------------------------------------------------------------
(* Mutant of Degraded: the calls made before a failure are forgotten.      *)
DegradedUnattempted(code, attempts) == MakeResult("degraded", code, 0)

Degraded(code, attempts) == MakeResult("degraded", code, attempts)

(* acquire_wif_credential up to the exchange.  Without the metadata or the *)
(* capability no token is asked for.                                       *)
AskOidc ==
  /\ live.at = "oidc"
  /\ \/ \E code \in {"WIF_CONFIGURATION_ABSENT", "OIDC_TOKEN_UNAVAILABLE"} :
          Turn(Degraded(code, 0))
     \/ \E code \in {"OIDC_TOKEN_UNAVAILABLE", "OIDC_TOKEN_INVALID", "OIDC_CLAIM_MISMATCH"} :
          Turn([Degraded(code, 0) EXCEPT !.asked = TRUE])
     \/ Turn([Crashed EXCEPT !.asked = TRUE])
     \/ Turn([live EXCEPT !.at = "exchange", !.asked = TRUE])

(* The rest of it: the exchange, and what the token must be.               *)
Exchange ==
  /\ live.at = "exchange"
  /\ \/ \E code \in {"TOKEN_EXCHANGE_REJECTED", "WIF_TOKEN_LIFETIME_INVALID",
                     "WIF_SCOPE_MISMATCH"} : Turn(Degraded(code, 0))
     \/ Turn(Crashed)
     \/ Turn([live EXCEPT !.at = "call"])

Reply(kind, output) == [kind |-> kind, output |-> output]

Retryable == {"TIMEOUT", "TRANSIENT_PROVIDER_ERROR", "RATE_LIMITED", "MALFORMED_RESPONSE"}

(* What _call_once and _extract_output_text make of a call: a failure with *)
(* a code, an exception without one, or an output.                         *)
Replies ==
  {Reply(k, {}) : k \in Retryable \cup {"PROVIDER_AUTH_REJECTED",
                                        "PROVIDER_REQUEST_REJECTED", "exception"}}
    \cup {Reply("answer", {o}) : o \in Answers}

(* Mutants of AfterCall: a code that is not retryable is tried again; one  *)
(* call too many.                                                          *)
AfterCallAlways(reply, attempt, max) ==
  CASE reply.kind = "exception" -> Crashed
    [] reply.kind = "answer" /\ \E o \in reply.output : o.schema = "v1"
         -> [live EXCEPT !.at = "verify"]
    [] reply.kind # "exception" /\ attempt < max -> live
    [] OTHER -> Degraded("RETRY_EXHAUSTED", attempt)

AfterCallOnceMore(reply, attempt, max) ==
  CASE reply.kind = "exception" -> Crashed
    [] reply.kind = "answer" -> [live EXCEPT !.at = "verify"]
    [] reply.kind \in Retryable /\ attempt <= max -> live
    [] OTHER -> Degraded("RETRY_EXHAUSTED", attempt)

(* The body of perform_provider_call's loop, after the call was made.      *)
AfterCall(reply, attempt, max) ==
  CASE reply.kind = "exception" -> Crashed
    [] reply.kind = "answer" /\ \E o \in reply.output : o.schema = "v1"
         -> [live EXCEPT !.at = "verify"]
    [] reply.kind = "answer" /\ \A o \in reply.output : o.schema # "v1"
         -> Degraded("UNSUPPORTED_SCHEMA_VERSION", attempt)
    [] reply.kind \in Retryable /\ attempt < max -> live
    [] reply.kind \in Retryable /\ attempt = max -> Degraded("RETRY_EXHAUSTED", attempt)
    [] OTHER -> Degraded(reply.kind, attempt)

Call ==
  /\ live.at = "call"
  /\ \E reply \in Replies :
       /\ replies' = Append(replies, reply)
       /\ live' = AfterCall(reply, Len(replies) + 1, Q.in.budgets.attempts)
  /\ UNCHANGED <<main, mainAtStart, reruns>>

LastAnswer == CHOOSE o \in Last(replies).output : TRUE

(* The end of execute_live: the token is gone, the verifier decides.       *)
Verify ==
  /\ live.at = "verify"
  /\ \E q \in live.request, o \in Last(replies).output :
       Turn(IF OutputCode(q.in, o) = "none"
            THEN MakeResult("accepted", "none", Len(replies))
            ELSE MakeResult("rejected", "VERIFIER_REJECTED", Len(replies)))

(* Mutant of RerunLive: the result of the earlier job stays.               *)
RerunKeepsResult ==
  /\ live.at = "ended" /\ mainAtStart # {} /\ reruns < Reruns
  /\ live' = [live EXCEPT !.at = "queued", !.asked = FALSE]
  /\ reruns' = reruns + 1
  /\ UNCHANGED <<main, replies, mainAtStart>>

(* GitHub runs again what has ended, on the same commit; the processes are *)
(* new ones, and nothing asks which attempt of the run it is, or whether an*)
(* earlier one was accepted.                                               *)
RunAgain(place) ==
  /\ live.at = "ended" /\ reruns < Reruns
  /\ live' = [live EXCEPT !.at = place, !.asked = FALSE, !.failure = "none",
                          !.result = {}]
  /\ reruns' = reruns + 1
  /\ replies' = <<>>
  /\ mainAtStart' = {}
  /\ UNCHANGED main

(* The live job alone, without another preflight, or all jobs.             *)
RerunLive == mainAtStart # {} /\ RunAgain("queued")

RerunAll == RunAgain("preflight")

(* Others merge into protected main.  (Nothing reads it after Reverify; its *)
(* moves after Execute are left out.)                                      *)
MoveMain ==
  /\ live.at \in {"preflight", "queued", "reverify", "execute"} /\ main < Moves
  /\ main' = main + 1
  /\ UNCHANGED <<live, replies, mainAtStart, reruns>>

Step ==
  \/ Preflight \/ StartLive \/ Reverify \/ Execute
  \/ AskOidc \/ Exchange \/ Call \/ Verify

Next ==
  \/ \E q \in Requests : Dispatch(q)
  \/ Step \/ RerunLive \/ RerunAll \/ MoveMain

(* Runners come free, and no request over the network is without a timeout.*)
Spec == Init /\ [][Next]_vars /\ WF_vars(Step)

-----------------------------------------------------------------------------
LiveOK ==
  /\ live.at \in {"idle", "preflight", "queued", "reverify", "execute", "oidc",
                  "exchange", "call", "verify", "ended"}
  /\ live.at # "idle" => live.request # {}
  /\ live.at = "verify" => Last(replies).output # {}
  /\ live.result # {} => live.at = "ended"

(* No OIDC token is asked for, not even by a live job that is run again,   *)
(* unless every public check of the request and of its pack holds and main *)
(* was at the run's commit when the live job began (the order the ADR of   *)
(* the boundary calls mandatory).                                          *)
CredentialAfterChecks ==
  live.asked =>
    /\ RequestCode(Q) = "none" /\ Q.pack = "exact"
    /\ mainAtStart = {live.sha}

(* Every call is accounted for: a result reports as many attempts as calls *)
(* were made, those included that timed out and may have been executed.    *)
AttemptsAreCalls ==
  \A r \in live.result : r.attempts = Len(replies)

(* The provider is asked again only after a failure that may pass.         *)
NoCallAfterAnswer ==
  \A i \in DOMAIN replies : i < Len(replies) => replies[i].kind \in Retryable

(* What may be materialised of an output, stated as a whole: it speaks of  *)
(* this input and of the history as it is, every artifact rests on sources *)
(* of the input and on no other; whatever it takes from one side of a      *)
(* conflict or from a source that was superseded is marked so, and it keeps*)
(* to the budget.                                                          *)
Grounded(q, o) ==
  LET in == q.in
      marked(a, s) ==
        /\ \A k \in in.conflicts : s \in k.sources => k.id \in a.conflicts
        /\ (\E r \in in.supersessions : r.old = s) => s \in a.superseded
  IN  /\ o.class = "derived" /\ o.of = in.id /\ o.history = History(in)
      /\ ToSet(o.artifacts) # {}
      /\ \A a \in ToSet(o.artifacts) :
           /\ a.public
           /\ ToSet(a.sources) # {} /\ ToSet(a.sources) \subseteq ToSet(in.sources)
           /\ \A s \in ToSet(a.sources) : marked(a, s)
      /\ OutputBytes(o) <= in.budgets.outputBytes

(* A result is accepted only if the answer to the last call of its live    *)
(* job is grounded in the request.                                         *)
AcceptedIsGrounded ==
  \A r \in live.result :
    r.materialization = "accepted" => Grounded(Q, LastAnswer)

(* What the contract sees of this state.                                   *)
Stage ==
  CASE live.at = "idle" -> "none"
    [] live.at = "ended" -> "ended"
    [] live.at # "ended" /\ live.asked -> "open"
    [] OTHER -> "closed"

Taken == IF \E r \in live.result : r.status = "accepted" THEN {LastAnswer} ELSE {}

Admits(q) == RequestCode(q) = "none" /\ q.pack = "exact"

CallsOf(q) == q.in.budgets.attempts

Contract == INSTANCE LiveContract WITH
  Admissible <- Admits, MaxCalls <- CallsOf,
  job <- live.request, stage <- Stage, calls <- Len(replies), taken <- Taken

(* The boundary implements the contract.                                   *)
ImplementsContract == Contract!Spec

(* Every live job ends: with a result, a code or an exception.             *)
EveryRunEnds == live.at # "idle" ~> live.at = "ended"

(* Whatever fails by a code once a token was asked for is reported in a    *)
(* result that falls back to the deterministic task context.               *)
EveryFailureIsReported ==
  live.at = "ended" /\ live.asked /\ live.failure # "exception" =>
    live.result # {}
=============================================================================
