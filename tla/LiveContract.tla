----------------------------- MODULE LiveContract -----------------------------
(***************************************************************************)
(* What the trusted OpenAI boundary promises of each attempt of a run, its *)
(* jobs, tokens, protected main and failures left out: the paid service is *)
(* closed until the request is admitted, no more calls are made than the   *)
(* request allows, and no more than one answer is taken, if it is grounded *)
(* in the request.  A run may be attempted again, whatever came of it: all *)
(* attempts together may make more calls and take more answers than that.  *)
(***************************************************************************)
EXTENDS Naturals

CONSTANTS Requests, Answers, Admissible(_), MaxCalls(_), Grounded(_, _)

VARIABLES
  job,       (* the request of the run, a set of at most one               *)
  stage,     (* "none", "closed", "open" or "ended"                        *)
  calls,     (* calls made in this attempt                                 *)
  taken      (* the answer it took, a set of at most one                   *)

vars == <<job, stage, calls, taken>>

Init == job = {} /\ stage = "none" /\ calls = 0 /\ taken = {}

Start(q) ==
  /\ stage = "none"
  /\ job' = {q}
  /\ stage' = "closed"
  /\ UNCHANGED <<calls, taken>>

Open ==
  /\ stage = "closed"
  /\ \A q \in job : Admissible(q)
  /\ stage' = "open"
  /\ UNCHANGED <<job, calls, taken>>

Call ==
  /\ stage = "open"
  /\ \A q \in job : calls < MaxCalls(q)
  /\ calls' = calls + 1
  /\ stage' \in {"open", "ended"}
  /\ UNCHANGED <<job, taken>>

Take(o) ==
  /\ stage = "open" /\ calls > 0
  /\ \A q \in job : Grounded(q, o)
  /\ taken' = {o}
  /\ stage' = "ended"
  /\ UNCHANGED <<job, calls>>

End ==
  /\ stage \in {"closed", "open"}
  /\ stage' = "ended"
  /\ UNCHANGED <<job, calls, taken>>

(* Another attempt begins anew; it knows nothing of the one before.        *)
Repeat ==
  /\ stage = "ended"
  /\ stage' = "closed" /\ calls' = 0 /\ taken' = {}
  /\ UNCHANGED job

Next ==
  \/ Open \/ Call \/ End \/ Repeat
  \/ \E q \in Requests : Start(q)
  \/ \E o \in Answers : Take(o)

Spec == Init /\ [][Next]_vars
=============================================================================
