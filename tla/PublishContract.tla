--------------------------- MODULE PublishContract ---------------------------
(***************************************************************************)
(* What the publisher promises about the branches it writes, with jobs,    *)
(* comments, replicas and crashes left out: a publication is one atomic    *)
(* compare-and-set of the branch against the head its request names, a     *)
(* request id stands for one request, and a request that has been          *)
(* confirmed is never published again and never confirmed differently.     *)
(***************************************************************************)
EXTENDS Naturals

CONSTANTS Branches, Requests

VARIABLES
  head,       (* head of each branch                                       *)
  published,  (* publications made: which request put which commit there   *)
  confirmed   (* publications reported as successful                       *)

vars == <<head, published, confirmed>>

Publication == [req: Requests, commit: Nat]

Init ==
  /\ head = [b \in Branches |-> 0]
  /\ published = {}
  /\ confirmed = {}

(* Other writers may do anything to a branch.                              *)
Move(b) ==
  /\ head'[b] \in Nat
  /\ head' = [head EXCEPT ![b] = head'[b]]
  /\ UNCHANGED <<published, confirmed>>

(* The branch is exactly at the head the request expects, no other request *)
(* owns its id, and it has not been confirmed before.                      *)
Publish(p) ==
  /\ p \in Publication
  /\ head[p.req.branch] = p.req.base
  /\ \A q \in published : q.commit # p.commit
  /\ \A q \in published : q.req.id = p.req.id => q.req = p.req
  /\ \A q \in confirmed : q.req # p.req
  /\ head' = [head EXCEPT ![p.req.branch] = p.commit]
  /\ published' = published \cup {p}
  /\ UNCHANGED confirmed

(* Only what was published is confirmed, and one publication per id.       *)
Confirm(p) ==
  /\ p \in published
  /\ \A q \in confirmed : q.req.id = p.req.id => q = p
  /\ confirmed' = confirmed \cup {p}
  /\ UNCHANGED <<head, published>>

Next ==
  \/ \E b \in Branches : Move(b)
  \/ \E p \in published' \ published : Publish(p)
  \/ \E p \in published : Confirm(p)

Spec == Init /\ [][Next]_vars
=============================================================================
