----------------------------- MODULE PublisherMC -----------------------------
(***************************************************************************)
(* Instances of Publisher for TLC: how often the environment may act, what *)
(* validation says of the bodies in use, and which constants may be        *)
(* exchanged for one another.                                              *)
(***************************************************************************)
EXTENDS Publisher, TLC

CONSTANTS i1, b1, b2, x, y,  (* values of Ids, Branches and Bodies         *)
          wild, lost, bad     (* bodies that are not good, see MixedBodies   *)

Nothing == [b \in Bounded |-> 0]

(* Two ids or two branches with three comments, a killed job and a rerun:  *)
(* jobs of different groups work side by side on one request id.           *)
RaceBudget ==
  [Nothing EXCEPT !["post"] = 3, !["rerun"] = 1, !["crash"] = 1,
                  !["release"] = 1]

(* A request delivered again and again while its branch is rewound, and    *)
(* each fault happens once: with RaceBudget, every step of the environment *)
(* and of the job takes place.                                             *)
FaultBudget ==
  [Nothing EXCEPT !["post"] = 2, !["rerun"] = 1, !["push"] = 1,
                  !["rewind"] = 1, !["crash"] = 1, !["api"] = 1,
                  !["pushfail"] = 1, !["lostack"] = 1]

(* Three comments for one branch, so that jobs wait, replace each other in *)
(* the queue, are killed and run again.                                    *)
EndsBudget ==
  [Nothing EXCEPT !["post"] = 3, !["rerun"] = 1, !["crash"] = 1]

(* Three comments and nothing going wrong.                                 *)
PoisonBudget == [Nothing EXCEPT !["post"] = 3]

(* One request whose job is killed once and run again.                     *)
OrphanBudget ==
  [Nothing EXCEPT !["post"] = 1, !["crash"] = 1, !["rerun"] = 1]

AllGood == [w \in Bodies |-> "good"]

(* One body of each class.                                                 *)
MixedBodies ==
  [w \in Bodies |-> CASE w = wild -> "malformed"
                      [] w = lost -> "misplaced"
                      [] w = bad  -> "denied"
                      [] OTHER    -> "good"]

Symmetry == Permutations(Branches) \cup Permutations(Bodies)

(* The owner reruns a job that died, as long as the budget lasts.          *)
RerunSpec ==
  /\ FairSpec
  /\ \A k \in 1 .. MaxLog :
       WF_vars(k \in Slots /\ Phase(k) = "dead" /\ Rerun(k))
=============================================================================
