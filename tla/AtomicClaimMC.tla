---------------------------- MODULE AtomicClaimMC ----------------------------
(***************************************************************************)
(* Instances of AtomicClaim for TLC.                                       *)
(***************************************************************************)
EXTENDS AtomicClaim, TLC

CONSTANTS s1, s2, t1, t2, b1, b2, w

(* b1 and b2 carry a task id in their name, w fits every task.             *)
OwnBranches == [b \in Branches |-> CASE b = b1 -> {t1}
                                     [] b = b2 -> {t2}
                                     [] OTHER -> Tasks]

Independent == [t \in Tasks |-> <<>>]

(* t2 waits for t1.                                                        *)
Chained == [t \in Tasks |-> IF t = t2 THEN <<t1>> ELSE <<>>]

Symmetry == Permutations(Sessions)
=============================================================================
