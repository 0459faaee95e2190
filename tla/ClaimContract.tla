---------------------------- MODULE ClaimContract ----------------------------
(***************************************************************************)
(* What the claim store promises: a task is owned through one branch that  *)
(* no other task has, ownership is never lost, and it passes on only by    *)
(* renewal of that same branch after the lease before it has run out.      *)
(***************************************************************************)
EXTENDS Naturals

CONSTANTS Tasks, Branches, Heads

VARIABLE owner  (* owner[t]: the ownership of task t                       *)

Ownership == [branch: Branches, base: Heads, from: Nat, until: Nat]

Unowned == [from |-> 0, until |-> 0]

Init == owner = [t \in Tasks |-> Unowned]

Acquire(t, o) ==
  /\ owner[t] = Unowned
  /\ \A u \in Tasks : owner[u] # Unowned => owner[u].branch # o.branch
  /\ owner' = [owner EXCEPT ![t] = o]

Renew(t, o) ==
  /\ owner[t] # Unowned
  /\ o.branch = owner[t].branch
  /\ o.base = owner[t].base
  /\ owner[t].until <= o.from
  /\ owner' = [owner EXCEPT ![t] = o]

(* A new ownership has a lease that can be active.                         *)
Next ==
  \E t \in Tasks : LET o == owner'[t]
                   IN  /\ o \in Ownership
                       /\ o.from < o.until
                       /\ Acquire(t, o) \/ Renew(t, o)

Spec == Init /\ [][Next]_owner
=============================================================================
