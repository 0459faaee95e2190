------------------------------ MODULE KnowledgeMC -----------------------------
(***************************************************************************)
(* Instances for TLC of what keeps the project's knowledge: the gate on    *)
(* Knowledge Deltas, the historical claim ledger and its publication, and  *)
(* the semantic batch.  Each behaviour is of one of them; the ledger's two *)
(* questions, which ledgers there are and how they are published, are      *)
(* asked apart.                                                            *)
(***************************************************************************)
EXTENDS KnowledgeDeltaGate, HistoricalLedger, SemanticBatch

CONSTANTS s1, s2, r1, r2

VARIABLE program

(* Two milestones share an Issue number: a task may have moved.            *)
SomeKeys == {[milestone |-> 5, issue |-> 1], [milestone |-> 6, issue |-> 1],
             [milestone |-> 6, issue |-> 2]}

-----------------------------------------------------------------------------
Record(key, identity, status, sup, by, con) ==
  [key |-> key, identity |-> identity, status |-> status,
   rel |-> ("supersedes" :> sup) @@ ("superseded_by" :> by) @@ ("conflicts_with" :> con)]

(* A corpus needs a record of either source class: each of these stands for*)
(* itself with a further record that is related to nothing.                *)
(*                                                                         *)
(* Every pair of records, relations, shared identities and all ...         *)
Pairs ==
  {{Record("p", 1, c[1], r[1], r[2], r[3]), Record("q", id, c[2], r[4], r[5], r[6])} :
     c \in ClaimStatuses \X ClaimStatuses, id \in {1, 2},
     r \in {{}, {"q"}} \X {{}, {"q"}} \X {{}, {"q"}}
             \X {{}, {"p"}} \X {{}, {"p"}} \X {{}, {"p"}}}

(* ... and chains, branches and cycles of three.                           *)
Triples ==
  {{Record("p", 1, c[1], {}, {"q"}, {}),
    Record("q", 2, c[2], s, {"o"}, n),
    Record("o", 3, c[3], {"q"}, t, m)} :
     c \in {"supported", "superseded", "contradicted"} \X {"superseded", "contradicted"}
             \X {"supported", "superseded"},
     s \in {{}, {"p"}, {"p", "q"}}, t \in {{}, {"p"}}, n \in {{}, {"o"}}, m \in {{}, {"q"}}}

Published == {{Record("p", 1, "supported", {}, {}, {})},
              {Record("p", 1, "superseded", {}, {"q"}, {}),
               Record("q", 2, "supported", {"p"}, {}, {})}}

(* A status that the contract does not know.                               *)
Misstated == {{Record("p", 1, "rejected", {}, {}, {})}}

AllCorpora == Pairs \cup Triples \cup Published \cup Misstated

-----------------------------------------------------------------------------
Signal(kind) == [kind |-> kind, named |-> TRUE, count |-> 1, countThreshold |-> 2,
                 bytes |-> 9, byteThreshold |-> 9, required |-> 5, budget |-> 4,
                 gap |-> TRUE, affected |-> 2]

Plain(id, bytes, key) == Row(id, bytes, key, {}, {}, {})

Later == [frozen |-> FALSE, frontier |-> <<>>]
First == [frozen |-> TRUE, frontier |-> <<6, 7>>]

OfferOf(rows, conflicts, limit, trigger, config) ==
  [rows |-> rows, conflicts |-> conflicts, limit |-> limit,
   trigger |-> trigger, config |-> config]

(* Sources of every size; *)
Sized ==
  {OfferOf(<<Plain(3, z[1], 6), Plain(1, z[2], 7), Plain(2, z[3], 8), Plain(4, z[4], 9)>>,
           {}, 4, Signal("unprocessed_kd_threshold"), Later) :
     z \in (1..3) \X (1..3) \X (1..4) \X (1..3)}

(* sources that were superseded or contradict each other, recorded so by   *)
(* both, or by one of them only;                                           *)
Group == [id |-> "k", sources |-> {1, 2}]

Related ==
  {OfferOf(<<Row(1, 2, 6, {"k"}, {}, {}), Row(2, 2, 7, c, {3}, by[1]),
             Row(3, 2, 8, {}, {}, by[2])>>,
           {Group}, 4, Signal("milestone_boundary"), Later) :
     c \in {{}, {"k"}}, by \in {{}, {1}, {2}} \X {{}, {1}, {2}}}

(* the frozen batch, in and out of its frontier;                           *)
Frozen ==
  {OfferOf(rows, {}, 4, Signal("knowledge_health_signal"), First) :
     rows \in {<<Plain(5, 3, 6), Plain(2, 1, 7), Plain(1, 1, 0), Plain(3, 1, 0)>>,
               <<Plain(5, 3, 6), Plain(1, 1, 0), Plain(3, 1, 0)>>,
               <<Plain(5, 3, 7), Plain(2, 1, 6), Plain(1, 1, 0), Plain(3, 1, 0)>>,
               <<Plain(5, 5, 6), Plain(2, 1, 7), Plain(1, 1, 0), Plain(3, 1, 0)>>}}

(* a batch of nothing and one whose partitions may be of no size;          *)
Empty ==
  {OfferOf(rows, {}, limit, Signal("milestone_boundary"), Later) :
     rows \in {<<>>, <<Plain(1, 0, 6)>>}, limit \in {0, 4}}

(* and signals that are no reason.                                         *)
Unfounded ==
  {OfferOf(<<Plain(1, 1, 6)>>, {}, 4, t, Later) :
     t \in {[Signal("milestone_boundary") EXCEPT !.named = FALSE],
            [Signal("unprocessed_kd_threshold") EXCEPT !.bytes = 8],
            [Signal("task_context_budget_need") EXCEPT !.budget = 5],
            [Signal("knowledge_health_signal") EXCEPT !.gap = FALSE],
            [Signal("knowledge_health_signal") EXCEPT !.affected = 0],
            Signal("task_context_budget_need"), Signal("nightly")}}

SomeOffers == Sized \cup Related \cup Frozen \cup Empty \cup Unfounded

SomeArtifacts ==
  {[sources |-> s, labels |-> l, conflicts |-> k, superseded |-> o, public |-> p] :
     s \in {{1}, {2, 3}, {3}, {9}}, l \in {{}, {"conflict"}, {"conflict", "superseded"}},
     k \in {{}, {"k"}}, o \in {{}, {2}, {3}}, p \in BOOLEAN}

-----------------------------------------------------------------------------
Knowledge == <<gateVars, ledgerVars, batchVars, program>>

InitKnowledge ==
  /\ InitTree /\ InitLedger /\ InitBatch
  /\ program \in {"gate", "ledger", "publication", "batch"}

GateStep ==
  /\ program = "gate"
  /\ GateNext
  /\ UNCHANGED <<ledgerVars, batchVars, program>>

LedgerStep ==
  /\ program \in {"ledger", "publication"}
  /\ LedgerNext
  /\ program = "ledger" => session'[s2] = InitSession /\ context'.head <= 1
  /\ program = "publication" => \A s \in Sessions : session'[s].corpus \in {{}} \cup Published
  /\ UNCHANGED <<gateVars, batchVars, program>>

BatchStep ==
  /\ program = "batch"
  /\ BatchNext
  /\ UNCHANGED <<gateVars, ledgerVars, program>>

NextKnowledge == GateStep \/ LedgerStep \/ BatchStep

KnowledgeSpec == InitKnowledge /\ [][NextKnowledge]_Knowledge

(* What every program keeps: a ledger where one was generated, a job for   *)
(* each request, results for candidates only, a manifest and a result      *)
(* where a batch has passed them.                                          *)
TypeOK == LedgerTypeOK /\ BatchOK
=============================================================================
