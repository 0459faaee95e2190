---------------------------- MODULE SemanticBatch ----------------------------
(***************************************************************************)
(* One semantic maintenance batch (semantic_batch_input_config.py,         *)
(* semantic_batch_manifest.py, semantic_batch_result.py).  Sources are     *)
(* frozen, read back and bound to the heads of the moment in a manifest;   *)
(* an agent works through its partitions and hands in coverage rows,       *)
(* results and artifacts, not all of them right; the batch is accepted when*)
(* all of it is verified against a new readback.  Meanwhile the protected  *)
(* heads move: what lands after the freeze belongs to a later batch.       *)
(*                                                                         *)
(* Ids and digests are the content they identify: two objects have the same*)
(* id exactly when they are equal.                                         *)
(***************************************************************************)
EXTENDS Integers, Sequences, FiniteSets, FiniteSetsExt, SequencesExt

CONSTANTS
  Offers,     (* what a batch may be about: [rows, conflicts, limit, trigger, config] *)
  Artifacts,  (* artifacts an agent may hand in                            *)
  HeadMoves   (* bound: how often the heads move during a batch            *)

(* Rows are a list; their ids, which are digests, are in an order, and     *)
(* their sizes are lengths.                                                *)
ASSUME OffersAssumption ==
  \A o \in Offers : /\ DOMAIN o.rows = 1..Len(o.rows) /\ Len(o.rows) \in Nat
                    /\ \A i \in 1..Len(o.rows) :
                         o.rows[i].id \in Nat /\ o.rows[i].bytes \in Nat

VARIABLES
  b,          (* the batch                                                 *)
  atHeads     (* the protected heads, counted together                     *)

batchVars == <<b, atHeads>>

(* A source row: its id (rows are compared by it), size, the task key of a *)
(* Knowledge Delta (0 for the two ledger files), and its relations.        *)
Row(id, bytes, key, conflicts, supersedes, supersededBy) ==
  [id |-> id, bytes |-> bytes, key |-> key, conflicts |-> conflicts,
   supersedes |-> supersedes, supersededBy |-> supersededBy]

Ids(rows) == [i \in DOMAIN rows |-> rows[i].id]

(* _sorted_unique                                                          *)
SortedUnique(ids) == \A i, j \in DOMAIN ids : i < j => ids[i] < ids[j]

-----------------------------------------------------------------------------
(* trigger_satisfied: a signal is the reason for a batch.                  *)
TriggerSatisfied(t) ==
  CASE t.kind = "milestone_boundary" -> t.named
    [] t.kind = "unprocessed_kd_threshold" ->
         t.count >= t.countThreshold \/ t.bytes >= t.byteThreshold
    [] t.kind = "task_context_budget_need" -> t.required > t.budget
    [] t.kind = "knowledge_health_signal" -> t.gap /\ t.affected > 0
    [] OTHER -> FALSE

(* validate_input_config, for the frozen first batch: the exact frontier of*)
(* Knowledge Deltas and the two ledger files, in the order of their keys,  *)
(* as the trigger counted them, without relations.                         *)
ConfigOK(o) ==
  LET deltas == SelectSeq(o.rows, LAMBDA r : r.key # 0)
      ledger == SelectSeq(o.rows, LAMBDA r : r.key = 0)
  IN  /\ IsInjective(Ids(o.rows))
      /\ \A i \in DOMAIN o.rows : o.rows[i].bytes <= o.limit
      /\ [i \in DOMAIN deltas |-> deltas[i].key] = o.config.frontier
      /\ Len(ledger) = 2
      /\ o.trigger.kind = "knowledge_health_signal" /\ o.trigger.affected = Len(deltas)
      /\ o.conflicts = {}
      /\ \A i \in DOMAIN o.rows :
           o.rows[i].supersedes = {} /\ o.rows[i].supersededBy = {}

(* _historical_semantics: groups name known sources, each source its       *)
(* groups, and both ends of a supersession each other.                     *)
HistoricalOK(rows, conflicts) ==
  LET R == ToSet(rows)
      ids == {r.id : r \in R}
      row(id) == CHOOSE r \in R : r.id = id
  IN  /\ \A k \in conflicts : k.sources \subseteq ids /\ Cardinality(k.sources) > 1
      /\ \A j, k \in conflicts : j.id = k.id => j = k
      /\ \A r \in R : r.conflicts = {k.id : k \in {g \in conflicts : r.id \in g.sources}}
      /\ \A r \in R :
           /\ \A old \in r.supersedes :
                old \in ids \ {r.id} /\ r.id \in row(old).supersededBy
           /\ \A new \in r.supersededBy : new \in ids /\ r.id \in row(new).supersedes

Supersessions(rows) ==
  UNION {{[old |-> o, by |-> r.id] : o \in r.supersedes \cap {s.id : s \in ToSet(rows)}} :
           r \in ToSet(rows)}

Bytes(rows) ==
  LET sum[i \in 0..Len(rows)] == IF i = 0 THEN 0 ELSE sum[i - 1] + rows[i].bytes
  IN  sum[Len(rows)]

(* Mutant of Fits: what fills a partition to the last byte starts another. *)
FitsBelow(part, row, limit) == Bytes(part) + row.bytes < limit

Fits(part, row, limit) == Bytes(part) + row.bytes <= limit

(* _build_partitions: source after source into the current partition as    *)
(* long as it fits.                                                        *)
Partitions(rows, limit) ==
  LET parts[i \in 0..Len(rows)] ==
        IF i = 0 THEN <<>>
        ELSE LET before == parts[i - 1]
             IN  IF before # <<>> /\ Fits(Last(before), rows[i], limit)
                 THEN Front(before) \o <<Append(Last(before), rows[i])>>
                 ELSE Append(before, <<rows[i]>>)
  IN  [i \in DOMAIN parts[Len(rows)] |-> Ids(parts[Len(rows)][i])]

(* The largest partition that may be asked for, in bytes.                  *)
MaxPartition == 1000000

ManifestOK(o) ==
  /\ TriggerSatisfied(o.trigger)
  /\ Len(o.rows) > 0
  /\ o.limit \in 1..MaxPartition
  /\ IsInjective(Ids(o.rows))
  /\ HistoricalOK(o.rows, o.conflicts)
  /\ \A i \in DOMAIN o.rows : o.rows[i].bytes <= o.limit

(* Rows in the order of their ids: the i-th has i - 1 smaller ones.        *)
SortedById(rows) ==
  [i \in DOMAIN rows |->
     CHOOSE r \in ToSet(rows) : Cardinality({s \in ToSet(rows) : s.id < r.id}) = i - 1]

(* generate_manifest                                                       *)
ManifestOf(o, at) ==
  LET sources == SortedById(o.rows)
  IN  [heads |-> at, sources |-> sources, required |-> Ids(sources),
       frontier |-> {[key |-> r.key, id |-> r.id] : r \in {s \in ToSet(sources) : s.key # 0}},
       conflicts |-> o.conflicts, supersessions |-> Supersessions(sources),
       limit |-> o.limit, partitions |-> Partitions(sources, o.limit)]

-----------------------------------------------------------------------------
(* Mutant of CoverageOK: compared as sets.                                 *)
CoverageOKAsSet(m, rows) == ToSet(Ids(rows)) = ToSet(m.required)

(* validate_coverage                                                       *)
CoverageOK(m, rows) == SortedUnique(Ids(rows)) /\ Ids(rows) = m.required

(* Mutant of HistoryMarked: new sources are marked instead of old ones.    *)
HistoryMarkedWrongWay(m, a) ==
  LET used == {r \in ToSet(m.sources) : r.id \in a.sources}
      old == {r.id : r \in {s \in used : s.supersedes # {}}}
  IN  old # {} => "superseded" \in a.labels /\ old \subseteq a.superseded

(* What an artifact must say of the history of the sources it is bound to. *)
HistoryMarked(m, a) ==
  LET used == {r \in ToSet(m.sources) : r.id \in a.sources}
      groups == UNION {r.conflicts : r \in used}
      old == {r.id : r \in {s \in used : s.supersededBy # {}}}
  IN  /\ groups # {} => "conflict" \in a.labels /\ groups \subseteq a.conflicts
      /\ old # {} => "superseded" \in a.labels /\ old \subseteq a.superseded

(* validate_result: every source's row is the manifest's, with the status  *)
(* of its coverage; the history is the manifest's; artifacts are bound to  *)
(* known sources and public; the partitions are the manifest's and         *)
(* together its coverage set.                                              *)
ResultOK(m, coverage, r) ==
  /\ SortedUnique(Ids(r.rows)) /\ Ids(r.rows) = m.required
  /\ \A i \in DOMAIN r.rows :
       /\ \E row \in ToSet(coverage) :
            row.id = r.rows[i].id /\ row.status = r.rows[i].status
       /\ r.rows[i].source = m.sources[i]
  /\ r.history = <<m.conflicts, m.supersessions>>
  /\ \A a \in r.artifacts :
       /\ a.sources \subseteq ToSet(m.required) /\ a.public
       /\ HistoryMarked(m, a)
  /\ r.partitions = m.partitions
  /\ FlattenSeq(r.partitions) = m.required

-----------------------------------------------------------------------------
Nothing == [at |-> "idle", offer |-> {}, manifest |-> {}, coverage |-> <<>>,
            result |-> {}]

InitBatch == b = Nothing /\ atHeads = 0

BatchTurn(d) == b' = d /\ UNCHANGED atHeads

RefuseBatch == BatchTurn([b EXCEPT !.at = "refused"])

Offer == CHOOSE o \in b.offer : TRUE
Manifest == CHOOSE m \in b.manifest : TRUE

(* A config is validated as it is loaded; later batches have none yet.     *)
Propose ==
  /\ b.at = "idle"
  /\ \E o \in Offers :
       IF o.config.frozen /\ ~ConfigOK(o) THEN RefuseBatch
       ELSE BatchTurn([b EXCEPT !.at = "read", !.offer = {o}])

(* The sources are read back by commit and path: they are there as they    *)
(* are listed, or one is missing or other bytes (the caller's error).      *)
ReadBack(next) == BatchTurn([b EXCEPT !.at = next]) \/ RefuseBatch

ReadSources == b.at = "read" /\ ReadBack("manifest")

GenerateManifest ==
  /\ b.at = "manifest"
  /\ IF ManifestOK(Offer)
     THEN BatchTurn([b EXCEPT !.at = "cover", !.manifest = {ManifestOf(Offer, atHeads)}])
     ELSE RefuseBatch

Statuses == {"processed", "deferred"}

(* What an agent may hand in for the ids it should cover: all of them, one *)
(* too few, or one twice.                                                  *)
Attempts(ids) ==
  {ids} \cup {RemoveAt(ids, i) : i \in DOMAIN ids}
        \cup {InsertAt(ids, i, ids[i]) : i \in DOMAIN ids}

FinalizeCoverage ==
  /\ b.at = "cover"
  /\ \E ids \in Attempts(Manifest.required), late \in {0} \cup ToSet(Manifest.required) :
       LET rows == [i \in DOMAIN ids |->
                      [id |-> ids[i], status |-> IF ids[i] = late THEN "deferred"
                                                 ELSE "processed"]]
       IN  IF CoverageOK(Manifest, rows)
           THEN BatchTurn([b EXCEPT !.at = "result", !.coverage = rows])
           ELSE RefuseBatch

(* The agent's result: rows for the sources with the coverage and the      *)
(* history they have, or without, and artifacts.                           *)
FinalizeResult ==
  /\ b.at = "result"
  /\ \E honest \in BOOLEAN, A \in {{}} \cup {{a} : a \in Artifacts} :
       LET rows == [i \in DOMAIN Manifest.sources |->
                      [id |-> Manifest.required[i], source |-> Manifest.sources[i],
                       status |-> IF honest /\ i \in DOMAIN b.coverage
                                  THEN b.coverage[i].status ELSE "processed"]]
           history == <<IF honest THEN Manifest.conflicts ELSE {}, Manifest.supersessions>>
           result == [rows |-> rows, history |-> history, artifacts |-> A,
                      partitions |-> Manifest.partitions]
       IN  IF ResultOK(Manifest, b.coverage, result)
           THEN BatchTurn([b EXCEPT !.at = "verify", !.result = {result}])
           ELSE RefuseBatch

(* verify_batch: everything again, with a new readback of the sources.     *)
VerifyBatch ==
  /\ b.at = "verify"
  /\ IF CoverageOK(Manifest, b.coverage)
          /\ \A r \in b.result : ResultOK(Manifest, b.coverage, r)
     THEN ReadBack("accepted") ELSE RefuseBatch

(* New material lands.                                                     *)
Land ==
  /\ atHeads < HeadMoves /\ b.at \in {"read", "manifest", "cover", "result", "verify"}
  /\ atHeads' = atHeads + 1
  /\ UNCHANGED b

BatchNext ==
  \/ Propose \/ ReadSources \/ GenerateManifest
  \/ FinalizeCoverage \/ FinalizeResult \/ VerifyBatch \/ Land

BatchSpec == InitBatch /\ [][BatchNext]_batchVars

-----------------------------------------------------------------------------
BatchOK ==
  /\ b.at \in {"idle", "read", "manifest", "cover", "result", "verify", "accepted", "refused"}
  /\ b.at \in {"cover", "result", "verify", "accepted"} => b.manifest # {}
  /\ b.at \in {"verify", "accepted"} => b.result # {}

(* Partitions are the sources in order, cut so that each part is within    *)
(* the limit, and no way to cut them into fewer parts exists.              *)
PartitionsAreFewest ==
  \A m \in b.manifest :
    LET n == Len(m.sources)
        part(cuts, c) ==   (* from cut c to the next one *)
          SubSeq(m.sources, c + 1, Min({n} \cup {d \in cuts : d > c}))
        within(cuts) == \A c \in {0} \cup cuts : Bytes(part(cuts, c)) <= m.limit
    IN  /\ FlattenSeq(m.partitions) = m.required
        /\ \A i \in DOMAIN m.partitions : m.partitions[i] # <<>>
        /\ \A cuts \in SUBSET (1..(n - 1)) :
             within(cuts) => Cardinality(cuts) + 1 >= Len(m.partitions)
        /\ \E cuts \in SUBSET (1..(n - 1)) :
             within(cuts) /\ Cardinality(cuts) + 1 = Len(m.partitions)

(* An accepted batch is about the sources that were proposed, neither more *)
(* nor fewer and each once, whatever its agent left out or landed in the   *)
(* meantime: a Knowledge Delta of its frontier is in its coverage.         *)
FrontierIsCovered ==
  b.at = "accepted" => \A o \in b.offer, r \in b.result :
    LET covered == Ids(b.coverage)
    IN  /\ Len(covered) = Len(o.rows) /\ ToSet(covered) = ToSet(Ids(o.rows))
        /\ \A i \in DOMAIN o.rows : o.rows[i].key # 0 =>
             \E f \in Manifest.frontier : f.key = o.rows[i].key /\ f.id \in ToSet(covered)
        /\ \A i \in DOMAIN covered :
             \E s \in ToSet(r.rows) : s.id = covered[i] /\ s.status = b.coverage[i].status

(* No artifact of an accepted batch takes a side of one of the manifest's  *)
(* conflicts, or uses a source that was superseded, without saying so.     *)
ArtifactsKeepHistory ==
  b.at = "accepted" => \A r \in b.result : \A a \in r.artifacts :
    /\ \A k \in Manifest.conflicts : k.sources \cap a.sources # {} => k.id \in a.conflicts
    /\ \A e \in Manifest.supersessions : e.old \in a.sources => e.old \in a.superseded
=============================================================================
