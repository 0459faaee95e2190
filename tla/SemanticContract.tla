-------------------------- MODULE SemanticContract --------------------------
(***************************************************************************)
(* The deterministic contract around a semantic transformation             *)
(* (semantic_contract.py): what an input must be (validate_semantic_input) *)
(* and which output a model returned for it may be materialised            *)
(* (verify_semantic_output).  Both are pure: a list of checks is made in   *)
(* order and the first that fails names the code.                          *)
(*                                                                         *)
(* Of an input we keep                                                     *)
(*   id             what transform_id and the digests of prompt, model and *)
(*                  task context identify;                                 *)
(*   wellFormed     the schema; bound: the id and every digest are those   *)
(*                  of the content; public: no known signature matches;    *)
(*   sources        the source ids as they are listed;                     *)
(*   conflicts      records [id, sources]; supersessions: records [old, by];*)
(*   tokens, bytes  what was observed; budgets.                            *)
(* Of an output: the input and history it claims, its usage and artifacts. *)
(***************************************************************************)
EXTENDS Integers, Sequences, FiniteSetsExt, SequencesExt

(* A check gives its code when it fails; of a list of checks the first     *)
(* that fails names the code of all of them.                               *)
Check(code, holds) == IF holds THEN "none" ELSE code

FirstFailure(codes) ==
  IF \A i \in DOMAIN codes : codes[i] = "none" THEN "none"
  ELSE codes[CHOOSE i \in DOMAIN codes :
               /\ codes[i] # "none"
               /\ \A j \in 1 .. i - 1 : codes[j] = "none"]

(* _ordered_unique                                                         *)
OrderedUnique(ids) == \A i, j \in DOMAIN ids : i < j => ids[i] < ids[j]

History(in) == [conflicts |-> in.conflicts, supersessions |-> in.supersessions]

-----------------------------------------------------------------------------
(* validate_semantic_input                                                 *)
InputCode(in) ==
  LET known == ToSet(in.sources)
  IN  FirstFailure(<<
        Check("SCHEMA_INVALID", in.wellFormed),
        Check("INPUT_BINDING_MISMATCH", in.bound),
        Check("PROVENANCE_MISMATCH", OrderedUnique(in.sources)),
        Check("PUBLIC_DATA_VIOLATION", in.public),
        Check("BUDGET_EXCEEDED", /\ in.bytes <= in.budgets.inputBytes
                                 /\ in.tokens <= in.budgets.inputTokens),
        Check("HISTORICAL_SEMANTICS_MISMATCH",
              /\ \A conflict \in in.conflicts : conflict.sources \subseteq known
              /\ \A s \in in.supersessions :
                   s.old # s.by /\ {s.old, s.by} \subseteq known)>>)

-----------------------------------------------------------------------------
(* Mutant of ConflictsMarked: only an artifact that uses every side of a   *)
(* conflict has to say so.                                                 *)
ConflictsMarkedIfAll(in, artifact) ==
  \A conflict \in in.conflicts :
    conflict.sources \subseteq ToSet(artifact.sources) =>
      conflict.id \in artifact.conflicts /\ "conflict" \in artifact.labels

(* An artifact that uses one side of an unresolved conflict says so.       *)
ConflictsMarked(in, artifact) ==
  \A conflict \in in.conflicts :
    conflict.sources \cap ToSet(artifact.sources) # {} =>
      conflict.id \in artifact.conflicts /\ "conflict" \in artifact.labels

SupersededMarked(in, artifact) ==
  LET old == {s.old : s \in in.supersessions} \cap ToSet(artifact.sources)
  IN  old # {} => "superseded" \in artifact.labels /\ old \subseteq artifact.superseded

(* What is checked of one artifact, and of all of them in turn.            *)
ArtifactCode(in, artifact) ==
  FirstFailure(
    <<Check("PROVENANCE_MISMATCH", OrderedUnique(artifact.sources)
                                     /\ ToSet(artifact.sources) \subseteq ToSet(in.sources)),
      Check("SCHEMA_INVALID", artifact.sorted),
      Check("PUBLIC_DATA_VIOLATION", artifact.public),
      Check("SILENT_CONFLICT_SELECTION", ConflictsMarked(in, artifact)),
      Check("HISTORICAL_SEMANTICS_MISMATCH", SupersededMarked(in, artifact))>>)

ArtifactsCode(in, artifacts) ==
  FirstFailure([i \in DOMAIN artifacts |-> ArtifactCode(in, artifacts[i])])

OutputBytes(out) == FoldSeq(LAMBDA a, n : a.bytes + n, 0, out.artifacts)

(* verify_semantic_output: "none" is the verdict "accept".                 *)
OutputCode(in, out) ==
  FirstFailure(
    <<InputCode(in),
      Check("UNSUPPORTED_SCHEMA_VERSION", out.schema = "v1"),
      Check("AUTHORITY_PROMOTION_ATTEMPT", out.class \in {"absent", "derived"}),
      Check("SCHEMA_INVALID",
            /\ out.class = "derived" /\ out.artifacts # <<>>
            /\ \A i \in DOMAIN out.artifacts : out.artifacts[i].sources # <<>>),
      Check("INPUT_BINDING_MISMATCH", out.of = in.id),
      Check("PROVENANCE_MISMATCH", out.sources = in.sources),
      Check("HISTORICAL_SEMANTICS_MISMATCH", out.history = History(in)),
      Check("BUDGET_EXCEEDED", /\ out.usage.input = in.tokens
                               /\ out.usage.output <= in.budgets.outputTokens
                               /\ out.usage.attempts <= in.budgets.attempts),
      Check("SCHEMA_INVALID",
            OrderedUnique([i \in DOMAIN out.artifacts |-> out.artifacts[i].id])),
      ArtifactsCode(in, out.artifacts),
      Check("BUDGET_EXCEEDED", /\ OutputBytes(out) = out.usage.bytes
                               /\ OutputBytes(out) <= in.budgets.outputBytes)>>)
=============================================================================
