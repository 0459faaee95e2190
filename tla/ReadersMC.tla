------------------------------ MODULE ReadersMC ------------------------------
(***************************************************************************)
(* Instances for TLC of the three programs that read GitHub while it moves *)
(* and write nothing that another of them reads: the checkpoint extractor, *)
(* the way from the reducer to the bootstrap, and the task context         *)
(* compiler.  Each behaviour is of one of them.                            *)
(***************************************************************************)
EXTENDS CheckpointExtractor, ProjectState, TaskContext, TLC

CONSTANTS t1, t2, core, full

VARIABLE program

OneCommit == [r \in Runs |-> 1]
OwnMilestones == [t \in Tasks |-> t]

(* A required source and three optional ones, two of which have the same   *)
(* content, which the required one has under another media type; sizes,    *)
(* character widths and budgets such that every kind of choice is made.    *)
Small == {Source(6, ProductSource, "json", 2, TRUE, TRUE, "b", 2, 2),
          Source(7, ProductSource, "text", 1, FALSE, TRUE, "b", 2, 2),
          Source(8, ProductSource, "text", 0, FALSE, FALSE, "b", 2, 2),
          Source(9, ProductSource, "text", 3, FALSE, FALSE, "d", 1, 1)}

SmallOffers ==
  {[inputs |-> Small,
    budgets |-> [total |-> b[1], perSource |-> b[2],
                 class |-> [k \in Classes |-> IF k = ProductSource THEN b[3] ELSE 2]]] :
     b \in {<<20, 4, 13>>, <<20, 3, 9>>, <<9, 4, 9>>, <<20, 4, 6>>, <<12, 4, 3>>}}

Symmetry == Permutations(Gates)

AtRest == issue = [t \in Tasks |-> Revised([open |-> TRUE, labels |-> {"ready"},
                                            reason |-> "none"], 0)]

Readers == <<extractionVars, stateVars, contextVars, sourceVars, program>>

InitReaders ==
  /\ InitState /\ InitContext /\ InitSources
  /\ \/ program = "checkpoints" /\ Init /\ AtRest
     \/ program = "bootstrap" /\ InitIdle /\ issue[t1].labels = {"ready"}
     \/ program = "context" /\ InitIdle /\ issue[t2] = issue[t1]

CheckpointsStep ==
  /\ program = "checkpoints"
  /\ Next
  /\ UNCHANGED <<stateVars, contextVars, sourceVars, program>>

BootstrapStep ==
  /\ program = "bootstrap"
  /\ StateNext \/ OthersDuringState
  /\ UNCHANGED <<extractionVars, contextVars, program>>

ContextStep ==
  /\ program = "context"
  /\ ContextNext \/ OthersDuringContext
  /\ UNCHANGED <<extractionVars, stateVars, program>>

NextReaders == CheckpointsStep \/ BootstrapStep \/ ContextStep

ReadersSpec == InitReaders /\ [][NextReaders]_Readers

(* The types of the three programs' data: a reader has no more than one    *)
(* value of each source, what is done is decided, and a result comes from  *)
(* an accepted state or request.                                           *)
TypeOK ==
  /\ ExtractionOK
  /\ SourcesOK
  /\ StateOK
  /\ ContextOK
=============================================================================
