# Verification of hwm-control

hwm-control coordinates agents that work on tasks. A task is a GitHub Issue, an
agent claims it, works on a branch of its own, publishes commits to that branch
by way of Issue comments, and records what it learned; programs in `control/`
decide, by deterministic rules, what each of these steps may do. This directory
holds TLA+ models of those programs, the configurations TLC checks them with,
and proofs that TLAPS checks.

To check one run: `tlc -config PublisherRace.cfg PublisherMC`. To check the
proofs: `tlapm PublisherProofs.tla`, and so on for the eight modules whose name
ends in `Proofs`.

## The system

| part | state it keeps | operations | what makes it correct |
|---|---|---|---|
| Task-branch publisher (`task_branch_publisher.py`, `publisher_*.py`, `run_task_branch_publisher.py`, `task-branch-publisher.yml`) | none of its own; comments of the repository, heads of branches, CI runs, jobs of GitHub Actions | `preflight_concurrency`, `handle_event`, `_publish`, `create_candidate_commit`, `compare_and_set_branch`, `dispatch_ci`, `post_result` | a request moves its branch at most once and only from the head it names; an id stands for one request; a success is true |
| Ordinary CI (`infrastructure-ci.yml`) | runs | checks the dispatched head, runs tests | a run proves the head it was dispatched for |
| Task Issue lifecycle (`task_issue_state.py`) | labels, open or closed, reason of an Issue | `interpret_issue_state`, `dependencies_satisfied`, `validate_transition` | one state per Issue; nothing moves on unmet dependencies |
| Atomic claim store (`atomic_claim.py`) | claim records, branch bindings, the protected head | `claim`, `recover_stale`, `set_protected_head`, `current_claim` | one owner per task and branch at a time; renewal only after expiry |
| Product HEAD and checkpoint extractors (`product_head.py`, `checkpoint_extractor.py`) | caches of one extraction | `extract_product_head`, `extract_core_full_checkpoints` | a checkpoint is known only if run, check and status agree on one commit |
| Project state reducer (`state_reducer.py`) | none | `reduce_project_state` | nothing is published as known that its evidence does not bind |
| Knowledge Delta gate (`knowledge_delta_gate.py`, `validate_bootstrap.py`) | files of the repository | `validate_repository_knowledge_deltas`, `validate` | every task complete from the cut-over on has its delta |
| Generated bootstrap (`generated_bootstrap.py`) | none | `generate_bootstrap` | a projection that depends on its sources only |
| Historical ledger (`historical_claim_contract.py`, `historical_knowledge_importer.py`) | claims, conflict index | `validate_ledger`, `build_conflict_index`, `import_frozen_records`, `generate_ledger` | order of inputs is irrelevant; conflicts are symmetric and resolve |
| Context ledger contract (`context_ledger_publisher_contract.py`) | earlier requests and results | `validate_request`, `classify_replay`, `result_success` | an id stands for one request |
| Task context compiler (`task_context_compiler.py`, `task_context_core.py`) | none; observes heads and fetches blobs | `compile_task_context`, `_select` | every source is exactly the bound one; budgets hold |
| Semantic contract (`semantic_contract.py`) | none | `validate_semantic_input`, `verify_semantic_output` | an output is accepted only if its citations hold |
| Semantic batches (`semantic_batch*.py`) | manifest, coverage, result | `generate_manifest`, `finalize_coverage`, `finalize_result`, `verify_batch`, `classify_replay` | each source is accounted for exactly once |
| OpenAI live boundary (`openai_live_boundary.py`, `trusted-openai-live.yml`) | credential, attempts | `execute_live`, `acquire_wif_credential`, `perform_provider_call` | no credential before the deterministic checks; bounded retries |

How they interact. Agents claim a task in the claim store and relabel its
Issue; the publisher reads that label (`TASK_NOT_CLAIMED`) before it publishes
for the task, and dispatches CI for what it published. The extractors read the
CI of the product repository, the reducer joins them with Issues and
requirements into the project state, and the bootstrap and the task context are
compiled from that state, the historical ledger and the Knowledge Deltas, which
the gate demands before a task counts as complete. The semantic programs work on
task contexts. Everything meets in GitHub: comments, refs, labels and runs are
the shared state, and no program holds a lock on any of it.

Where it is hard: jobs of different branches run side by side on one request
id; a comment may be posted again and a job rerun or killed anywhere; REST reads
lag behind the Git server; `git push` may fail after it took effect; a claim is
decided on an Issue, on dependencies and on a time that were read before the
lock; the store and the Issue are written one after the other; the programs that
compile state and context read a dozen things one after the other and present
them as one picture; a pull request is merged on a check of what main was; a
paid call may have been executed although it timed out; what an agent or a model
hands in may leave anything out. The list, each entry at its line, is under
`hazards` in `PROJECT.json`.

## The modules

| module | what it is |
|---|---|
| `PublishContract` | what the publisher promises: an atomic compare-and-set per request |
| `Publisher` | publish jobs, comments, branches, REST replica, CI runs, faults |
| `PublisherMC` | its instances for TLC |
| `PublisherProofs` | its theorems about types and ids |
| `PublisherAnswerProofs` | its theorems about answers, and that it implements `PublishContract` |
| `TaskIssue` | the Issue state, the dependency check, the transition policy, as operators |
| `ClaimContract` | what the claim store promises: exclusive ownership, renewed after expiry |
| `AtomicClaim` | the store among sessions, Issues and the clock; extends `TaskIssue` |
| `AtomicClaimMC` | its instances for TLC |
| `AtomicClaimProofs` | its theorems |
| `Sources` | what readers read while others change it: Issues with their revisions, protected heads; extends `TaskIssue` |
| `CheckpointExtractor` | the extraction of Core and Full checkpoints while the product's CI goes on |
| `ProjectState` | product head, reducer, commit of the state, bootstrap; extends `Sources` |
| `TaskContext` | the task context compiler and its selection under budgets; extends `Sources` |
| `ReadersMC` | instances of these three for TLC |
| `CheckpointProofs` | theorems about the extraction |
| `SelectionProofs` | theorems about the selection of the task context |
| `SnapshotProofs` | theorems about bootstrap and context, and about the three readers together |
| `SemanticContract` | the checks of a semantic input and output, as operators |
| `LiveContract` | what the live boundary promises of each attempt of a run |
| `LiveBoundary` | both jobs of the live workflow; extends `SemanticContract` |
| `LiveBoundaryProofs` | its theorems |
| `LiveBoundaryMC` | its instances for TLC |
| `KnowledgeDeltaGate` | the gate as the check of pull requests and of commits on main |
| `HistoricalLedger` | ledgers, their import and their publication |
| `SemanticBatch` | one semantic maintenance batch |
| `KnowledgeMC` | instances of these three for TLC |
| `KnowledgeProofs` | theorems about ledgers and their publication, the gate, batches, and the three together |

### Publisher

`log` is the list of all comments of the repository; slot `k` of it has the job
`jobs[k]` that the comment started. `ref` is a branch on the Git server, `rest`
what the REST API shows of it; they differ after each write until `CatchUp`.
`commits` is the object store, numbered in order, so that a commit names the
comment its job worked for; `installed` are the ones a publisher push has put
on a branch; `runs` are dispatched CI runs.

A job goes through the phases of the code, one action per remote access:
`Start` (the checks of the event in `handle_event`), `LookupPrior`,
`CheckCollision`, `LookupLocked` (the second search under the branch lock),
`CheckTask`, `CheckHead` (REST), `BuildCandidate` (fetch from the Git server and
commit), `PushAccepted` or `PushRefused`, `ExplainFailedPush`, `DispatchCI`,
`ConfirmRun`, `PostResult`. Between any two of them another job, another writer
(`OwnerPush`, `Rewind`), the closing of the Issue (`Release`), the replica and
the faults act: `Crash` (the job is killed, or an API failure in a place no
handler covers), `ApiFailure`, `DispatchFailed`, `PushFailed`, and the two
writes that take effect although their caller sees a failure,
`PushUnacknowledged` and `PostUnacknowledged`. `Enqueue` is GitHub's concurrency
group: one running and one waiting job, the waiting one cancelled by the next.

Abstractions. A request is its id, its branch, its expected head and a body; the
body stands for changes, Issue number and workflow. `ClassOf` says what the
checks that depend on the request alone make of a body: malformed, on the wrong
Issue, refused by a path, mode or blob rule, or good. The first refusal of each
class stands for all its codes; the three refusals of a request by fixed facts
about its branch (default branch, protected, recorded under another name) fall
under the class `misplaced`, which is answered before the searches and not after
them. Two requests are equal exactly when their fingerprints are: SHA-256 over
canonical JSON is taken to be injective. A listing of comments shows every
comment whose posting was acknowledged. Branches are not deleted. The branch lock of
`publisher_policy.py` is held by one job at a time in any case, since a job is a
process of its own, and so it never waits. A comment that was posted is never
edited or deleted.

### AtomicClaim

`claims`, `branchOwner` and `head` are the three fields of
`AtomicClaimPrototype`; `issue` is the Issue of each task on GitHub; `session[s]`
is what a session has read (`Look`: Issue, dependencies, current claim, time) or
has yet to do. `Claim` and `RecoverStale` are the two calls: their arguments are
what the session read, at whatever time before, and any request it may propose;
their guards are the checks of the code in the order of the comments beside
them; a refusal or a replay changes nothing and has no action. `now` is any
time between the reading and the call. After a claim the winner adds `claimed`
to the Issue (`Tag`) and removes `ready` (`Untag`), and may `Vanish` anywhere,
unless `Reliable` forbids it once it has won. Other transitions of Issues go
through `ValidTransition` as `Block`, `Unblock` and `Complete`. `granted` is a
history variable: every record the store ever installed.

Sessions pass the dependencies the task declares (`DependsOn`), with the states
they read. Who follows no policy at all and edits Issues at will is not
modelled; the two-step relabelling, which makes an Issue ambiguous for a while,
is. Malformed records, timestamps and SHAs are refused before anything is
changed and are left out.

### Readers: CheckpointExtractor, ProjectState, TaskContext

These programs write nothing that GitHub or one of the others reads while they
run, apart from the commit of the project state, and are hard for one reason:
they read one thing after the other. Each read is an action, and between any two
of them CI, the editors of Issues and the writers of branches act.

`CheckpointExtractor`: `ci` is the product's CI (per run: its state, one
aggregate check per attempt and gate, the statuses posted for it), `x` the
extraction with its position in the list of runs and its two caches.
`ListRuns`, `ReadChecks` and `ReadStatuses` are the three listings;
`CheckEvidence`, `StatusEvidence`, `Verdict` and `Continue` are the functions
that decide a gate, in the order of the code. The provider may list the latest
check of a name or all attempts, all runs or only completed ones, answer 404, or
fail (`ProviderFails`). `settled` and `unseen` are history variables. Timestamps
only order the runs; shapes of answers are one outcome, an error. As in the code,
a run that is not completed makes a whole listing malformed, and a status posted
by an earlier attempt of a run still counts for a later one: that is why
`RedIsNotKnown` is about the check and not about the status.

`ProjectState`: `ReadRepository` and `ReadRef` are `extract_product_head`;
`ListBucket` the caller's listing of Issues label by label, so that an Issue that
is relabelled meanwhile is in two lists or in none (`reduce_project_state`
accepts both); `Reduce`, which refuses a checkpoint whose provenance names the
other gate, with callers that mix the gates up; `CommitState`; then the reads for
the bootstrap (`ReadInfra`, `ReadIssue`, `ExpectRevision`) and `Generate` with
the checks of `generate_bootstrap`. Requirements and the constant text of the
bootstrap are left out. Every edit gives an Issue a revision of its own: GitHub's
`updated_at` has a granularity of one second, and two edits within one are not
told apart by the code.

`TaskContext`: the author of a request reads heads and Issue (`AuthorReads`), the
compiler observes them again (`ObserveControl`, `ObserveContext`,
`ObserveProduct`, `FetchIssue`), fetches sources by commit, path and digest
(`FetchSources`: exact, unknown or an error) and selects (`EmitPack`). `Select`
is `_select`: `Ranked` sorts the candidates, `Rest` is one turn of its loop (budget
per source, per authority class and in total, deduplication by class, media type
and content (`Identity`), truncation to whole characters), and `Leftovers` what the
first turns leave, a recursive function. A source is its class, media type, rank,
size and content.
`Canonical` is the lifecycle as `_issue_snapshot` reads it, which refuses an
Issue that was reopened although the lifecycle accepts it: such a task gets no
pack, and no pack gets another lifecycle than the Issue (`PackAlwaysKeepsI04`).

### Live boundary

`live` is one run of the workflow `trusted-openai-live.yml`: `Dispatch`,
`Preflight`, `StartLive` (a runner comes free), `Reverify` (main is read again),
`Execute` (the checks of `execute_live` up to the credential), `AskOidc`,
`Exchange`, `Call` (one turn of the loop of `perform_provider_call`), `Verify`.
Others move main. A run that has ended is run again on the same commit, all of it
(`RerunAll`) or its live job alone, without another preflight (`RerunLive`): GitHub
offers both also for a run that succeeded, and neither the workflow nor the program
asks which attempt it is. What holds of calls and answers therefore holds of each
attempt, and all attempts together may make more calls and accept more than one
answer; the two attempts in total of `docs/ADR/0005-trusted-openai-execution-boundary.md`
are those of one process. Every request over the network ends
well, with each failure the code has a code for, or with an exception the code
does not catch, after which there is no result. `replies` are the replies to the
calls of the live job; `mainAtStart` is a history variable. The program is taken
to start, as it does in the tests, with the repository on its import path.

`SemanticContract` holds the checks of `validate_semantic_input` and
`verify_semantic_output` as lists in their order; the first that fails names the
code. Ids and digests are the content they identify; what a schema or a pattern
decides is one Boolean each (`wellFormed`, `public`). `LiveContract` leaves jobs,
tokens, main and failures out: the service is closed until the request is
admitted, calls are bounded, and one grounded answer at most is taken, in each
attempt (`Repeat` begins another).

The run has one concurrency group, hence one run at a time. The pack is fetched
as the request names it or not at all. The loop retries
what the provider rate-limits, as
`docs/ADR/0005-trusted-openai-execution-boundary.md` says, although
`retryable_failures` of the semantic policy does not name it; both bound the number
of attempts in the same way.

### Knowledge: KnowledgeDeltaGate, HistoricalLedger, SemanticBatch

`KnowledgeDeltaGate`: `tree` is protected main as far as the gate reads it, the
task lists of `BUILD_STATUS` and the files of Knowledge Deltas. A pull request
(`Open`) makes any small change. The check of the name `bootstrap`, which main
requires (`docs/acceptance/I03-P0A-controlled-publisher-bootstrap.md`), is the gate on
the merge of the branch with main as it is at that moment (`CheckPull`), or, when it is
dispatched, on the branch by itself (`CheckHead`). `UpdatePull` takes main into the
branch, `MergePull` merges a branch whose last check has passed, and `MergeOther` others
in between, on checks that may be as old. Nothing in the repository says that main
asks for branches that contain it: the strict policy in
`knowledge-deltas/I08-0042.json` is that of the ruleset of hwm-context. The gate
judges one tree, and two trees it accepts may merge into one that it refuses (two
deltas for one Issue number), so main does break in this model. What holds all the same
is said by the two properties: the check of the very commit on main (`CheckMain`)
comes before the Issue is completed (`Complete`, the rule of `validate_transition`),
so no Issue is completed on such a commit (`CompletedIsRecorded`); and only an old
check lets main break (`FreshMergesAreSafe`). What a delta must record is one value
(`Incomplete`).

`HistoricalLedger`: sessions `Freeze` a corpus, `Import` it (relations by record
key become relations by claim id; `ClaimOK` and `LedgerOK` are
`validate_claim_semantics` and `validate_ledger`), read base and existing files of
hwm-context one after the other and `Post` a publication request, perhaps twice.
`Decide`, `Publish` and `PostResult` are what the runtime in hwm-context does with
`classify_replay`, `verify_expected_base` and `result_success`; the runtime itself
is not part of this repository and is modelled from these functions (external).
Claims that supersede each other in a cycle pass `validate_ledger`, in the code as
in the model.

`SemanticBatch`: `Propose` (with `validate_input_config` for the frozen first
batch), `ReadSources`, `GenerateManifest`, `FinalizeCoverage`, `FinalizeResult`,
`VerifyBatch`, with `Land` for new material. The agent between the steps hands in
rows that are complete, one short or one too many, statuses and history that are
the manifest's or not, and any artifact. `Partitions` is the loop of
`_build_partitions` as a recursive function; its checks of the limit, and the
schema's demand of at least one source, are in `ManifestOK` with the other checks
that leave no manifest. A manifest that is generated again after the heads moved has
another id, since the heads are part of it.

## The runs

All passing runs explore every reachable state of their instance. Deadlock is
not checked: budgets, bounds and programs that end leave nothing to do, and a
system that is done may stop; that nobody waits for ever is `EveryJobEnds` and
`EveryRunEnds`.

| run | shows |
|---|---|
| `PublisherRace` | `OneRequestPerId`: one id, two contents, two branches, three comments (of the owner or of another account), a killed job, a rerun, a released task: never are both contents published. `ReuseIsReal`: `REQUEST_ID_REUSE` is only answered when the owner used the id twice. |
| `PublisherFaults` | requests posted twice, a rerun, a rewind, a push of the owner, a killed job, a failing push, an API failure and a lost acknowledgement, with a body of each class: `AnsweredNeverPublishes` (a request that has any result never moves its branch again), `SuccessIsBacked` (a success names an installed commit of this request on its expected head, with a CI run on that very commit), `SuccessesAgree` (replays name the same commit), `ImplementsContract` (the whole is an atomic compare-and-set per request), `TypeOK` |
| `PublisherEnds` | `EveryJobEnds` under fairness: three comments on one branch, a killed job, a rerun |
| `ClaimRace` | two sessions, two tasks of which one waits for the other, a branch of each and one that fits both, leases that run out: `TablesAgree`, `OneOwnerAtATime`, `DependenciesHold` (what is owned had its dependencies completed), `ImplementsContract`, `TypeOK` |
| `ClaimRecovers` | `ExpiredIsRenewed` under `RecoverySpec`, if winners always relabel |
| `Readers` | Extraction: `KnownWasGreen`, `RedIsNotKnown`, `NewestGreenIsFound`, `GatesAreIndependent`. Bootstrap: `BootstrapIsASnapshot` (everything it lists was so at one moment), `CheckpointsKeepTheirGate`. Context: `PackIsASnapshot`, and of the selection `BudgetsHold`, `OptionalNeverDisplaces` (required sources get what they would get alone), `NothingFittingIsOmitted`. |
| `Knowledge` | for pull requests checked and merged in any order, on old checks too: `CompletedIsRecorded` (an Issue is completed only on a commit that has its tasks recorded once), `FreshMergesAreSafe` (a merge into the main it was checked with never breaks main); `LedgerIsConsistent` and `IdsStandForOneRequest` for ledgers and their publication; `PartitionsAreFewest` (the greedy partition against all others), `FrontierIsCovered` and `ArtifactsKeepHistory` for batches |
| `LiveBoundary` | `CredentialAfterChecks` (no token is asked for unless all public checks hold and main was where it should be), `AttemptsAreCalls`, `NoCallAfterAnswer`, `AcceptedIsGrounded` (the verifier against a declarative definition of what an answer may say), `ImplementsContract`, `EveryRunEnds` under fairness |

Four runs show where the code differs from what the repository says of it; the
findings in `PROJECT.json` quote the sentences.

| run | shows |
|---|---|
| `PublisherPoisoned` | one other request under an id makes every later replay of the original be answered `REQUEST_ID_REUSE` |
| `PublisherOrphan` | a job killed between push and dispatch leaves a commit that no rerun dispatches CI for |
| `ClaimStranded` | a winner that stops before it relabels the Issue leaves a lease that expires and cannot be renewed |
| `LiveUntyped` | a malformed OIDC token has a code the schema of a result does not know: the job ends with an exception, without the deterministic fallback |

Four more such places were met, and have no run of their own, because they change
no state that a property could be about:
- While REST lags behind the Git server, `_publish` compares the head of a refused
  push with a replica that does not show the competing push yet, and answers
  `INTERNAL_ERROR` where `docs/ADR/0001-controlled-task-branch-publisher-bootstrap.md`
  names `EXPECTED_HEAD_MISMATCH`.
- A listing returns 5000 comments at most. Beyond that requests and results are not
  seen, and one id can be published twice: `OneRequestPerId` fails with a
  `ScanLimit` of 1 and two comments.
- `recover_stale` goes by the Issue state its caller read. A task that was
  completed since has its lease renewed, although for
  `docs/I05_ATOMIC_CLAIM_POLICY.md` "the Issue must still be exactly `claimed`".
- `trusted-openai-live.yml` runs `python control/openai_live_boundary.py` without a
  `PYTHONPATH`, so that the directory `control/` is on the import path and the root
  of the repository is not; line 21 of the program, `from control import
  semantic_contract`, then ends it with `ModuleNotFoundError`. As the workflow stands
  its first job ends there, before any check.

Bounds of the publisher. `Budget` bounds how often the environment acts: comments,
reruns, pushes, rewinds, releases and each kind of fault; the jobs' own steps are
not bounded. Two contents and two branches are what the races are about; three
comments are one more than the pair that collides, so that a third job finds what
the two left behind; a repost and a rerun of one request let a job find a result, a
missing result and a lost one. The hazards of retries each need one rewind, one
crash or one lost acknowledgement; `FaultBudget` gives one of each in any order.
`ScanLimit` is 100, more than there are comments.

Bounds of the claims. Two sessions race, a third would only take the place of one
that vanished (which `Vanish` allows); two tasks collide on a branch and depend on
each other; times 0 and 1 with leases up to 2 give adjacent and overlapping leases.

Bounds of `Readers`. Two runs of one commit, so that a status or a check of
one can be taken for the other's and the cache of statuses is hit; both gates; two
steps of CI during an extraction, on top of every state that ended runs may be in
before it, so that a job is run again and ends, or ends and its status is posted,
between two listings; one listing that is not found. Two Issues and two edits: one
between two reads, and one that could undo it. Budgets in five combinations, for
which every kind of choice (included, truncated, omitted, deduplicated, not
retrieved) is made; one content three times, twice under one media type and once,
required, under another.

Bounds of `Knowledge`. Three task keys, of which two share an Issue number across
the cut-over and two belong to one milestone, and the milestones on either side of
it; any task list, file or both change in one pull request. Pull requests are
followed step by step one after the other, and three commits land on main, theirs or
those of others: one between the check of a pull request and its merge, and one more,
so that main is broken before a check, or moves on between a merge and the check of
its commit. Ledgers of every pair of records with every status and relation, and
of triples with chains, branches and cycles; for publication two sessions, two ids,
two ledgers and one other publication. Batches of four sources of all sizes around
a partition's limit, of no source, and with partitions of no size; of three with every way to record a conflict or a
supersession at one end or both; the frozen batch in and out of its frontier;
a signal of each kind that is no reason; one move of the heads.

Bounds of `LiveBoundary`. A request that fails each check, one by one, and good
ones with one and two attempts; answers that are right, and wrong in one or two
ways; main moves twice, the run or its live job is run again once, also after an
accepted answer. Sums, orders and
matching of answers do not depend on larger numbers of sources than the three that
conflict and are superseded.

Fairness. `FairSpec` of `Publisher` asks that GitHub runs the preflight of every
comment and that a job whose group is free goes on: weak fairness per job, nothing
else. No author, other writer, fault or replica owes anything; a job reads the
replica as it is. `RerunSpec` (for `PublisherOrphan`) adds an owner who reruns dead
jobs. `RecoverySpec` is about people and agents and not about the code: sessions
keep looking and recovering, winners relabel, blockers are cleared. Strong fairness
is needed because other sessions' steps keep disabling these: it says that
somebody who tries again and again succeeds. `ClaimStranded` has the same
fairness and a winner that may stop before it relabels. `Spec` of `LiveBoundary`
has weak fairness of `Step`: a runner comes free in the end, and every request over
the network has a timeout in the code. That main moves or that a job is run again is
nobody's duty.

## The proofs

The eight proof modules are checked by `tlapm` with no step left open, for all values
of the constants that satisfy the assumptions of the modules. Those say no more than
what the code's inputs are: functions have their domains, bounds and budgets are natural numbers,
`FirstHead \in Heads`, runs and corpora are finite, the ids of rows, Issues and
milestones and the sizes of rows are numbers, the schema of an input asks for one
attempt at least. A request for a context selects from finitely many sources of the
form that `schemas/task-context-request.v1.schema.json` gives them, with one source
to an id, as `validate_request` checks. TLC evaluates all of them.

`PublisherProofs`
- `TypesAlwaysRight`: `TypeOK` and `CandidateInv`, which says that a job about to
  push holds a commit that exists and that it made itself. `TypeOK` alone is not
  inductive: `Install` puts the candidate of a job on a branch, so the candidate
  must exist.
- `IdsStandForOneRequest`: `OneRequestPerId` as long as listings are complete
  (`AllScanned`; without it the property fails, see above). The
  invariant says why the search for colliding requests is enough even for jobs
  that run side by side. Only readable requests of the owner get as far
  as the search (`Screened`), so that the comment of every admitted job is one
  that the search of every other job finds, since comments stay. Of two
  jobs of one id the one admitted later has therefore found the other's request, and they
  agree (`AdmittedAgree`); and every installed commit has an admitted job
  (`CommitsHaveJobs`). `OneRequestPerId` is not inductive by itself since two jobs
  could be past the search already.

`PublisherAnswerProofs`
- `SuccessesAreBacked` and `ReuseIsNeverInvented` rest on `AnswerInv`, which follows
  an answer from where it arises to where it is read again. A job that pushed,
  dispatched or confirms holds a commit of its own, which is installed and has the
  head its request expects as its parent (`JobInv`); what is posted is justified and
  answers a request of the owner (`CommentInv`). Steps only add comments, commits,
  runs and installations (`Grows`), so what justified an answer once justifies every
  replay of it; nothing is assumed about listings.
- `OneSuccessPerId` and `AnsweredNeverPublished` hold as long as listings are
  complete. `OnceInv` adds what GitHub's groups and the order of the searches give:
  one job at work per group (`Exclusive`), no result of its request in the log when
  a job is past the second search (`Unanswered`), and what waits to be posted agrees
  with what was posted (`PendingAgree`). Neither property survives a step without
  `Unanswered`: a job between search and push would publish a second time.
- `PublisherImplementsContract`: under the same condition every step is a
  publication, a confirmation or a stutter of `PublishContract`, with the mapping
  the run uses.

`AtomicClaimProofs`
- `TypesAlwaysRight`, `TablesAlwaysAgree`, `OneOwner` and
  `StoreImplementsContract` come from one invariant, `StoreInv`: the records in
  the store are among the granted ones, the tables agree, every grant of a task
  ends before its present claim begins (`GrantsOrdered`), and grants of two tasks
  never share a branch (`GrantsDisjoint`). `OneOwnerAtATime` alone does not
  survive a renewal, because it does not say that the present claim is the latest.
- `OwnedTasksAreReady`: `DependenciesHold`, from `ViewsHold` (what a session has
  seen completed is completed still) and the lemma that no transition leaves
  `completed`, the fact that makes stale dependency states harmless.

`LiveBoundaryProofs`
- `ChecksComeFirst`, `CallsAreCounted` and `AnswersEndCalls` state
  `CredentialAfterChecks`, `AttemptsAreCalls` and `NoCallAfterAnswer`; these and
  `RecordsAlwaysRight` (`LiveOK`) come from `RunsAreInOrder`, the invariant that says for each place of a run what
  has been established when it gets there. It says of main that it only grows
  (`MainGrows`): what the live job found when it began lies between the commit of
  the run and main as it is, so that main found at that commit by `Reverify` was
  there at the beginning too. It also says that a run at `call` has seen nothing but
  failures that may pass (`CallsInOrder`): `NoCallAfterAnswer` alone allows a run
  to be there with an answer in its last call, after which one more call would
  break it.
- `AcceptedAlwaysGrounded`: the checks of requests and outputs are opened. A list of
  checks says `none` only if none of them fails (`NoneFails`), and what
  `InputCode`, `OutputCode` and the checks of an artifact then leave is the
  declarative `Grounded`, for outputs and sources of any number. `Kept` carries
  it through the run: the request stays, and what is accepted is grounded.
- `BoundaryImplementsContract`: the steps of a run are those of `LiveContract`, and
  running it again, whatever came of it, is its `Repeat`. `Kept`
  says for it that a run at `call` may still call: the loop leaves with the last
  attempt.

`CheckpointProofs` is about one extraction while CI goes on.
- `KnownAlwaysWasGreen`, `RedIsNeverKnown`, `NewestGreenIsAlwaysFound` and
  `ExtractionAlwaysTyped` come from `CheckpointInv`. A success, once there, stays,
  and a settled gate keeps its last conclusion (`SettledInv`); runs are looked at
  from the newest on (`OrderInv`; that `NewestFirst` sorts is a theorem about ranks
  in a finite set); a cached listing says no more than what happened, and no less
  than what was settled before it (`CacheInv`), which makes it harmless that one
  cache serves several runs of a commit; and what has been found so far is good and
  leaves nothing newer behind (`FoundInv`). The properties speak of the end only and
  are not inductive.
- `GatesAlwaysIndependent` needs in addition that the caches of the runs that were
  looked at are filled and not read again (`ReadInv`), and says for every turn of the
  loop which listing decided a gate (`IndependentInv`).

`SnapshotProofs` is about reads one after the other.
- `BootstrapAlwaysASnapshot` and `PackAlwaysASnapshot` come from one idea: an Issue
  only becomes another by an edit that gives it a later revision (`Became`, a
  transitive relation), heads only grow, and each read is before or after a moment, the
  `mark` of the bootstrap and the `moment` of the request. What was read
  before has become what it was at the moment, and that has become what is expected
  after it. When both ends agree nothing was in between. `BootstrapInv` and
  `PackInv` keep this for every place of the two programs.
- `CheckpointsAlwaysKeepTheirGate` and `PackAlwaysKeepsI04` (which is proved only,
  of `PackKeepsI04` in `SnapshotProofs`) are in the same invariants.
- `ReadersAlwaysTyped` and `ReadersAlwaysSafe` (all ten invariants): the three
  programs in the composition that the run enumerates. Its steps are those of the
  extraction, and what the state's commit does to a head moves forward as the steps
  of others do.

`SelectionProofs` is about `_select`, for every finite set of candidates, every
outcome of their retrieval and all budgets. Its inductions are of one form: the
numbers, or sets, for which something fails would have a least one (the library's
`WFMin`), and the turn before it fails already.
- `Ranked` is a sorted list of all candidates, each once (`RankedIsSorted`), since
  `_rank` is a total order; the loop is what its turns make of each other
  (`TurnByTurn`), and what it chooses of a source is what its turn chose
  (`ChosenInTurn`).
- `SelectionFits`: after every turn, what is left and what has been emitted make the
  budget, in total and of each class (`TurnBalances`), and nothing left is negative
  (`ChoicesFit`, one turn). A pack is a set, so its bytes are a sum over a set, which
  does not depend on the order of its members (`SumsAgree`).
- `RequiredChosenAlone`: required sources come first, and the first turns are the same
  whether others follow or not (`RequiredLeaveTheSame`).
- `NothingFittingLeftOut`: what is left only shrinks (`LeftoversShrink`), so what is
  left in the end is no more than what a source was refused for; of the sources of
  one class, media type and content only the first that is exact can be emitted.
- `BudgetsAlwaysHold`, `OptionalNeverDisplacesRequired` and
  `NothingFittingIsEverOmitted` are these for the packs of the compiler, from
  `SelectInv`: a pack is selected from the sources of one offer and the mandatory
  ones, under the budgets of that offer.

`KnowledgeProofs`
- `IdsAlwaysOneRequest`: a job that found its request new has no earlier request of
  the id that differs, and a replay has a candidate (`DecisionsInv`). Requests stay in
  the log, so of two candidates of one id the later one had the other's comment
  before it.
- `LedgerAlwaysConsistent`: what is on main was generated from a corpus and passed
  `LedgerOK` (`Ledgers`), and the checks of `LedgerOK`, which ask claim by claim,
  make relations, statuses and the conflict index agree as a whole
  (`ConsistentLedger`).
- `CompletedAlwaysRecorded` and `FreshMergesAlwaysSafe`: nothing is said of main, which
  may be broken at any time. `GateInv` says of a pull request that its merge with the
  main its check was run with passes, that a branch is its own merge with the main
  it has taken in (`HeadIsItsMerge`), which makes the two kinds of check one, and that
  the commit passes by itself where its check did or its Issue is completed. What
  passes records its tasks once (`PassingTreeRecords`).
- `FrontierAlwaysCovered` and `ArtifactsAlwaysKeepHistory`: from the manifest on, a
  batch rests on an offer and on the manifest of that offer at some heads, and each
  later place on the checks before it (`BatchInv`). That the manifest lists the rows
  of the offer, each once, is a theorem about `SortedById`: a row with `i - 1` smaller
  ids is the `i`-th.
- `ManifestsAlwaysGrounded`: every manifest is that of an offer which passed its checks
  (`ManifestInv`). `BatchInv` says nothing of refused batches, and their
  manifests are cut into partitions, too.
- `PartitionsAlwaysFewest`: the partitions are a way to cut the list of sources into
  parts that fit, and none has fewer parts. What lies between two cuts is a
  difference of prefix sums, which never fall (`SumsGrow`, `BytesOfParts`). The loop
  only cuts where the next source would not fit (`PartitionsPack`), so that a part
  and the source after it are too much for anybody: whoever cuts otherwise has a cut
  within every part but the last (`CutInEachPart`), another one for each, and that is
  as many cuts (`NoFewerParts`). The ends of the parts are such cuts themselves
  (`EndsAreCuts`), and the parts joined are the list (`PartsJoin`).
- `KnowledgeAlwaysTyped` and `KnowledgeAlwaysSafe` (all seven invariants): `KnowledgeSpec`
  implies `GateSpec`, `LedgerSpec` and `BatchSpec` (`KnowledgeIsItsParts`), so that what
  is proved of the parts holds of their composition.

The theorems are about the specifications of the components (`Spec`, and `StateSpec`,
`ContextSpec`, `LedgerSpec`, `GateSpec`, `BatchSpec` where several components share a
module for TLC).

Only model-checked: liveness (`EveryJobEnds`, `EveryRunEnds`, `ExpiredIsRenewed`),
which this prover cannot do. Every invariant, action property and refinement that a
passing run checks is stated by a theorem. The loops (`Leftovers`, `Partitions`,
`Bytes`) are recursive functions and not operators, so that they can be reasoned
about; the library's induction theorems take an operator as a parameter, which the
provers cannot instantiate, and the proofs use least counterexamples instead. The
four runs that expect a violation have no theorem.

## What is not modelled, and the plan

Not modelled:
- the text of prompts and Markdown, JSON layout, path and text patterns, token and
  askpass files: formatting or pure I/O, without control of their own;
- `classify_replay` of finished semantic batches and `degraded_fallback_result`,
  which compare or make one object and have no caller in the repository but tests;
- the steps of the ordinary CI workflow that run tests;
- schemas, documents, recorded evidence and tests: data and prose. Documents and
  tests are what findings are compared with;
- the runtime in hwm-context and the programs that call the pure functions of the
  readers: only as far as the functions here say what they are called with.

Next, in this order:

1. `TaskFlow`: the claim store, the Issue and the publisher together, on the
   `TASK_NOT_CLAIMED` check while the task is relabelled or completed.
2. `ClaimContract` and `PublishContract` as the interface of `TaskFlow`, so that what
   is proved of the components carries over to it.
3. `PublisherProofs` without `AllScanned` for ids whose comments are among the first
   `ScanLimit`.
