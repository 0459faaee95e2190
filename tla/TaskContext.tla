----------------------------- MODULE TaskContext -----------------------------
(***************************************************************************)
(* compile_task_context (task_context_compiler.py, task_context_core.py).  *)
(*                                                                         *)
(* A request names everything the pack may hold: the heads and the Issue   *)
(* as its author read them one after the other, sources by commit, path    *)
(* and digest, and budgets.  The compiler observes the heads and the Issue *)
(* again, refuses what has moved, fetches the sources, and selects what    *)
(* fits: in rank order, each content of a class and media type once, under *)
(* a total budget, one per authority class and one per source.             *)
(***************************************************************************)
EXTENDS Sources, FiniteSetsExt

CONSTANTS
  Task,     (* the task the context is for                                 *)
  Offers   (* what a request may select from: product sources and budgets *)

ASSUME TaskAssumption == Task \in Tasks

VARIABLES
  c,       (* the request and its compilation                              *)
  moment   (* history: the sources when the request was complete           *)

contextVars == <<c, moment>>

-----------------------------------------------------------------------------
(* Authority classes in their fixed order.                                 *)
CurrentState == 1
GitHubCI == 2
ProductSource == 3
KnowledgeDelta == 4
Ledger == 5
Classes == 1..5

(* A source of `units` characters of `width` bytes each; `content` is its  *)
(* digest, `id` its place among the source ids.                            *)
Source(id, class, media, priority, required, truncation, content, units, width) ==
  [id |-> id, class |-> class, media |-> media, priority |-> priority,
   required |-> required, truncation |-> truncation, content |-> content,
   bytes |-> units * width, width |-> width]

(* validate_request and the request's schema: product sources have ids of  *)
(* their own, and budgets are numbers.                                     *)
ASSUME OffersAssumption == \A offer \in Offers :
  /\ IsFiniteSet(offer.inputs)
  /\ \A s \in offer.inputs :
       /\ s.id \in Nat /\ s.class = ProductSource /\ s.priority \in Nat
       /\ s.required \in BOOLEAN /\ s.truncation \in BOOLEAN
       /\ s.bytes \in Nat /\ s.width \in Nat \ {0}
  /\ \A s, t \in offer.inputs : s.id = t.id => s = t
  /\ offer.budgets.total \in Nat /\ offer.budgets.perSource \in Nat
  /\ offer.budgets.class \in [Classes -> Nat]

(* What every pack must hold.                                              *)
Mandatory ==
  {Source(1, GitHubCI, "json", 0, TRUE, FALSE, "issue", 1, 1),
   Source(2, CurrentState, "json", 0, TRUE, FALSE, "state", 1, 1),
   Source(3, Ledger, "text", 0, TRUE, FALSE, "claims", 1, 1),
   Source(4, Ledger, "json", 1, TRUE, FALSE, "conflicts", 1, 1),
   Source(5, KnowledgeDelta, "json", 0, TRUE, FALSE, "delta", 1, 1)}

(* Mutant of Before: authority before need.                                *)
BeforeByClass(a, b) ==
  \/ a.class < b.class
  \/ a.class = b.class /\ a.priority < b.priority
  \/ a.class = b.class /\ a.priority = b.priority /\ a.id < b.id

(* _rank: required first, then authority, priority, source id.             *)
Before(a, b) ==
  IF a.required # b.required THEN a.required
  ELSE \/ a.class < b.class
       \/ a.class = b.class /\ a.priority < b.priority
       \/ a.class = b.class /\ a.priority = b.priority /\ a.id < b.id

(* longest_utf8_prefix: whole characters only.                             *)
Prefix(source, limit) == limit - (limit % source.width)

(* Mutant of Allowance: what a class has been given is not counted.        *)
AllowanceByTotal(source, left, budgets) ==
  Min({budgets.perSource, left.total, budgets.class[source.class]})

Allowance(source, left, budgets) ==
  Min({budgets.perSource, left.total, left.class[source.class]})

(* Mutant of Identity: media types are not told apart.                     *)
IdentityOfContent(source) == <<source.class, source.content>>

(* What makes two sources the same: the same content in another class, or  *)
(* under another media type, is another source.                            *)
Identity(source) == <<source.class, source.media, source.content>>

(* One source in the loop of _select, `left` is what the earlier ones left;*)
(* `fetched` says how each source was retrieved.                           *)
Choice(source, fetched, left, budgets) ==
  LET allowance == Allowance(source, left, budgets)
      kept == CASE source.bytes <= allowance -> source.bytes
                [] source.truncation /\ source.bytes > allowance -> Prefix(source, allowance)
                [] OTHER -> 0
  IN  CASE fetched # "exact" -> [status |-> fetched, bytes |-> 0]
        [] fetched = "exact" /\ Identity(source) \in left.seen
             -> [status |-> "deduplicated", bytes |-> 0]
        [] OTHER -> [status |-> IF kept = source.bytes THEN "included"
                                ELSE IF kept > 0 THEN "truncated" ELSE "omitted",
                     bytes |-> kept]

(* sorted(candidates, key=_rank): the i-th has i - 1 before it.            *)
Ranked(sources) ==
  [i \in 1..Cardinality(sources) |->
     CHOOSE s \in sources : Cardinality({o \in sources : Before(o, s)}) = i - 1]

(* What one turn of the loop leaves of the budgets, has seen, and chooses. *)
Rest(source, fetched, left, budgets) ==
  LET choice == Choice(source, fetched, left, budgets)
  IN  [total |-> left.total - choice.bytes,
       class |-> [left.class EXCEPT ![source.class] = @ - choice.bytes],
       seen |-> IF fetched # "exact" THEN left.seen
                ELSE left.seen \cup {Identity(source)},
       chosen |-> [s \in DOMAIN left.chosen \cup {source} |->
                     IF s = source THEN choice ELSE left.chosen[s]]]

(* What the first i turns of the loop leave.                               *)
Leftovers(ranked, fetched, budgets) ==
  LET left[i \in 0..Len(ranked)] ==
        IF i = 0
        THEN [total |-> budgets.total, class |-> budgets.class, seen |-> {},
              chosen |-> [s \in {} |-> {}]]
        ELSE Rest(ranked[i], fetched[ranked[i]], left[i - 1], budgets)
  IN  left

(* _select: what is chosen of each of the candidates.                      *)
Select(sources, fetched, budgets) ==
  LET ranked == Ranked(sources)
  IN  Leftovers(ranked, fetched, budgets)[Len(ranked)].chosen

Emitted(choice) == choice.status \in {"included", "truncated"}

(* _select raises at the first required source that is not emitted.        *)
Complete(selection) ==
  \A s \in DOMAIN selection : s.required => Emitted(selection[s])

-----------------------------------------------------------------------------
NoRequest == [issue |-> {}, control |-> {}, context |-> {}, product |-> {},
              current |-> FALSE, inputs |-> {}, budgets |-> {}]

InitContext ==
  /\ c = [at |-> "idle", request |-> NoRequest, control |-> {}, fetched |-> {},
          pack |-> {}]
  /\ moment = {}

Turn(d) == c' = d /\ UNCHANGED <<moment, sourceVars>>

(* The lifecycle an Issue snapshot must have (_issue_snapshot): unlike     *)
(* Interpret, an Issue that was reopened has none.                         *)
Canonical(i) ==
  \/ i.open /\ i.reason = "none" /\ Cardinality(i.labels) = 1
  \/ ~i.open /\ i.reason = "completed" /\ i.labels = {}

Lifecycle(i) == IF i.open THEN CHOOSE l \in i.labels : TRUE ELSE "completed"

(* The author of the request reads one source after the other.             *)
AuthorReads ==
  /\ c.at = "idle"
  /\ \/ /\ c.request.issue = {} /\ Canonical(issue[Task])
        /\ Turn([c EXCEPT !.request.issue = {issue[Task]}])
     \/ \E r \in Repositories :
          /\ c.request[r] = {}
          /\ Turn([c EXCEPT !.request[r] = {heads[r]}])

CompleteRequest ==
  /\ c.at = "idle"
  /\ c.request.issue # {}
  /\ \A r \in Repositories : c.request[r] # {}
  /\ \E current \in BOOLEAN, choice \in Offers :
       c' = [c EXCEPT !.at = "control", !.request.current = current,
                      !.request.inputs = choice.inputs,
                      !.request.budgets = {choice.budgets}]
  /\ moment' = {[issue |-> issue, heads |-> heads]}
  /\ UNCHANGED sourceVars

Refuse == Turn([c EXCEPT !.at = "refused"])

(* Two observations; they are compared when both are made.                 *)
ObserveControl ==
  /\ c.at = "control"
  /\ Turn([c EXCEPT !.at = "context", !.control = {heads["control"]}])

HeadsFresh ==
  /\ c.control = c.request.control
  /\ {heads["context"]} = c.request.context

ObserveContext ==
  /\ c.at = "context"
  /\ IF HeadsFresh
     THEN Turn([c EXCEPT !.at = IF c.request.current THEN "product" ELSE "issue"])
     ELSE Refuse

ObserveProduct ==
  /\ c.at = "product"
  /\ IF {heads["product"]} = c.request.product
     THEN Turn([c EXCEPT !.at = "issue"])
     ELSE Refuse

(* Mutant of SameSnapshot: the lifecycle is compared and nothing else.     *)
SameLifecycle(i) ==
  Canonical(i) /\ \A s \in c.request.issue : Lifecycle(i) = Lifecycle(s)

SameSnapshot(i) == Canonical(i) /\ {i} = c.request.issue

FetchIssue ==
  /\ c.at = "issue"
  /\ IF SameSnapshot(issue[Task]) THEN Turn([c EXCEPT !.at = "fetch"]) ELSE Refuse

(* Sources are fetched by commit, path and digest, so that nothing that    *)
(* moves meanwhile matters.  A required one must be the exact one.          *)
Retrievals == {"exact", "unknown", "error"}
FetchSources ==
  /\ c.at = "fetch"
  /\ \/ \E f \in [c.request.inputs -> Retrievals] :
          /\ \A s \in DOMAIN f : s.required => f[s] = "exact"
          /\ Turn([c EXCEPT !.at = "select", !.fetched = {f}])
     \/ Refuse   (* a required source fails *)

Candidates == Mandatory \cup c.request.inputs

Retrieved ==
  LET fetched == CHOOSE f \in c.fetched : TRUE
  IN  [s \in Candidates |-> IF s \in DOMAIN fetched THEN fetched[s] ELSE "exact"]

Budgets == CHOOSE b \in c.request.budgets : TRUE

EmitPack ==
  /\ c.at = "select"
  /\ LET selection == Select(Candidates, Retrieved, Budgets)
     IN  IF Complete(selection)
         THEN Turn([c EXCEPT !.at = "packed", !.pack = {selection}])
         ELSE Refuse

ContextNext ==
  \/ AuthorReads \/ CompleteRequest \/ ObserveControl \/ ObserveContext
  \/ ObserveProduct \/ FetchIssue \/ FetchSources \/ EmitPack

OthersDuringContext ==
  /\ c.at \in {"idle", "control", "context", "product", "issue"}
  /\ c.request # NoRequest
  /\ Others
  /\ UNCHANGED contextVars

ContextSpec ==
  /\ InitContext /\ InitSources
  /\ [][ContextNext \/ OthersDuringContext]_<<contextVars, sourceVars>>

-----------------------------------------------------------------------------
ContextOK ==
  /\ c.at \in {"idle", "control", "context", "product", "issue", "fetch", "select",
              "packed", "refused"}
  /\ c.at # "idle" => moment # {} /\ c.request.budgets # {}
  /\ c.at = "select" => c.fetched # {}
  /\ (c.at = "packed") = (c.pack # {})

(* A pack that is called fresh is a picture of one moment: when its request*)
(* was complete, both protected heads, the Issue and, if the request asks  *)
(* for it, the product head were what the pack says, although the author   *)
(* and the compiler each read them one after the other.                    *)
PackIsASnapshot ==
  c.at = "packed" => \A m \in moment :
    /\ c.request.issue = {m.issue[Task]}
    /\ c.request.control = {m.heads["control"]}
    /\ c.request.context = {m.heads["context"]}
    /\ c.request.current => c.request.product = {m.heads["product"]}

EmittedBytes(selection, S) ==
  MapThenSumSet(LAMBDA s : selection[s].bytes, S)

(* Whatever the sizes, ranks and failures: no budget is exceeded.          *)
BudgetsHold ==
  \A selection \in c.pack :
    /\ EmittedBytes(selection, DOMAIN selection) <= Budgets.total
    /\ \A k \in Classes :
         EmittedBytes(selection, {s \in DOMAIN selection : s.class = k}) <= Budgets.class[k]
    /\ \A s \in DOMAIN selection : selection[s].bytes <= Budgets.perSource

(* Optional sources never take anything from required ones.                *)
OptionalNeverDisplaces ==
  \A selection \in c.pack :
    LET required == {s \in Candidates : s.required}
        alone == Select(required, Retrieved, Budgets)
    IN  \A s \in required : selection[s] = alone[s]

Twins(s, o) == s.class = o.class /\ s.media = o.media /\ s.content = o.content

(* What was left out for lack of budget would not fit into what is left in *)
(* the end either; what was left out as a duplicate has the same content   *)
(* as an earlier source of its class and media type, and no content of a   *)
(* class and media type is in a pack twice.                                *)
NothingFittingIsOmitted ==
  \A selection \in c.pack :
    LET left(k) == Min({Budgets.perSource,
                          Budgets.total - EmittedBytes(selection, DOMAIN selection),
                          Budgets.class[k] - EmittedBytes(selection,
                            {s \in DOMAIN selection : s.class = k})})
    IN  /\ \A s \in DOMAIN selection :
             /\ selection[s].status = "omitted" => s.bytes > left(s.class)
             /\ selection[s].status = "deduplicated" =>
                  \E o \in DOMAIN selection :
                    o # s /\ Twins(o, s) /\ Before(o, s)
        /\ \A s, o \in DOMAIN selection :
             s # o /\ Twins(s, o) =>
               ~(Emitted(selection[s]) /\ Emitted(selection[o]))
=============================================================================
