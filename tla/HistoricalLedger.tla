--------------------------- MODULE HistoricalLedger ---------------------------
(***************************************************************************)
(* The historical claim ledger: its contract (historical_claim_contract.py)*)
(* the importer that generates it from exact sources                       *)
(* (historical_knowledge_importer.py), and its publication into hwm-context*)
(* by the contract of context_ledger_publisher_contract.py.                *)
(*                                                                         *)
(* Sessions generate a ledger each, read protected main of hwm-context,    *)
(* and post a publication request as a comment.  The trusted runtime there *)
(* (not part of this repository: external) runs a job for every request,   *)
(* decides by the contract's functions, publishes a candidate and posts a  *)
(* result; candidates are merged.                                          *)
(*                                                                         *)
(* A record of a corpus is [key, identity, status, rel]: `identity` is what*)
(* the claim id is computed from, `rel` names other records by key.        *)
(***************************************************************************)
EXTENDS Integers, Sequences, FiniteSets

CONSTANTS
  Sessions,    (* importer sessions                                        *)
  Corpora,     (* what a session may import                                *)
  RequestIds,
  Publications (* bound: how often other publications move main            *)

(* The statuses a claim may have.                                          *)
ClaimStatuses == {"supported", "superseded", "contradicted", "unverified"}

(* A corpus is a list of records.                                          *)
ASSUME CorporaAssumption == \A corpus \in Corpora : IsFiniteSet(corpus)

VARIABLES
  session,     (* what each session has read and generated                 *)
  context,     (* protected main of hwm-context: head and ledger           *)
  requests,    (* request comments, in their order                         *)
  job,         (* the runtime's job for each request                       *)
  results,     (* result comments                                          *)
  candidates   (* published candidates: [request, comment]                 *)

ledgerVars == <<session, context, requests, job, results, candidates>>

Relations == {"supersedes", "superseded_by", "conflicts_with"}

-----------------------------------------------------------------------------
(* validate_claim_semantics, as far as it is about status and relations.   *)
ClaimOK(c) ==
  /\ c.status \in ClaimStatuses
  /\ \A r \in Relations : c.id \notin c.rel[r]
  /\ CASE c.status = "supported" ->
            c.rel["superseded_by"] = {} /\ c.rel["conflicts_with"] = {}
       [] c.status = "superseded" ->
            c.rel["superseded_by"] # {} /\ c.rel["conflicts_with"] = {}
       [] c.status = "contradicted" ->
            /\ c.rel["supersedes"] = {} /\ c.rel["superseded_by"] = {}
            /\ c.rel["conflicts_with"] # {}
       [] c.status = "unverified" -> \A r \in Relations : c.rel[r] = {}

(* Mutant of LedgerOK: only the newer claim is asked about a supersession. *)
LedgerOKOneSided(claims) ==
  /\ \A c \in claims : ClaimOK(c)
  /\ \A c, d \in claims : c.id = d.id => c = d
  /\ \A c \in claims :
       /\ \A id \in c.rel["supersedes"] : \E d \in claims : d.id = id
       /\ \A id \in c.rel["conflicts_with"] :
            \E d \in claims : d.id = id /\ c.id \in d.rel["conflicts_with"]

(* validate_ledger with _deduplicate: an id stands for one claim, and both *)
(* ends of every relation know it.                                         *)
LedgerOK(claims) ==
  /\ \A c \in claims : ClaimOK(c)
  /\ \A c, d \in claims : c.id = d.id => c = d
  /\ \A c \in claims :
       /\ \A id \in c.rel["supersedes"] : \E d \in claims :
            d.id = id /\ d.status = "superseded" /\ c.id \in d.rel["superseded_by"]
       /\ \A id \in c.rel["superseded_by"] : \E d \in claims :
            d.id = id /\ c.id \in d.rel["supersedes"]
       /\ \A id \in c.rel["conflicts_with"] : \E d \in claims :
            d.id = id /\ d.status = "contradicted" /\ c.id \in d.rel["conflicts_with"]

(* build_conflict_index                                                    *)
ConflictIndex(claims) ==
  UNION {{{c.id, id} : id \in c.rel["conflicts_with"]} : c \in claims}

(* materialize_ledger: the two files, canonically ordered.                 *)
Materialized(claims) == [claims |-> claims, conflicts |-> ConflictIndex(claims)]

(* import_frozen_records: relations by record key become relations by id.  *)
Claim(corpus, record) ==
  [id |-> record.identity, status |-> record.status,
   rel |-> [r \in Relations |->
              {other.identity : other \in {o \in corpus : o.key \in record.rel[r]}}]]

CorpusOK(corpus) ==
  /\ \A r, s \in corpus : r.key = s.key => r = s
  /\ \A r \in corpus, n \in Relations : r.rel[n] \subseteq {s.key : s \in corpus}

Claims(corpus) == {Claim(corpus, r) : r \in corpus}

-----------------------------------------------------------------------------
NoLedger == Materialized({})

InitSession == [at |-> "idle", corpus |-> {}, ledger |-> {}, base |-> {}, seen |-> {}]

InitLedger ==
  /\ session = [s \in Sessions |-> InitSession]
  /\ context = [head |-> 0, ledger |-> NoLedger, changed |-> 0]
  /\ requests = <<>> /\ job = <<>>
  /\ results = {} /\ candidates = {}

SessionTurn(s, d) ==
  /\ session' = [session EXCEPT ![s] = d]
  /\ UNCHANGED <<context, requests, job, results, candidates>>

FailSession(s) == SessionTurn(s, [session[s] EXCEPT !.at = "failed"])

(* freeze_records: every source is resolved, or one is missing, ambiguous, *)
(* moved or not what is expected of it.                                    *)
Freeze(s) ==
  /\ session[s].at = "idle"
  /\ \/ \E corpus \in Corpora :
          SessionTurn(s, [session[s] EXCEPT !.at = "frozen", !.corpus = corpus])
     \/ FailSession(s)

(* import_frozen_records resolves them again, and generate_ledger.         *)
Import(s) ==
  /\ session[s].at = "frozen"
  /\ \/ /\ CorpusOK(session[s].corpus) /\ LedgerOK(Claims(session[s].corpus))
        /\ SessionTurn(s, [session[s] EXCEPT !.at = "read",
                      !.ledger = {Materialized(Claims(session[s].corpus))}])
     \/ FailSession(s)

(* What build_publication_request is called with is read from GitHub, the  *)
(* base and the existing blobs one after the other in either order.        *)
ReadContext(s) ==
  /\ session[s].at = "read"
  /\ \/ session[s].base = {} /\ SessionTurn(s, [session[s] EXCEPT !.base = {context.head}])
     \/ session[s].seen = {} /\ SessionTurn(s, [session[s] EXCEPT !.seen = {context.ledger}])

(* build_publication_request, and the comment.                             *)
Post(s) ==
  /\ session[s].at = "read" /\ session[s].base # {} /\ session[s].seen # {}
  /\ \/ /\ session[s].seen = session[s].ledger
        /\ SessionTurn(s, [session[s] EXCEPT !.at = "unchanged"])
     \/ /\ session[s].seen # session[s].ledger
        /\ \E id \in RequestIds :
             requests' = Append(requests, [id |-> id, base |-> session[s].base,
                                           replaces |-> session[s].seen,
                                           ledger |-> session[s].ledger])
        /\ job' = Append(job, "waiting")
        /\ session' = [session EXCEPT ![s].at = "posted"]
        /\ UNCHANGED <<context, results, candidates>>

(* No answer is seen: the same request is posted again.                    *)
PostAgain(s) ==
  /\ session[s].at = "posted"
  /\ \E n \in DOMAIN requests :
       /\ requests[n].ledger = session[s].ledger
       /\ requests' = Append(requests, requests[n])
  /\ job' = Append(job, "waiting")
  /\ session' = [session EXCEPT ![s].at = "reposted"]
  /\ UNCHANGED <<context, results, candidates>>

-----------------------------------------------------------------------------
(* Mutant of Classify: other requests of this id are not looked at.        *)
ClassifyByResults(n) ==
  LET of == {r \in results : requests[r].id = requests[n].id}
  IN  IF \E r \in of : requests[r] = requests[n] THEN "replay"
      ELSE IF of # {} THEN "REQUEST_ID_REUSE" ELSE "new"

(* classify_replay on the comments before this one: an id stands for one   *)
(* request.  A result is known by the comment it answers; the first listed *)
(* result of the id decides, whichever that is.                            *)
Classify(n) ==
  LET of == {r \in results : requests[r].id = requests[n].id}
      first == CHOOSE r \in of : \A q \in of : r <= q
  IN  IF \E m \in 1..(n - 1) : requests[m].id = requests[n].id /\ requests[m] # requests[n]
      THEN "REQUEST_ID_REUSE"
      ELSE IF of = {} THEN "new"
      ELSE IF requests[first] = requests[n] THEN "replay" ELSE "REQUEST_ID_REUSE"

Job(n, phase) == job' = [job EXCEPT ![n] = phase]

Decide(n) ==
  /\ job[n] = "waiting"
  /\ Job(n, IF Classify(n) = "new" THEN "new" ELSE Classify(n))
  /\ UNCHANGED <<session, context, requests, results, candidates>>

(* verify_expected_base and the state of the paths, then the candidate.    *)
Publish(n) ==
  /\ job[n] = "new"
  /\ IF requests[n].base = {context.head} /\ requests[n].replaces = {context.ledger}
     THEN Job(n, "published") /\ candidates' = candidates \cup {n}
     ELSE Job(n, "refused") /\ UNCHANGED candidates
  /\ UNCHANGED <<session, context, requests, results>>

(* Mutant of PostResult: a refused request is answered with success too.   *)
PostResultAlways(n) ==
  /\ job[n] \in {"published", "refused"}
  /\ Job(n, "done")
  /\ results' = results \cup {n}
  /\ UNCHANGED <<session, context, requests, candidates>>

(* result_success                                                          *)
PostResult(n) ==
  /\ job[n] = "published"
  /\ Job(n, "done")
  /\ results' = results \cup {n}
  /\ UNCHANGED <<session, context, requests, candidates>>

(* A candidate is merged if the files it replaces are those of its base.   *)
MergeCandidate(n) ==
  /\ n \in candidates
  /\ requests[n].replaces = {context.ledger}
  /\ \A base \in requests[n].base : context.changed <= base
  /\ \E ledger \in requests[n].ledger :
       context' = [head |-> context.head + 1, ledger |-> ledger,
                   changed |-> context.head + 1]
  /\ UNCHANGED <<session, requests, job, results, candidates>>

(* Other publications into hwm-context.                                    *)
OthersPublish ==
  /\ context.head < Publications
  /\ context' = [context EXCEPT !.head = @ + 1]
  /\ UNCHANGED <<session, requests, job, results, candidates>>

LedgerNext ==
  \/ \E s \in Sessions :
       Freeze(s) \/ Import(s) \/ ReadContext(s) \/ Post(s) \/ PostAgain(s)
  \/ \E n \in DOMAIN requests :
       Decide(n) \/ Publish(n) \/ PostResult(n) \/ MergeCandidate(n)
  \/ OthersPublish

LedgerSpec == InitLedger /\ [][LedgerNext]_ledgerVars

-----------------------------------------------------------------------------
LedgerTypeOK ==
  /\ \A s \in Sessions : session[s].at \in {"read", "posted", "reposted", "unchanged"}
                           => session[s].ledger # {}
  /\ Len(job) = Len(requests)
  /\ results \subseteq candidates /\ candidates \subseteq DOMAIN requests

(* The ledger on main is always one ledger: every claim that is superseded *)
(* has its successor in it and the other way round, what is contradicted   *)
(* is so by a claim that is contradicted by it, a claim that is supported  *)
(* is neither, and the conflict index lists every contradiction.           *)
LedgerIsConsistent ==
  LET claims == context.ledger.claims
      ids == {c.id : c \in claims}
      of(r) == {p \in ids \X ids : \E c \in claims : c.id = p[1] /\ p[2] \in c.rel[r]}
      swapped(R) == {<<p[2], p[1]>> : p \in R}
      status(v) == {c.id : c \in {d \in claims : d.status = v}}
  IN  /\ Cardinality(ids) = Cardinality(claims)
      /\ \A c \in claims, r \in Relations : c.rel[r] \subseteq ids \ {c.id}
      /\ of("superseded_by") = swapped(of("supersedes"))
      /\ of("conflicts_with") = swapped(of("conflicts_with"))
      /\ status("superseded") = {p[1] : p \in of("superseded_by")}
      /\ status("contradicted") = {p[1] : p \in of("conflicts_with")}
      /\ context.ledger.conflicts = {{p[1], p[2]} : p \in of("conflicts_with")}

(* A request id stands for one request whatever is posted again or         *)
(* changed, and however late a result is posted: two candidates of one id  *)
(* are the same request, and who is told "replay" posted what was published.*)
IdsStandForOneRequest ==
  /\ \A m, n \in candidates : requests[m].id = requests[n].id => requests[m] = requests[n]
  /\ \A n \in DOMAIN job : job[n] = "replay" =>
       \E m \in candidates : requests[m] = requests[n]
=============================================================================
