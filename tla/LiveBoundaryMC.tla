---------------------------- MODULE LiveBoundaryMC ----------------------------
(***************************************************************************)
(* Instances of LiveBoundary for TLC: requests of every kind the checks    *)
(* tell apart, and answers that are right or wrong in one or two ways.     *)
(***************************************************************************)
EXTENDS LiveBoundary

(* Sources 1 and 2 contradict each other, 3 was superseded by 2.           *)
Input(attempts) ==
  [id |-> 1, wellFormed |-> TRUE, bound |-> TRUE, public |-> TRUE,
   sources |-> <<1, 2, 3>>,
   conflicts |-> {[id |-> "k", sources |-> {1, 2}]},
   supersessions |-> {[old |-> 3, by |-> 2]},
   tokens |-> 2, bytes |-> 3,
   budgets |-> [inputBytes |-> 3, inputTokens |-> 2, outputBytes |-> 2,
                outputTokens |-> 8, attempts |-> attempts]]

Request(in) == [in |-> in, bound |-> TRUE, pack |-> "exact"]

Good == {Request(Input(n)) : n \in {1, 2}}

BadInputs ==
  LET in == Input(2)
  IN  {[in EXCEPT !.wellFormed = FALSE], [in EXCEPT !.bound = FALSE],
       [in EXCEPT !.sources = <<1, 3, 2>>], [in EXCEPT !.public = FALSE],
       [in EXCEPT !.bytes = 4], [in EXCEPT !.budgets.outputTokens = 9],
       [in EXCEPT !.conflicts = {[id |-> "k", sources |-> {1, 4}]}],
       [in EXCEPT !.supersessions = {[old |-> 3, by |-> 3]}]}

AllRequests ==
  Good \cup {Request(in) : in \in BadInputs}
       \cup {[Request(Input(2)) EXCEPT !.bound = FALSE]}
       \cup {[Request(Input(2)) EXCEPT !.pack = p] : p \in {"digest", "secret", "invalid"}}

Artifact(id, sources, marks) ==
  [id |-> id, sources |-> sources, public |-> TRUE, sorted |-> TRUE, bytes |-> 1,
   labels |-> marks.labels, conflicts |-> marks.conflicts, superseded |-> marks.superseded]

Marks ==
  [labels : SUBSET {"conflict", "superseded"}, conflicts : {{}, {"k"}},
   superseded : {{}, {3}}]

FullyMarked == [labels |-> {"conflict", "superseded"}, conflicts |-> {"k"},
                superseded |-> {3}]

Answer(artifacts) ==
  [schema |-> "v1", class |-> "derived", of |-> 1, sources |-> <<1, 2, 3>>,
   history |-> History(Input(2)),
   usage |-> [input |-> 2, output |-> 2, attempts |-> 1, bytes |-> Len(artifacts)],
   artifacts |-> artifacts]

AllAnswers ==
  LET one == {Artifact(1, s, m) : s \in {<<1>>, <<1, 2>>, <<2, 3>>, <<3>>}, m \in Marks}
      fine == Artifact(1, <<1>>, FullyMarked)
      wrong == {Artifact(2, s, FullyMarked) : s \in {<<2, 1>>, <<4>>, <<>>}}
                 \cup {[Artifact(2, <<3>>, FullyMarked) EXCEPT !.public = FALSE],
                       [Artifact(2, <<3>>, FullyMarked) EXCEPT !.sorted = FALSE],
                       [Artifact(2, <<3>>, FullyMarked) EXCEPT !.bytes = 2]}
      base == Answer(<<fine>>)
  IN  {Answer(<<a>>) : a \in one}
        \cup {Answer(<<fine, [a EXCEPT !.id = 2]>>) : a \in one \cup wrong}
        \cup {Answer(<<fine, fine>>), Answer(<<>>),
              Answer(<<Artifact(1, <<>>, FullyMarked)>>),
              [base EXCEPT !.schema = "other"], [base EXCEPT !.class = "authority"],
              [base EXCEPT !.class = "absent"], [base EXCEPT !.of = 2],
              [base EXCEPT !.sources = <<1, 2>>], [base EXCEPT !.history.conflicts = {}],
              [base EXCEPT !.usage.attempts = 2], [base EXCEPT !.usage.output = 9],
              [base EXCEPT !.usage.bytes = 2]}
=============================================================================
