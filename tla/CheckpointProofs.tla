------------------------- MODULE CheckpointProofs -------------------------
(***************************************************************************)
(* Theorems about CheckpointExtractor, for every set of runs, commits and  *)
(* gates and every number of steps of the product's CI.                    *)
(***************************************************************************)
EXTENDS CheckpointExtractor, TLAPS, FiniteSetTheorems

-----------------------------------------------------------------------------
(* What NewestFirst makes of a finite set of runs.                         *)

Newer(S, r) == {q \in S : q > r}

LEMMA NewerIsFewer ==
  ASSUME NEW S \in SUBSET Nat, IsFiniteSet(S), NEW r \in S, NEW s \in S, r < s
  PROVE  /\ Cardinality(Newer(S, s)) < Cardinality(Newer(S, r))
         /\ Cardinality(Newer(S, s)) \in Nat /\ Cardinality(Newer(S, r)) \in Nat
<1>a. r \in Nat /\ s \in Nat /\ \A q \in S : q \in Nat
  OBVIOUS
<1>1. Newer(S, s) \subseteq Newer(S, r) /\ s \in Newer(S, r) /\ s \notin Newer(S, s)
  <2>1. ASSUME NEW q \in Newer(S, s) PROVE q \in Newer(S, r)
    <3>1. q \in S /\ q > s
      BY <2>1 DEF Newer
    <3>2. q \in Nat /\ q > r
      BY <1>a, <3>1
    <3> QED BY <3>1, <3>2 DEF Newer
  <2>2. s > r /\ ~(s > s)
    BY <1>a
  <2> QED BY <2>1, <2>2 DEF Newer
<1>2. IsFiniteSet(Newer(S, r)) /\ IsFiniteSet(Newer(S, s))
  BY FS_Subset DEF Newer
<1>3. Cardinality(Newer(S, s)) <= Cardinality(Newer(S, r))
      /\ (Cardinality(Newer(S, s)) = Cardinality(Newer(S, r)) => Newer(S, s) = Newer(S, r))
  BY <1>1, <1>2, FS_Subset
<1>4. Cardinality(Newer(S, s)) \in Nat /\ Cardinality(Newer(S, r)) \in Nat
  BY <1>2, FS_CardinalityType
<1> QED BY <1>1, <1>3, <1>4

(* Every number below the size of the set is the number of newer runs of   *)
(* exactly one of them.                                                    *)
LEMMA RanksAreTaken ==
  ASSUME NEW S \in SUBSET Nat, IsFiniteSet(S), NEW i \in 1..Cardinality(S)
  PROVE  \E r \in S : Cardinality(Newer(S, r)) = i - 1
<1> DEFINE n == Cardinality(S)
           rank == [r \in S |-> Cardinality(Newer(S, r)) + 1]
<1>1. n \in Nat
  BY FS_CardinalityType
<1>2. ASSUME NEW r \in S PROVE Cardinality(Newer(S, r)) + 1 \in 1..n
  <2>1. Newer(S, r) \subseteq S /\ r \notin Newer(S, r)
    BY DEF Newer
  <2>2. Cardinality(Newer(S, r)) < n /\ Cardinality(Newer(S, r)) \in Nat
    BY <2>1, <1>1, FS_Subset, FS_CardinalityType
  <2> QED BY <2>2, <1>1
<1>3. ASSUME NEW r \in S, NEW s \in S, rank[r] = rank[s] PROVE r = s
  BY <1>3, NewerIsFewer
<1>4. rank \in Injection(S, 1..n)
  BY <1>2, <1>3 DEF Injection, IsInjective
<1>5. IsFiniteSet(1..n) /\ Cardinality(1..n) = n
  BY <1>1, FS_Interval
<1>6. rank \in Surjection(S, 1..n)
  BY <1>4, <1>5, FS_Injection
<1>7. PICK r \in S : rank[r] = i
  BY <1>6 DEF Surjection
<1>8. Cardinality(Newer(S, r)) \in Nat
  BY FS_Subset, FS_CardinalityType DEF Newer
<1> QED BY <1>7, <1>8

LEMMA NewestFirstIsSorted ==
  ASSUME NEW S \in SUBSET Runs
  PROVE  /\ NewestFirst(S) \in Seq(S)
         /\ Len(NewestFirst(S)) = Cardinality(S)
         /\ Cardinality(S) \in Nat
         /\ \A i, j \in 1..Cardinality(S) : i < j => NewestFirst(S)[i] > NewestFirst(S)[j]
         /\ \A r \in S : \E i \in 1..Cardinality(S) : NewestFirst(S)[i] = r
<1>1. S \in SUBSET Nat /\ IsFiniteSet(S) /\ Cardinality(S) \in Nat
  BY RunsAssumption, FS_Subset, FS_CardinalityType
<1>2. ASSUME NEW i \in 1..Cardinality(S)
      PROVE  NewestFirst(S)[i] \in S /\ Cardinality(Newer(S, NewestFirst(S)[i])) = i - 1
  <2>1. NewestFirst(S)[i] = CHOOSE r \in S : Cardinality(Newer(S, r)) = i - 1
    BY DEF NewestFirst, Newer
  <2>2. \E r \in S : Cardinality(Newer(S, r)) = i - 1
    BY <1>1, RanksAreTaken
  <2> QED BY <2>1, <2>2
<1>3. ASSUME NEW i \in 1..Cardinality(S), NEW j \in 1..Cardinality(S), i < j
      PROVE  NewestFirst(S)[i] > NewestFirst(S)[j]
  <2>1. /\ NewestFirst(S)[i] \in Nat /\ NewestFirst(S)[j] \in Nat
        /\ NewestFirst(S)[i] \in S /\ NewestFirst(S)[j] \in S
        /\ Cardinality(Newer(S, NewestFirst(S)[i])) = i - 1
        /\ Cardinality(Newer(S, NewestFirst(S)[j])) = j - 1
    BY <1>1, <1>2
  <2>2. CASE NewestFirst(S)[i] = NewestFirst(S)[j]
    BY <1>3, <2>1, <2>2
  <2>3. CASE NewestFirst(S)[i] < NewestFirst(S)[j]
    BY <1>1, <1>3, <2>1, <2>3, NewerIsFewer
  <2> QED BY <2>1, <2>2, <2>3
<1>4. ASSUME NEW r \in S PROVE \E i \in 1..Cardinality(S) : NewestFirst(S)[i] = r
  <2> DEFINE i == Cardinality(Newer(S, r)) + 1
  <2>a. \A q \in S : q \in Nat
    BY <1>1
  <2>1. Newer(S, r) \subseteq S /\ r \notin Newer(S, r)
    BY <2>a DEF Newer
  <2>2. Cardinality(Newer(S, r)) < Cardinality(S) /\ Cardinality(Newer(S, r)) \in Nat
    BY <2>1, <1>1, FS_Subset, FS_CardinalityType
  <2>3. i \in 1..Cardinality(S) /\ Cardinality(Newer(S, r)) = i - 1
    BY <2>2, <1>1
  <2> HIDE DEF i
  <2>4. /\ NewestFirst(S)[i] \in S
        /\ Cardinality(Newer(S, NewestFirst(S)[i])) = Cardinality(Newer(S, r))
    BY <1>2, <2>3
  <2>5. NewestFirst(S)[i] = r
    <3> DEFINE q == NewestFirst(S)[i]
    <3> HIDE DEF q
    <3>1. q \in S /\ q \in Nat /\ r \in Nat
      BY <2>4, <2>a DEF q
    <3>2. Cardinality(Newer(S, q)) = Cardinality(Newer(S, r))
      BY <2>4 DEF q
    <3>3. ~(q < r) /\ ~(r < q)
      BY <1>1, <3>1, <3>2, NewerIsFewer
    <3> QED BY <3>1, <3>3 DEF q
  <2> QED BY <2>3, <2>5
<1>5. NewestFirst(S) = [i \in 1..Cardinality(S) |-> NewestFirst(S)[i]]
  BY DEF NewestFirst
<1>6. NewestFirst(S) \in Seq(S) /\ Len(NewestFirst(S)) = Cardinality(S)
  BY <1>1, <1>2, <1>5
<1> QED BY <1>1, <1>3, <1>4, <1>6

-----------------------------------------------------------------------------
(* The product's CI: what succeeded stays on record, and what is settled   *)
(* about a gate stays so until the gate is run again.                      *)

Listings == Seq(Conclusions \cup {"running"})

CITypes ==
  /\ ci \in [Runs -> Run]
  /\ \A r \in Runs, g \in Gates : ci[r].state # "absent" => ci[r].checks[g] # <<>>

SettledInv ==
  /\ settled \in [Runs -> [Gates -> {"open", "green", "red"}]]
  /\ \A r \in Runs, g \in Gates : settled[r][g] # "open" => ci[r].state # "absent"
  /\ \A r \in Runs, g \in Gates : settled[r][g] = "red" => Latest(r, g) = "failure"
  /\ \A r \in Runs, g \in Gates : settled[r][g] = "green" =>
       Latest(r, g) = "success" /\ "success" \in ci[r].posted[g]

Passed(run, g) == "success" \in ToSet(run.checks[g])

(* What may become of a run: its successes stay, and its last conclusion   *)
(* too unless the gate is not settled.                                     *)
Develops(r, new) ==
  /\ ci' = [ci EXCEPT ![r] = new]
  /\ new \in Run /\ new.state # "absent"
  /\ \A g \in Gates :
       /\ new.checks[g] # <<>>
       /\ Passed(ci[r], g) => Passed(new, g)
       /\ ci[r].posted[g] \subseteq new.posted[g]
       /\ settled'[r][g] # "open" /\ settled[r][g] # "open" =>
            Last(new.checks[g]) = Last(ci[r].checks[g])

LEMMA AppendKeeps ==
  ASSUME NEW s \in Listings, NEW c \in Conclusions \cup {"running"}
  PROVE  /\ Append(s, c) \in Listings /\ Append(s, c) # <<>>
         /\ Last(Append(s, c)) = c
         /\ "success" \in ToSet(s) => "success" \in ToSet(Append(s, c))
<1>1. /\ Append(s, c) \in Listings /\ Len(Append(s, c)) = Len(s) + 1 /\ Len(s) \in Nat
      /\ \A i \in 1..Len(s) : Append(s, c)[i] = s[i]
      /\ Append(s, c)[Len(s) + 1] = c
  BY DEF Listings
<1>2. DOMAIN s = 1..Len(s) /\ DOMAIN Append(s, c) = 1..(Len(s) + 1)
  BY <1>1 DEF Listings
<1>3. \A i \in DOMAIN s : i \in DOMAIN Append(s, c) /\ Append(s, c)[i] = s[i]
  BY <1>1, <1>2
<1>4. "success" \in ToSet(s) => "success" \in ToSet(Append(s, c))
  BY <1>3 DEF ToSet
<1>5. Append(s, c) # <<>>
  BY <1>1
<1> QED BY <1>1, <1>4, <1>5 DEF Last

LEMMA EndingKeeps ==
  ASSUME NEW s \in Listings, s # <<>>, Last(s) = "running", NEW c \in Conclusions
  PROVE  /\ [s EXCEPT ![Len(s)] = c] \in Listings /\ [s EXCEPT ![Len(s)] = c] # <<>>
         /\ "success" \in ToSet(s) => "success" \in ToSet([s EXCEPT ![Len(s)] = c])
<1> DEFINE e == [s EXCEPT ![Len(s)] = c]
<1>1. Len(s) \in Nat \ {0} /\ DOMAIN s = 1..Len(s) /\ s[Len(s)] = "running"
  BY DEF Listings, Last
<1>2. s \in [1..Len(s) -> Conclusions \cup {"running"}]
  BY DEF Listings
<1>3. e \in [1..Len(s) -> Conclusions \cup {"running"}]
  BY <1>1, <1>2
<1>4. e \in Listings /\ DOMAIN e = 1..Len(s)
  BY <1>1, <1>3 DEF Listings
<1>5. e # <<>>
  BY <1>1, <1>4
<1>6. ASSUME NEW i \in DOMAIN s, s[i] = "success" PROVE i \in DOMAIN e /\ e[i] = "success"
  BY <1>1, <1>2, <1>6
<1> QED BY <1>4, <1>5, <1>6 DEF ToSet

LEMMA AttemptDevelops ==
  ASSUME CITypes, NEW r \in Runs, NEW jobs \in SUBSET Gates,
         \A g \in Gates \ jobs : ci[r].checks[g] # <<>>
  PROVE  /\ Attempt(r, jobs) \in Run /\ Attempt(r, jobs).state = "active"
         /\ \A g \in Gates :
              /\ Attempt(r, jobs).checks[g] # <<>>
              /\ Passed(ci[r], g) => Passed(Attempt(r, jobs), g)
              /\ ci[r].posted[g] = Attempt(r, jobs).posted[g]
              /\ g \notin jobs =>
                   Last(Attempt(r, jobs).checks[g]) = Last(ci[r].checks[g])
<1> DEFINE old == ci[r]
           checks == [g \in Gates |-> IF g \in jobs THEN Append(old.checks[g], "running")
                                      ELSE old.checks[g]]
           new == [old EXCEPT !.state = "active", !.checks = checks]
<1>1. /\ old \in Run /\ old.checks \in [Gates -> Listings]
      /\ old.posted \in [Gates -> SUBSET {"success", "other"}]
  BY DEF CITypes, Run, Listings
<1>2. Attempt(r, jobs) = new
  BY DEF Attempt
<1>3. ASSUME NEW g \in Gates
      PROVE  /\ checks[g] \in Listings /\ checks[g] # <<>>
             /\ "success" \in ToSet(old.checks[g]) => "success" \in ToSet(checks[g])
             /\ g \notin jobs => checks[g] = old.checks[g]
  <2>1. CASE g \in jobs
    BY <1>1, <2>1, AppendKeeps
  <2>2. CASE g \notin jobs
    BY <1>1, <2>2
  <2> QED BY <2>1, <2>2
<1>4. checks \in [Gates -> Listings]
  BY <1>3
<1> HIDE DEF checks, old
<1>5. new.state = "active" /\ new.checks = checks /\ new.posted = old.posted
  BY <1>1 DEF Run
<1>6. new \in Run
  BY <1>1, <1>4 DEF Run, Listings
<1> QED BY <1>1, <1>2, <1>3, <1>5, <1>6 DEF Passed, old

LEMMA CIDevelops ==
  ASSUME CITypes, SettledInv, ProductCI
  PROVE  /\ x' = x /\ unseen' = unseen
         /\ \E r \in Runs, new \in Run : Develops(r, new)
         /\ settled' \in [Runs -> [Gates -> {"open", "green", "red"}]]
         /\ \A r \in Runs, g \in Gates : settled'[r][g] \in {"open", settled[r][g]}
<1>1. x' = x /\ unseen' = unseen
  BY DEF ProductCI, Begin, Rerun, PostStatus, JobEnds, StepOfCI
<1>2. ASSUME NEW r \in Runs, Begin(r) PROVE Develops(r, Attempt(r, Gates)) /\ settled' = settled
  <2>1. settled' = settled /\ ci' = [ci EXCEPT ![r] = Attempt(r, Gates)]
        /\ ci[r].state = "absent"
    BY <1>2 DEF Begin
  <2>2. \A g \in Gates : settled[r][g] = "open"
    BY <2>1 DEF SettledInv
  <2> QED BY <2>1, <2>2, AttemptDevelops DEF Develops
<1>3. ASSUME NEW r \in Runs, NEW jobs \in SUBSET Gates, Rerun(r, jobs)
      PROVE  /\ Develops(r, Attempt(r, jobs))
             /\ settled' \in [Runs -> [Gates -> {"open", "green", "red"}]]
             /\ \A q \in Runs, g \in Gates : settled'[q][g] \in {"open", settled[q][g]}
  <2> DEFINE now == [g \in Gates |-> IF g \in jobs THEN "open" ELSE settled[r][g]]
  <2>1. /\ settled' = [settled EXCEPT ![r] = now]
        /\ ci' = [ci EXCEPT ![r] = Attempt(r, jobs)]
        /\ ci[r].state = "completed"
    BY <1>3 DEF Rerun
  <2>2. /\ settled \in [Runs -> [Gates -> {"open", "green", "red"}]]
        /\ now \in [Gates -> {"open", "green", "red"}]
        /\ \A g \in Gates : now[g] \in {"open", settled[r][g]} /\ (g \in jobs => now[g] = "open")
    BY DEF SettledInv
  <2> HIDE DEF now
  <2>3. settled' \in [Runs -> [Gates -> {"open", "green", "red"}]] /\ settled'[r] = now
    BY <2>1, <2>2
  <2>4. \A q \in Runs, g \in Gates : settled'[q][g] \in {"open", settled[q][g]}
    <3> SUFFICES ASSUME NEW q \in Runs, NEW g \in Gates
                 PROVE  settled'[q][g] \in {"open", settled[q][g]}
      OBVIOUS
    <3>1. CASE q = r
      BY <3>1, <2>2, <2>3
    <3>2. CASE q # r
      BY <3>2, <2>1, <2>2
    <3> QED BY <3>1, <3>2
  <2>5. \A g \in Gates : ci[r].checks[g] # <<>>
    BY <2>1 DEF CITypes
  <2>6. Develops(r, Attempt(r, jobs))
    BY <2>1, <2>2, <2>3, <2>5, AttemptDevelops DEF Develops
  <2> QED BY <2>3, <2>4, <2>6
<1>4. ASSUME NEW r \in Runs, NEW g \in Gates, PostStatus(r, g)
      PROVE  settled' = settled /\ \E new : Develops(r, new)
  <2>1. PICK s \in {"success", "other"} :
          ci' = [ci EXCEPT ![r] = [ci[r] EXCEPT !.posted =
                    [ci[r].posted EXCEPT ![g] = ci[r].posted[g] \cup {s}]]]
    BY <1>4 DEF PostStatus
  <2>2. settled' = settled /\ ci[r].state # "absent"
    BY <1>4 DEF PostStatus, Begun
  <2> DEFINE old == ci[r]
             posted == [old.posted EXCEPT ![g] = old.posted[g] \cup {s}]
             new == [old EXCEPT !.posted = posted]
  <2>3. /\ old \in Run /\ old.checks \in [Gates -> Listings]
        /\ old.posted \in [Gates -> SUBSET {"success", "other"}]
    BY DEF CITypes, Run, Listings
  <2>4. /\ posted \in [Gates -> SUBSET {"success", "other"}]
        /\ \A h \in Gates : old.posted[h] \subseteq posted[h]
    BY <2>3
  <2>5. \A h \in Gates : old.checks[h] # <<>>
    BY <2>2 DEF CITypes
  <2>6. ci' = [ci EXCEPT ![r] = new]
    BY <2>1
  <2> HIDE DEF posted, old
  <2>7. new \in Run /\ new.state = old.state /\ new.checks = old.checks /\ new.posted = posted
    BY <2>3, <2>4 DEF Run
  <2> HIDE DEF new
  <2>8. Develops(r, new)
    BY <2>2, <2>4, <2>5, <2>6, <2>7 DEF Develops, Passed, old
  <2> QED BY <2>2, <2>8
<1>5. ASSUME NEW r \in Runs, NEW g \in Gates, NEW c \in Conclusions, JobEnds(r, g, c)
      PROVE  settled' = settled /\ \E new : Develops(r, new)
  <2> DEFINE old == ci[r]
             ended == [old.checks[g] EXCEPT ![Len(old.checks[g])] = c]
             checks == [old.checks EXCEPT ![g] = ended]
             state == IF \A h \in Gates \ {g} : Latest(r, h) # "running"
                      THEN "completed" ELSE "active"
             new == [old EXCEPT !.checks = checks, !.state = state]
  <2>1. /\ old \in Run /\ old.checks \in [Gates -> Listings]
        /\ old.posted \in [Gates -> SUBSET {"success", "other"}]
    BY DEF CITypes, Run, Listings
  <2>2. settled' = settled /\ old.state = "active" /\ Latest(r, g) = "running"
    BY <1>5 DEF JobEnds
  <2>3. ci' = [ci EXCEPT ![r] = new]
    BY <1>5, <2>1 DEF JobEnds, CITypes, Run
  <2>4. \A h \in Gates : old.checks[h] # <<>>
    BY <2>2 DEF CITypes
  <2>5. old.checks[g] \in Listings /\ Last(old.checks[g]) = "running"
    BY <2>1, <2>2 DEF Latest
  <2> HIDE DEF old
  <2>6. /\ ended \in Listings /\ ended # <<>>
        /\ "success" \in ToSet(old.checks[g]) => "success" \in ToSet(ended)
    BY <2>4, <2>5, EndingKeeps
  <2> HIDE DEF ended
  <2>7. /\ checks \in [Gates -> Listings]
        /\ \A h \in Gates : /\ checks[h] # <<>>
                            /\ "success" \in ToSet(old.checks[h]) => "success" \in ToSet(checks[h])
                            /\ h # g => checks[h] = old.checks[h]
    BY <2>1, <2>4, <2>6
  <2>8. state \in {"completed", "active"}
    OBVIOUS
  <2> HIDE DEF checks, state
  <2>9. new \in Run /\ new.state = state /\ new.checks = checks /\ new.posted = old.posted
    BY <2>1, <2>7, <2>8 DEF Run, Listings
  <2>10. settled[r][g] = "open"
    BY <2>2 DEF SettledInv
  <2> HIDE DEF new
  <2>11. Develops(r, new)
    BY <2>2, <2>3, <2>7, <2>8, <2>9, <2>10 DEF Develops, Passed, old
  <2> QED BY <2>2, <2>11
<1>6. settled' = settled =>
        /\ settled' \in [Runs -> [Gates -> {"open", "green", "red"}]]
        /\ \A r \in Runs, g \in Gates : settled'[r][g] \in {"open", settled[r][g]}
  BY DEF SettledInv
<1>7. \A r \in Runs : \A new : Develops(r, new) => new \in Run
  BY DEF Develops
<1>8. \E r \in Runs : \E new : Develops(r, new)
  BY <1>2, <1>3, <1>4, <1>5 DEF ProductCI
<1>9. \E r \in Runs, new \in Run : Develops(r, new)
  BY <1>7, <1>8
<1> QED BY <1>1, <1>2, <1>3, <1>4, <1>5, <1>6, <1>9 DEF ProductCI

LEMMA CIKeeps ==
  ASSUME CITypes, SettledInv, ProductCI
  PROVE  /\ CITypes' /\ SettledInv' /\ x' = x /\ unseen' = unseen
         /\ \A r \in Runs, g \in Gates :
              /\ Passed(ci[r], g) => Passed(ci'[r], g)
              /\ ci[r].posted[g] \subseteq ci'[r].posted[g]
              /\ settled'[r][g] \in {"open", settled[r][g]}
         /\ \A r \in Runs : ci[r].state # "absent" => ci'[r].state # "absent"
<1>1. PICK q \in Runs, new \in Run : Develops(q, new)
  BY CIDevelops
<1>2. /\ settled' \in [Runs -> [Gates -> {"open", "green", "red"}]]
      /\ \A r \in Runs, g \in Gates : settled'[r][g] \in {"open", settled[r][g]}
      /\ x' = x /\ unseen' = unseen
  BY CIDevelops
<1>3. ci' = [ci EXCEPT ![q] = new] /\ new \in Run /\ new.state # "absent"
  BY <1>1 DEF Develops
<1>4. ci' \in [Runs -> Run] /\ ci'[q] = new /\ \A r \in Runs \ {q} : ci'[r] = ci[r]
  BY <1>3 DEF CITypes
<1>5. ASSUME NEW r \in Runs, NEW g \in Gates
      PROVE  /\ ci'[r].state # "absent" => ci'[r].checks[g] # <<>>
             /\ Passed(ci[r], g) => Passed(ci'[r], g)
             /\ ci[r].posted[g] \subseteq ci'[r].posted[g]
             /\ settled'[r][g] # "open" =>
                  /\ ci'[r].state # "absent"
                  /\ Last(ci'[r].checks[g]) = Last(ci[r].checks[g])
  <2>1. settled'[r][g] # "open" => settled[r][g] # "open" /\ ci[r].state # "absent"
    BY <1>2 DEF SettledInv
  <2>2. CASE r = q
    BY <1>1, <1>3, <1>4, <2>1, <2>2 DEF Develops
  <2>3. CASE r # q
    BY <1>4, <2>1, <2>3 DEF CITypes
  <2> QED BY <2>2, <2>3
<1>6. CITypes'
  BY <1>4, <1>5 DEF CITypes
<1>7. SettledInv'
  <2> SUFFICES ASSUME NEW r \in Runs, NEW g \in Gates
               PROVE  /\ settled'[r][g] # "open" => ci'[r].state # "absent"
                      /\ settled'[r][g] = "red" => Last(ci'[r].checks[g]) = "failure"
                      /\ settled'[r][g] = "green" =>
                           /\ Last(ci'[r].checks[g]) = "success"
                           /\ "success" \in ci'[r].posted[g]
    BY <1>2 DEF SettledInv, Latest
  <2>1. settled'[r][g] \in {"open", settled[r][g]}
    BY <1>2
  <2> QED BY <1>5, <2>1 DEF SettledInv, Latest
<1>8. \A r \in Runs : ci[r].state # "absent" => ci'[r].state # "absent"
  BY <1>3, <1>4
<1> QED BY <1>2, <1>5, <1>6, <1>7, <1>8

-----------------------------------------------------------------------------
(* What the listings say of a gate.                                        *)

LEMMA EvidenceOfChecks ==
  ASSUME NEW l \in Listings
  PROVE  /\ CheckEvidence(l) \in {"missing", "failed", "success", "error"}
         /\ CheckEvidence(l) = "success" =>
              "success" \in ToSet(l) /\ "failure" \notin ToSet(l)
         /\ l # <<>> /\ Last(l) = "success" => CheckEvidence(l) \in {"success", "error"}
<1> DEFINE found == {i \in DOMAIN l : l[i] # "none"}
           missing == found = {}
           failed == found # {} /\ \A i \in found : l[i] = "failure"
           success == (\A i \in found : l[i] = "success") /\ \E i \in found : found = {i}
<1>1. CheckEvidence(l) = CASE missing -> "missing" [] failed -> "failed"
                           [] success -> "success" [] OTHER -> "error"
  BY DEF CheckEvidence
<1>2. ~(missing /\ failed) /\ ~(missing /\ success)
  OBVIOUS
<1>3. ~(failed /\ success)
  BY "failure" # "success"
<1>4. success => "success" \in ToSet(l) /\ "failure" \notin ToSet(l)
  <2> SUFFICES ASSUME success PROVE "success" \in ToSet(l) /\ "failure" \notin ToSet(l)
    OBVIOUS
  <2>1. PICK i \in found : found = {i} /\ l[i] = "success"
    OBVIOUS
  <2>2. "success" \in ToSet(l)
    BY <2>1 DEF ToSet
  <2>3. ASSUME NEW j \in DOMAIN l PROVE l[j] # "failure"
    BY <2>1
  <2> QED BY <2>2, <2>3 DEF ToSet
<1>5. l # <<>> /\ Last(l) = "success" => ~missing /\ ~failed
  <2> SUFFICES ASSUME l # <<>>, Last(l) = "success" PROVE ~missing /\ ~failed
    OBVIOUS
  <2>1. Len(l) \in DOMAIN l /\ l[Len(l)] = "success"
    BY DEF Listings, Last
  <2>2. Len(l) \in found
    BY <2>1
  <2> QED BY <2>1, <2>2
<1> HIDE DEF missing, failed, success
<1>6. /\ missing => CheckEvidence(l) = "missing"
      /\ failed => CheckEvidence(l) = "failed"
      /\ success => CheckEvidence(l) = "success"
      /\ ~missing /\ ~failed /\ ~success => CheckEvidence(l) = "error"
  BY <1>1, <1>2, <1>3
<1> QED BY <1>4, <1>5, <1>6

LEMMA EvidenceOfStatuses ==
  ASSUME NEW l, NEW r, NEW g
  PROVE  /\ StatusEvidence(l, r, g) \in {"missing", "failed", "success"}
         /\ StatusEvidence(l, r, g) = "success" <=> <<r, g, "success">> \in l
BY DEF StatusEvidence

LEMMA VerdictOfEvidence ==
  ASSUME NEW checks \in [Gates -> Listings], NEW statuses, NEW r, NEW g \in Gates
  PROVE  /\ Verdict(r, g, checks, statuses) \in {"known", "error", "older"}
         /\ Verdict(r, g, checks, statuses) = "known" <=>
              /\ CheckEvidence(checks[g]) = "success"
              /\ <<r, g, "success">> \in statuses
         /\ /\ CheckEvidence(checks[g]) \in {"success", "error"}
            /\ <<r, g, "success">> \in statuses
            => Verdict(r, g, checks, statuses) \in {"known", "error"}
<1> DEFINE c == CheckEvidence(checks[g])
           s == StatusEvidence(statuses, r, g)
<1>1. c \in {"missing", "failed", "success", "error"}
  BY EvidenceOfChecks
<1>2. /\ s \in {"missing", "failed", "success"}
      /\ s = "success" <=> <<r, g, "success">> \in statuses
  BY EvidenceOfStatuses
<1>3. Verdict(r, g, checks, statuses) =
        CASE c = "error" -> "error"
          [] c = "success" /\ s = "success" -> "known"
          [] {c, s} = {"success", "failed"} -> "error"
          [] OTHER -> "older"
  BY DEF Verdict
<1> HIDE DEF c, s
<1>4. Verdict(r, g, checks, statuses) = "known" <=> c = "success" /\ s = "success"
  BY <1>1, <1>2, <1>3
<1>5. Verdict(r, g, checks, statuses) \in {"known", "error", "older"}
  BY <1>1, <1>2, <1>3
<1>6. c = "error" => Verdict(r, g, checks, statuses) = "error"
  BY <1>2, <1>3
<1> QED BY <1>2, <1>4, <1>5, <1>6 DEF c

-----------------------------------------------------------------------------
(* The extraction by itself.                                               *)

ExtractionFields == {"at", "order", "next", "checks", "statuses", "outcome"}

ExtractionTypes ==
  /\ DOMAIN x = ExtractionFields
  /\ x.at \in {"idle", "checks", "statuses", "done"}
  /\ x.order \in Seq(Runs)
  /\ x.next \in 1..(Len(x.order) + 1)
  /\ x.checks \in [Runs -> SUBSET [Gates -> Listings]]
  /\ x.statuses \in [Shas -> SUBSET SUBSET (Runs \X Gates \X {"success", "other"})]
  /\ x.outcome \in [Gates -> Outcome]
  /\ x.at \in {"checks", "statuses"} => x.next <= Len(x.order)
  /\ x.at = "done" => \A g \in Gates : Decided(x.outcome[g])
  /\ x.at = "idle" => /\ x.next = 1 /\ x.order = <<>>
                      /\ \A g \in Gates : x.outcome[g] = Undecided
                      /\ \A r \in Runs : x.checks[r] = {}
                      /\ \A s \in Shas : x.statuses[s] = {}

LEMMA Outcomes ==
  /\ Undecided \in Outcome /\ Unknown \in Outcome /\ Failed \in Outcome
  /\ \A r \in Runs : Known(r) \in Outcome
  /\ Undecided # Unknown /\ Undecided # Failed
  /\ \A r \in Runs : Known(r) # Undecided /\ Known(r).status = "known" /\ Known(r).run = r
  /\ Unknown.status # "known" /\ Failed.status = "error" /\ Undecided.status # "known"
  /\ Unknown.status # "error"
BY DEF Undecided, Unknown, Failed, Known, Outcome

(* The next turn of the loop, or its end.                                  *)
LEMMA ContinueGoesOn ==
  ASSUME NEW y, DOMAIN y = ExtractionFields, y.order \in Seq(Runs), y.next \in Nat,
         y.outcome \in [Gates -> Outcome]
  PROVE  LET z == Continue(y)
         IN  /\ DOMAIN z = ExtractionFields
             /\ z.order = y.order /\ z.next = y.next
             /\ z.checks = y.checks /\ z.statuses = y.statuses
             /\ \/ /\ z.at = "checks" /\ y.next <= Len(y.order) /\ z.outcome = y.outcome
                   /\ ~(\A g \in Gates : Decided(y.outcome[g]))
                \/ /\ z.at = "done"
                   /\ y.next > Len(y.order) \/ \A g \in Gates : Decided(y.outcome[g])
                   /\ z.outcome \in [Gates -> Outcome]
                   /\ \A g \in Gates :
                        z.outcome[g] = IF Decided(y.outcome[g]) THEN y.outcome[g] ELSE Unknown
<1> DEFINE z == Continue(y)
           o == [g \in Gates |-> IF Decided(y.outcome[g]) THEN y.outcome[g] ELSE Unknown]
<1>1. o \in [Gates -> Outcome]
  BY Outcomes
<1>2. CASE Finished(y)
  <2>1. z = [y EXCEPT !.at = "done", !.outcome = o]
    BY <1>2 DEF Continue
  <2> HIDE DEF o
  <2>2. /\ DOMAIN z = ExtractionFields /\ z.at = "done" /\ z.outcome = o
        /\ z.order = y.order /\ z.next = y.next
        /\ z.checks = y.checks /\ z.statuses = y.statuses
    BY <2>1 DEF ExtractionFields
  <2>3. y.next > Len(y.order) \/ \A g \in Gates : Decided(y.outcome[g])
    BY <1>2 DEF Finished
  <2> HIDE DEF z
  <2> QED BY <1>1, <2>2, <2>3 DEF o, z
<1>3. CASE ~Finished(y)
  <2>1. z = [y EXCEPT !.at = "checks"]
    BY <1>3 DEF Continue
  <2>2. /\ DOMAIN z = ExtractionFields /\ z.at = "checks" /\ z.outcome = y.outcome
        /\ z.order = y.order /\ z.next = y.next
        /\ z.checks = y.checks /\ z.statuses = y.statuses
    BY <2>1 DEF ExtractionFields
  <2>3. y.next <= Len(y.order) /\ ~(\A g \in Gates : Decided(y.outcome[g]))
    <3>1. Len(y.order) \in Nat
      OBVIOUS
    <3> QED BY <1>3, <3>1 DEF Finished
  <2> QED BY <2>2, <2>3
<1> QED BY <1>2, <1>3

(* The run the loop has come to.                                         *)
Current == x.order[x.next]

(* What a gate's outcome is when the statuses of run r have been listed.   *)
OutcomeBy(r, g, l) ==
  IF Decided(x.outcome[g]) THEN x.outcome[g]
  ELSE CASE Verdict(r, g, CHOOSE c \in x.checks[r] : TRUE, l) = "known" -> Known(r)
         [] Verdict(r, g, CHOOSE c \in x.checks[r] : TRUE, l) = "error" -> Failed
         [] OTHER -> Undecided

StatusesRead(r, l) ==
  /\ DOMAIN x' = ExtractionFields
  /\ x'.order = x.order /\ x'.next = x.next + 1 /\ x'.checks = x.checks
  /\ x'.statuses = [x.statuses EXCEPT ![ShaOf[r]] = {l}]
  /\ x'.outcome \in [Gates -> Outcome]
  /\ \/ /\ x'.at = "checks" /\ x'.next <= Len(x.order)
        /\ \A g \in Gates : x'.outcome[g] = OutcomeBy(r, g, l)
     \/ /\ x'.at = "done"
        /\ x'.next > Len(x.order) \/ \A g \in Gates : Decided(OutcomeBy(r, g, l))
        /\ \A g \in Gates : x'.outcome[g] = IF Decided(OutcomeBy(r, g, l))
                                            THEN OutcomeBy(r, g, l) ELSE Unknown

LEMMA ReadStatusesDoes ==
  ASSUME ExtractionTypes, ReadStatuses
  PROVE  /\ x.at = "statuses" /\ Current \in Runs /\ ShaOf[Current] \in Shas
         /\ ci' = ci /\ settled' = settled
         /\ x.next \in 1..Len(x.order)
         /\ \E l \in SUBSET (Runs \X Gates \X {"success", "other"}) :
              /\ IF x.statuses[ShaOf[Current]] # {} THEN l \in x.statuses[ShaOf[Current]]
                 ELSE l = StatusesOf(ShaOf[Current]) \/ l = {}
              /\ unseen' = unseen \cup {q \in Runs : /\ ShaOf[q] = ShaOf[Current]
                                                     /\ l # StatusesOf(ShaOf[Current])
                                                     /\ x.statuses[ShaOf[Current]] = {}}
              /\ StatusesRead(Current, l)
<1>1. x.at = "statuses" /\ ci' = ci /\ settled' = settled
  BY DEF ReadStatuses
<1>2. x.next \in 1..Len(x.order) /\ Len(x.order) \in Nat
  BY <1>1 DEF ExtractionTypes
<1>3. Current \in Runs /\ ShaOf[Current] \in Shas
  BY <1>2 DEF ExtractionTypes, Shas, Current
<1>4. PICK l \in IF x.statuses[ShaOf[Current]] # {} THEN x.statuses[ShaOf[Current]]
                 ELSE {StatusesOf(ShaOf[Current])} \cup (IF unseen = {} THEN {{}} ELSE {}) :
        /\ x' = Continue([x EXCEPT !.statuses = [x.statuses EXCEPT ![ShaOf[Current]] = {l}],
                                   !.next = x.next + 1,
                                   !.outcome = [g \in Gates |-> OutcomeBy(Current, g, l)]])
        /\ unseen' = unseen \cup {q \in Runs : /\ ShaOf[q] = ShaOf[Current]
                                               /\ l # StatusesOf(ShaOf[Current])
                                               /\ x.statuses[ShaOf[Current]] = {}}
  BY DEF ReadStatuses, OutcomeBy, Current
<1>5. l \in SUBSET (Runs \X Gates \X {"success", "other"})
  <2>1. StatusesOf(ShaOf[Current]) \in SUBSET (Runs \X Gates \X {"success", "other"})
    BY DEF StatusesOf
  <2> QED BY <1>3, <1>4, <2>1 DEF ExtractionTypes
<1> DEFINE o == [g \in Gates |-> OutcomeBy(Current, g, l)]
           y == [x EXCEPT !.statuses = [x.statuses EXCEPT ![ShaOf[Current]] = {l}],
                          !.next = x.next + 1, !.outcome = o]
<1>6. o \in [Gates -> Outcome]
  <2>1. ASSUME NEW g \in Gates PROVE OutcomeBy(Current, g, l) \in Outcome
    BY <1>3, Outcomes DEF OutcomeBy, ExtractionTypes
  <2> QED BY <2>1
<1>a. \A g \in Gates : o[g] = OutcomeBy(Current, g, l)
  OBVIOUS
<1> HIDE DEF o
<1>7. /\ DOMAIN y = ExtractionFields /\ y.order = x.order /\ y.next = x.next + 1
      /\ y.checks = x.checks /\ y.statuses = [x.statuses EXCEPT ![ShaOf[Current]] = {l}]
      /\ y.outcome = o
  BY DEF ExtractionTypes, ExtractionFields
<1>8. x' = Continue(y)
  BY <1>4 DEF o
<1> HIDE DEF y
<1>9. y.order \in Seq(Runs) /\ y.next \in Nat /\ y.outcome \in [Gates -> Outcome]
  BY <1>2, <1>6, <1>7 DEF ExtractionTypes
<1> DEFINE z == Continue(y)
<1>10. /\ DOMAIN z = ExtractionFields
       /\ z.order = y.order /\ z.next = y.next
       /\ z.checks = y.checks /\ z.statuses = y.statuses
       /\ \/ /\ z.at = "checks" /\ y.next <= Len(y.order) /\ z.outcome = y.outcome
          \/ /\ z.at = "done"
             /\ y.next > Len(y.order) \/ \A g \in Gates : Decided(y.outcome[g])
             /\ z.outcome \in [Gates -> Outcome]
             /\ \A g \in Gates :
                  z.outcome[g] = IF Decided(y.outcome[g]) THEN y.outcome[g] ELSE Unknown
  BY <1>7, <1>9, ContinueGoesOn
<1>11. x' = z
  BY <1>8
<1> HIDE DEF z
<1>12. StatusesRead(Current, l)
  BY <1>6, <1>7, <1>a, <1>10, <1>11 DEF StatusesRead
<1>13. IF x.statuses[ShaOf[Current]] # {} THEN l \in x.statuses[ShaOf[Current]]
       ELSE l = StatusesOf(ShaOf[Current]) \/ l = {}
  BY <1>4
<1> QED BY <1>1, <1>2, <1>3, <1>4, <1>5, <1>12, <1>13

(* A listing of checks is that of all attempts, or the last one's, or none *)
(* was found.                                                              *)
LEMMA ReadChecksDoes ==
  ASSUME ExtractionTypes, CITypes, ReadChecks,
         ci[Current].state # "absent"
  PROVE  /\ x.at = "checks" /\ Current \in Runs /\ x.next \in 1..Len(x.order)
         /\ ci' = ci /\ settled' = settled
         /\ DOMAIN x' = ExtractionFields /\ x'.at = "statuses"
         /\ x'.order = x.order /\ x'.next = x.next
         /\ x'.statuses = x.statuses /\ x'.outcome = x.outcome
         /\ unseen \subseteq unseen'
         /\ \E l \in [Gates -> Listings] :
              /\ x'.checks = [x.checks EXCEPT ![Current] = {l}]
              /\ \/ \A g \in Gates : l[g] = ci[Current].checks[g]
                 \/ \A g \in Gates : l[g] = <<Latest(Current, g)>>
                 \/ Current \in unseen' /\ \A g \in Gates : l[g] = <<>>
<1> DEFINE all == [g \in Gates |-> ci[Current].checks[g]]
           latest == [g \in Gates |-> <<Latest(Current, g)>>]
           none == [g \in Gates |-> <<>>]
<1>1. x.at = "checks" /\ ci' = ci /\ settled' = settled
  BY DEF ReadChecks
<1>2. x.next \in 1..Len(x.order) /\ Len(x.order) \in Nat
  BY <1>1 DEF ExtractionTypes
<1>3. Current \in Runs
  BY <1>2 DEF ExtractionTypes, Current
<1>4. PICK l \in {all, latest} \cup (IF unseen = {} THEN {none} ELSE {}) :
        /\ x' = [x EXCEPT !.at = "statuses", !.checks[Current] = {l}]
        /\ unseen' = unseen \cup {q \in {Current} : l = none}
  BY DEF ReadChecks, Current
<1>5. /\ DOMAIN x' = ExtractionFields /\ x'.at = "statuses"
      /\ x'.order = x.order /\ x'.next = x.next
      /\ x'.checks = [x.checks EXCEPT ![Current] = {l}]
      /\ x'.statuses = x.statuses /\ x'.outcome = x.outcome
  BY <1>4 DEF ExtractionTypes, ExtractionFields
<1>6. CASE l = all
  <2>1. all \in [Gates -> Listings]
    BY <1>3 DEF CITypes, Run, Listings
  <2> QED BY <1>1, <1>2, <1>3, <1>4, <1>5, <1>6, <2>1
<1>7. CASE l = latest
  <2>1. ASSUME NEW g \in Gates PROVE <<Latest(Current, g)>> \in Listings
    <3>1. ci[Current].checks[g] \in Listings /\ ci[Current].checks[g] # <<>>
      BY <1>3 DEF CITypes, Run, Listings
    <3>2. Latest(Current, g) \in Conclusions \cup {"running"}
      BY <3>1 DEF Latest, Last, Listings
    <3> QED BY <3>2 DEF Listings
  <2> QED BY <1>1, <1>2, <1>3, <1>4, <1>5, <1>7, <2>1
<1>8. CASE l = none
  <2>1. none \in [Gates -> Listings] /\ Current \in unseen'
    BY <1>4, <1>8 DEF Listings
  <2> QED BY <1>1, <1>2, <1>3, <1>4, <1>5, <1>8, <2>1
<1> QED BY <1>4, <1>6, <1>7, <1>8

-----------------------------------------------------------------------------
(* The listings in the caches are of runs in the order of their age, and   *)
(* speak of what has happened.                                             *)
OrderInv ==
  /\ \A i, j \in DOMAIN x.order : i < j => x.order[i] > x.order[j]
  /\ \A i \in DOMAIN x.order : ci[x.order[i]].state # "absent"
  /\ x.order # <<>> => \A r \in Runs, g \in Gates :
       settled[r][g] = "green" => \E j \in DOMAIN x.order : x.order[j] = r

CacheInv ==
  \A r \in Runs, g \in Gates :
    /\ \A l \in x.checks[r] :
         /\ CheckEvidence(l[g]) = "success" => Passed(ci[r], g)
         /\ settled[r][g] = "red" => CheckEvidence(l[g]) # "success"
         /\ settled[r][g] = "green" /\ r \notin unseen =>
              CheckEvidence(l[g]) \in {"success", "error"}
    /\ \A l \in x.statuses[ShaOf[r]] :
         /\ <<r, g, "success">> \in l => "success" \in ci[r].posted[g]
         /\ settled[r][g] = "green" /\ r \notin unseen => <<r, g, "success">> \in l

(* What has been found is of a run that was looked at, and is good; a run  *)
(* that was green has decided its gate, unless a newer one had; and the    *)
(* loop ends early only when there is nothing left to find.                *)
FoundInv ==
  \A g \in Gates :
    /\ x.outcome[g].status = "known" =>
         /\ Passed(ci[x.outcome[g].run], g)
         /\ "success" \in ci[x.outcome[g].run].posted[g]
         /\ settled[x.outcome[g].run][g] # "red"
         /\ \E i \in 1..(x.next - 1) : x.order[i] = x.outcome[g].run
    /\ \A j \in 1..(x.next - 1) :
         settled[x.order[j]][g] = "green" /\ x.order[j] \notin unseen =>
           \/ x.outcome[g].status = "error"
           \/ x.outcome[g].status = "known" /\ x.outcome[g].run >= x.order[j]
    /\ x.at # "done" => x.outcome[g] # Unknown
    /\ x.at = "done" /\ x.outcome[g] = Unknown => x.next > Len(x.order)

(* The caches hold what was read for the runs that were looked at.         *)
ReadInv ==
  /\ \A i \in 1..(x.next - 1) : /\ x.checks[x.order[i]] # {}
                                /\ x.statuses[ShaOf[x.order[i]]] # {}
  /\ \A s \in Shas : \A k, l \in x.statuses[s] : k = l
  /\ x.at = "statuses" => x.checks[x.order[x.next]] # {}

CheckpointInv ==
  /\ CITypes /\ SettledInv /\ ExtractionTypes
  /\ OrderInv /\ CacheInv /\ FoundInv /\ ReadInv

LEMMA CheckpointsInitially == Init => CheckpointInv
<1> SUFFICES ASSUME Init PROVE CheckpointInv
  OBVIOUS
<1>1. /\ DOMAIN x = ExtractionFields
      /\ x.at = "idle" /\ x.order = <<>> /\ x.next = 1
      /\ x.checks = [r \in Runs |-> {}] /\ x.statuses = [s \in Shas |-> {}]
      /\ x.outcome = [g \in Gates |-> Undecided]
      /\ settled = [r \in Runs |-> [g \in Gates |-> "open"]]
  BY DEF Init, InitExtraction, ExtractionFields
<1>2. ci \in [Runs -> EndedRuns \cup {NewRun}]
  BY DEF Init
<1>3. NewRun \in Run
  BY DEF NewRun, Run
<1>4. ASSUME NEW r \in EndedRuns PROVE r \in Run /\ \A g \in Gates : r.checks[g] # <<>>
  <2>1. /\ r \in [state: {"completed"}, checks: [Gates -> {<<c>> : c \in Conclusions}],
                  posted: [Gates -> {{}, {"other"}, {"success", "other"}}]]
    BY DEF EndedRuns
  <2>2. \A g \in Gates : \E c \in Conclusions : r.checks[g] = <<c>>
    BY <2>1
  <2>3. ASSUME NEW g \in Gates
        PROVE  r.checks[g] \in Seq(Conclusions \cup {"running"}) /\ r.checks[g] # <<>>
    <3>1. PICK c \in Conclusions : r.checks[g] = <<c>>
      BY <2>2
    <3> QED BY <3>1
  <2>4. \A g \in Gates : r.posted[g] \in SUBSET {"success", "other"}
    BY <2>1
  <2>5. /\ r.checks \in [Gates -> Seq(Conclusions \cup {"running"})]
        /\ r.posted \in [Gates -> SUBSET {"success", "other"}]
    BY <2>1, <2>3, <2>4
  <2> QED BY <2>1, <2>3, <2>5 DEF Run
<1>5. CITypes
  <2>1. ASSUME NEW r \in Runs
        PROVE  /\ ci[r] \in Run
               /\ ci[r].state # "absent" => \A g \in Gates : ci[r].checks[g] # <<>>
    <3>1. CASE ci[r] = NewRun
      <4>1. ci[r].state = "absent"
        BY <3>1 DEF NewRun
      <4> QED BY <1>3, <3>1, <4>1
    <3>2. CASE ci[r] \in EndedRuns
      BY <1>4, <3>2
    <3> QED BY <1>2, <3>1, <3>2
  <2> QED BY <1>2, <2>1 DEF CITypes
<1>6. SettledInv /\ OrderInv
  BY <1>1 DEF SettledInv, OrderInv
<1>7. ExtractionTypes
  BY <1>1, Outcomes DEF ExtractionTypes
<1>a. \A r \in Runs : ShaOf[r] \in Shas
  BY DEF Shas
<1>8. CacheInv
  BY <1>1, <1>a DEF CacheInv
<1>9. FoundInv /\ ReadInv
  BY <1>1, Outcomes DEF FoundInv, ReadInv
<1> QED BY <1>5, <1>6, <1>7, <1>8, <1>9 DEF CheckpointInv

LEMMA CIKeepsCheckpoints ==
  ASSUME CheckpointInv, ProductCI PROVE CheckpointInv'
<1>1. /\ CITypes' /\ SettledInv' /\ x' = x /\ unseen' = unseen
      /\ \A r \in Runs, g \in Gates :
           /\ Passed(ci[r], g) => Passed(ci'[r], g)
           /\ ci[r].posted[g] \subseteq ci'[r].posted[g]
           /\ settled'[r][g] \in {"open", settled[r][g]}
      /\ \A r \in Runs : ci[r].state # "absent" => ci'[r].state # "absent"
  BY CIKeeps DEF CheckpointInv
<1>2. ExtractionTypes' /\ ReadInv'
  BY <1>1 DEF CheckpointInv, ExtractionTypes, ReadInv
<1>3. \A i \in DOMAIN x.order : x.order[i] \in Runs
  BY DEF CheckpointInv, ExtractionTypes
<1>4. OrderInv'
  BY <1>1, <1>3 DEF CheckpointInv, OrderInv
<1>5. CacheInv'
  BY <1>1 DEF CheckpointInv, CacheInv
<1>6. FoundInv'
  <2> SUFFICES ASSUME NEW g \in Gates
               PROVE  /\ x.outcome[g].status = "known" =>
                           /\ Passed(ci'[x.outcome[g].run], g)
                           /\ "success" \in ci'[x.outcome[g].run].posted[g]
                           /\ settled'[x.outcome[g].run][g] # "red"
                      /\ \A j \in 1..(x.next - 1) :
                           settled'[x.order[j]][g] = "green" /\ x.order[j] \notin unseen =>
                             \/ x.outcome[g].status = "error"
                             \/ x.outcome[g].status = "known" /\ x.outcome[g].run >= x.order[j]
    BY <1>1 DEF CheckpointInv, FoundInv
  <2>1. x.outcome[g].status = "known" => x.outcome[g].run \in Runs
    BY DEF CheckpointInv, ExtractionTypes, Outcome
  <2>2. \A j \in 1..(x.next - 1) : x.order[j] \in Runs
    <3>1. \A j \in 1..(x.next - 1) : j \in DOMAIN x.order
      BY DEF CheckpointInv, ExtractionTypes
    <3> QED BY <1>3, <3>1
  <2> QED BY <1>1, <2>1, <2>2 DEF CheckpointInv, FoundInv
<1> QED BY <1>1, <1>2, <1>4, <1>5, <1>6 DEF CheckpointInv

(* What is settled about a gate is what its last attempt came to.          *)
LEMMA SettleIs ==
  ASSUME NEW r, NEW g
  PROVE  /\ Settle(r, g) \in {"open", "green", "red"}
         /\ Settle(r, g) # "open" => ci[r].state = "completed"
         /\ Settle(r, g) = "red" => Latest(r, g) = "failure"
         /\ Settle(r, g) = "green" =>
              Latest(r, g) = "success" /\ "success" \in ci[r].posted[g]
<1>1. CASE ci[r].state # "completed"
  BY <1>1 DEF Settle
<1>2. CASE ci[r].state = "completed"
  <2> DEFINE green == Latest(r, g) = "success" /\ "success" \in ci[r].posted[g]
             red == Latest(r, g) = "failure"
  <2>1. Settle(r, g) = CASE green -> "green" [] red -> "red" [] OTHER -> "open"
    BY <1>2 DEF Settle
  <2>2. ~(green /\ red)
    OBVIOUS
  <2> HIDE DEF green, red
  <2>3. /\ Settle(r, g) \in {"open", "green", "red"}
        /\ Settle(r, g) = "red" => red
        /\ Settle(r, g) = "green" => green
    BY <2>1, <2>2
  <2> QED BY <1>2, <2>3 DEF green, red
<1> QED BY <1>1, <1>2

LEMMA SettlingTypes ==
  ASSUME CITypes, ci' = ci, settled' = [r \in Runs |-> [g \in Gates |-> Settle(r, g)]]
  PROVE  CITypes' /\ SettledInv'
<1>1. CITypes'
  BY DEF CITypes
<1>2. \A r \in Runs, g \in Gates : settled'[r][g] = Settle(r, g)
  OBVIOUS
<1>3. settled' \in [Runs -> [Gates -> {"open", "green", "red"}]]
  BY SettleIs
<1>4. \A r \in Runs, g \in Gates :
        /\ settled'[r][g] # "open" => ci'[r].state # "absent"
        /\ settled'[r][g] = "red" => Latest(r, g)' = "failure"
        /\ settled'[r][g] = "green" =>
             Latest(r, g)' = "success" /\ "success" \in ci'[r].posted[g]
  BY <1>2, SettleIs DEF Latest
<1> QED BY <1>1, <1>3, <1>4 DEF SettledInv

(* An extraction that has looked at nothing yet and stops.                 *)
LEMMA StoppingKeeps ==
  ASSUME CheckpointInv, CITypes', SettledInv', ci' = ci, x.at = "idle",
         NEW o \in {Failed, Unknown},
         x' = [x EXCEPT !.at = "done", !.outcome = [g \in Gates |-> o]]
  PROVE  CheckpointInv'
<1> DEFINE f == [g \in Gates |-> o]
<1>1. /\ DOMAIN x = ExtractionFields /\ x.order = <<>> /\ x.next = 1
      /\ x.checks \in [Runs -> SUBSET [Gates -> Listings]]
      /\ x.statuses \in [Shas -> SUBSET SUBSET (Runs \X Gates \X {"success", "other"})]
      /\ \A r \in Runs : x.checks[r] = {}
      /\ \A s \in Shas : x.statuses[s] = {}
  BY DEF CheckpointInv, ExtractionTypes
<1>2. f \in [Gates -> Outcome] /\ \A g \in Gates : f[g] = o
  BY Outcomes
<1> HIDE DEF f
<1>3. x' = [x EXCEPT !.at = "done", !.outcome = f]
  BY DEF f
<1>4. /\ DOMAIN x' = ExtractionFields /\ x'.at = "done" /\ x'.order = <<>> /\ x'.next = 1
      /\ x'.checks = x.checks /\ x'.statuses = x.statuses /\ x'.outcome = f
  BY <1>1, <1>3 DEF ExtractionFields
<1>5. Decided(o) /\ o.status # "known"
  BY Outcomes DEF Decided
<1>6. ExtractionTypes'
  <2>1. x'.order \in Seq(Runs) /\ x'.next \in 1..(Len(x'.order) + 1)
    <3>1. <<>> \in Seq(Runs) /\ Len(<<>>) = 0
      OBVIOUS
    <3>2. x'.order = <<>> /\ x'.next = 1
      BY <1>4
    <3>3. Len(x'.order) = 0
      BY <3>1, <3>2
    <3>4. 1 \in 1..(0 + 1)
      OBVIOUS
    <3>5. x'.order \in Seq(Runs)
      BY <3>1, <3>2
    <3> QED BY <3>2, <3>3, <3>4, <3>5
  <2>2. x'.outcome \in [Gates -> Outcome] /\ \A g \in Gates : Decided(x'.outcome[g])
    BY <1>2, <1>4, <1>5
  <2>3. /\ x'.checks \in [Runs -> SUBSET [Gates -> Listings]]
        /\ x'.statuses \in [Shas -> SUBSET SUBSET (Runs \X Gates \X {"success", "other"})]
    BY <1>1, <1>4
  <2>4. x'.at = "done"
    BY <1>4
  <2> QED BY <1>4, <2>1, <2>2, <2>3, <2>4 DEF ExtractionTypes
<1>7. OrderInv'
  BY <1>4 DEF OrderInv
<1>a. \A r \in Runs : ShaOf[r] \in Shas
  BY DEF Shas
<1>8. CacheInv'
  BY <1>1, <1>4, <1>a DEF CacheInv
<1>9. FoundInv'
  BY <1>2, <1>4, <1>5 DEF FoundInv
<1>10. ReadInv'
  BY <1>1, <1>4 DEF ReadInv
<1> QED BY <1>6, <1>7, <1>8, <1>9, <1>10 DEF CheckpointInv

LEMMA ListRunsKeeps ==
  ASSUME CheckpointInv, ListRuns PROVE CheckpointInv'
<1>1. /\ x.at = "idle" /\ ci' = ci /\ unseen' = unseen
      /\ settled' = [r \in Runs |-> [g \in Gates |-> Settle(r, g)]]
  BY DEF ListRuns
<1>2. CITypes' /\ SettledInv'
  BY <1>1, SettlingTypes DEF CheckpointInv
<1>3. PICK S \in {Begun, {r \in Begun : ci[r].state = "completed"}} :
        x' = IF \E r \in S : ci[r].state = "active"
             THEN [x EXCEPT !.at = "done", !.outcome = [g \in Gates |-> Failed]]
             ELSE Continue([x EXCEPT !.order = NewestFirst(S)])
  BY DEF ListRuns
<1>4. CASE \E r \in S : ci[r].state = "active"
  BY <1>1, <1>2, <1>3, <1>4, StoppingKeeps
<1>5. CASE ~(\E r \in S : ci[r].state = "active")
  <2>1. /\ S \in SUBSET Runs
        /\ \A r \in S : ci[r].state # "absent"
        /\ \A r \in Runs : ci[r].state = "completed" => r \in S
    BY DEF Begun
  <2> DEFINE order == NewestFirst(S)
             y == [x EXCEPT !.order = order]
             n == Cardinality(S)
  <2>2. /\ order \in Seq(S) /\ Len(order) = n /\ n \in Nat
        /\ \A i, j \in 1..n : i < j => order[i] > order[j]
        /\ \A r \in S : \E i \in 1..n : order[i] = r
    BY <2>1, NewestFirstIsSorted
  <2> HIDE DEF order, n
  <2>3. order \in Seq(Runs) /\ DOMAIN order = 1..n /\ \A i \in 1..n : order[i] \in S
    BY <2>1, <2>2
  <2>4. /\ DOMAIN x = ExtractionFields /\ x.next = 1
        /\ x.checks \in [Runs -> SUBSET [Gates -> Listings]]
        /\ x.statuses \in [Shas -> SUBSET SUBSET (Runs \X Gates \X {"success", "other"})]
        /\ \A r \in Runs : x.checks[r] = {}
        /\ \A s \in Shas : x.statuses[s] = {}
        /\ x.outcome \in [Gates -> Outcome]
        /\ \A g \in Gates : x.outcome[g] = Undecided
    BY <1>1 DEF CheckpointInv, ExtractionTypes
  <2>5. /\ DOMAIN y = ExtractionFields /\ y.order = order /\ y.next = 1
        /\ y.checks = x.checks /\ y.statuses = x.statuses /\ y.outcome = x.outcome
    BY <2>4 DEF ExtractionFields
  <2>6. x' = Continue(y)
    BY <1>3, <1>5 DEF order
  <2> HIDE DEF y
  <2>7. y.order \in Seq(Runs) /\ y.next \in Nat /\ y.outcome \in [Gates -> Outcome]
    BY <2>3, <2>4, <2>5
  <2> DEFINE z == Continue(y)
  <2>8. /\ DOMAIN z = ExtractionFields
        /\ z.order = y.order /\ z.next = y.next
        /\ z.checks = y.checks /\ z.statuses = y.statuses
        /\ \/ /\ z.at = "checks" /\ y.next <= Len(y.order) /\ z.outcome = y.outcome
           \/ /\ z.at = "done"
              /\ y.next > Len(y.order) \/ \A g \in Gates : Decided(y.outcome[g])
              /\ z.outcome \in [Gates -> Outcome]
              /\ \A g \in Gates :
                   z.outcome[g] = IF Decided(y.outcome[g]) THEN y.outcome[g] ELSE Unknown
    BY <2>5, <2>7, ContinueGoesOn
  <2>9. x' = z
    BY <2>6
  <2> HIDE DEF z
  <2>10. /\ DOMAIN x' = ExtractionFields /\ x'.order = order /\ x'.next = 1
         /\ x'.checks = x.checks /\ x'.statuses = x.statuses
         /\ x'.outcome \in [Gates -> Outcome]
         /\ \/ /\ x'.at = "checks" /\ 1 <= n
               /\ \A g \in Gates : x'.outcome[g] = Undecided
            \/ /\ x'.at = "done" /\ (n < 1 \/ Gates = {})
               /\ \A g \in Gates : x'.outcome[g] = Unknown
    BY <2>2, <2>4, <2>5, <2>8, <2>9 DEF Decided
  <2>11. ExtractionTypes'
    <3>1. x'.at = "done" => \A g \in Gates : Decided(x'.outcome[g])
      BY <2>10, Outcomes DEF Decided
    <3>2. x'.next \in 1..(Len(x'.order) + 1)
      BY <2>2, <2>10
    <3>3. x'.at # "idle" /\ x'.at \in {"idle", "checks", "statuses", "done"}
      BY <2>10
    <3>4. x'.at \in {"checks", "statuses"} => x'.next <= Len(x'.order)
      BY <2>2, <2>10
    <3> QED BY <2>3, <2>4, <2>10, <3>1, <3>2, <3>3, <3>4 DEF ExtractionTypes
  <2>12. OrderInv'
    <3>1. \A r \in Runs, g \in Gates : settled'[r][g] = "green" => r \in S
      BY <1>1, <2>1, SettleIs
    <3>2. \A i \in DOMAIN x'.order : ci'[x'.order[i]].state # "absent"
      BY <1>1, <2>1, <2>3, <2>10
    <3> QED BY <2>2, <2>3, <2>10, <3>1, <3>2 DEF OrderInv
  <2>a. \A r \in Runs : ShaOf[r] \in Shas
    BY DEF Shas
  <2>13. CacheInv'
    BY <2>4, <2>10, <2>a DEF CacheInv
  <2>14. FoundInv'
    <3>1. \A g \in Gates : /\ x'.outcome[g].status # "known"
                           /\ x'.at # "done" => x'.outcome[g] # Unknown
                           /\ x'.at = "done" => x'.next > Len(x'.order)
      BY <2>2, <2>10, Outcomes
    <3> QED BY <2>10, <3>1 DEF FoundInv
  <2>15. ReadInv'
    BY <2>4, <2>10 DEF ReadInv
  <2> QED BY <1>2, <2>11, <2>12, <2>13, <2>14, <2>15 DEF CheckpointInv
<1> QED BY <1>4, <1>5

LEMMA ListRunsMissingKeeps ==
  ASSUME CheckpointInv, ListRunsMissing PROVE CheckpointInv'
<1>1. /\ x.at = "idle" /\ ci' = ci /\ settled' = settled
      /\ x' = [x EXCEPT !.at = "done", !.outcome = [g \in Gates |-> Unknown]]
  BY DEF ListRunsMissing
<1>2. CITypes' /\ SettledInv'
  BY <1>1 DEF CheckpointInv, CITypes, SettledInv, Latest
<1> QED BY <1>1, <1>2, StoppingKeeps

LEMMA ReadChecksKeeps ==
  ASSUME CheckpointInv, ReadChecks PROVE CheckpointInv'
<1>0. ci[Current].state # "absent"
  <2>1. x.at = "checks"
    BY DEF ReadChecks
  <2>2. x.next \in DOMAIN x.order
    BY <2>1 DEF CheckpointInv, ExtractionTypes
  <2> QED BY <2>2 DEF CheckpointInv, OrderInv, Current
<1>1. PICK l \in [Gates -> Listings] :
        /\ x.at = "checks" /\ Current \in Runs /\ x.next \in 1..Len(x.order)
        /\ ci' = ci /\ settled' = settled
        /\ DOMAIN x' = ExtractionFields /\ x'.at = "statuses"
        /\ x'.order = x.order /\ x'.next = x.next
        /\ x'.statuses = x.statuses /\ x'.outcome = x.outcome
        /\ unseen \subseteq unseen'
        /\ x'.checks = [x.checks EXCEPT ![Current] = {l}]
        /\ \/ \A g \in Gates : l[g] = ci[Current].checks[g]
           \/ \A g \in Gates : l[g] = <<Latest(Current, g)>>
           \/ Current \in unseen' /\ \A g \in Gates : l[g] = <<>>
  BY <1>0, ReadChecksDoes DEF CheckpointInv
<1>2. CITypes' /\ SettledInv'
  BY <1>1 DEF CheckpointInv, CITypes, SettledInv, Latest
<1>3. /\ x'.checks \in [Runs -> SUBSET [Gates -> Listings]]
      /\ x'.checks[Current] = {l}
      /\ \A r \in Runs \ {Current} : x'.checks[r] = x.checks[r]
  BY <1>1 DEF CheckpointInv, ExtractionTypes
<1>4. ExtractionTypes'
  BY <1>1, <1>3 DEF CheckpointInv, ExtractionTypes
<1>5. OrderInv'
  BY <1>1 DEF CheckpointInv, OrderInv
<1>6. ASSUME NEW g \in Gates
      PROVE  /\ CheckEvidence(l[g]) = "success" => Passed(ci[Current], g)
             /\ settled[Current][g] = "red" => CheckEvidence(l[g]) # "success"
             /\ settled[Current][g] = "green" /\ Current \notin unseen' =>
                  CheckEvidence(l[g]) \in {"success", "error"}
  <2> DEFINE cs == ci[Current].checks[g]
  <2>1. cs \in Listings /\ cs # <<>> /\ l[g] \in Listings
    BY <1>0, <1>1 DEF CheckpointInv, CITypes, Run, Listings
  <2>2. Len(cs) \in DOMAIN cs /\ Latest(Current, g) = cs[Len(cs)]
    BY <2>1 DEF Latest, Last, Listings
  <2>3. Latest(Current, g) = Last(cs) /\ Latest(Current, g) \in ToSet(cs)
    BY <2>2 DEF Latest, ToSet
  <2>4. settled[Current][g] = "red" => Latest(Current, g) = "failure"
    BY <1>1 DEF CheckpointInv, SettledInv
  <2>5. settled[Current][g] = "green" => Latest(Current, g) = "success"
    BY <1>1 DEF CheckpointInv, SettledInv
  <2> HIDE DEF cs
  <2>6. CASE l[g] = cs
    BY <2>1, <2>3, <2>4, <2>5, <2>6, EvidenceOfChecks DEF Passed, cs
  <2>7. CASE l[g] = <<Latest(Current, g)>>
    <3>1. Last(l[g]) = Latest(Current, g) /\ l[g] # <<>> /\ ToSet(l[g]) = {Latest(Current, g)}
      BY <2>7 DEF Last, ToSet
    <3> QED BY <2>1, <2>3, <2>4, <2>5, <3>1, EvidenceOfChecks DEF Passed, cs
  <2>8. CASE Current \in unseen' /\ l[g] = <<>>
    <3>1. ToSet(l[g]) = {}
      BY <2>8 DEF ToSet
    <3> QED BY <2>1, <2>8, <3>1, EvidenceOfChecks
  <2> QED BY <1>1, <2>6, <2>7, <2>8 DEF cs
<1>7. CacheInv'
  <2> SUFFICES ASSUME NEW r \in Runs, NEW g \in Gates
               PROVE /\ \A k \in x'.checks[r] :
                          /\ CheckEvidence(k[g]) = "success" => Passed(ci[r], g)
                          /\ settled[r][g] = "red" => CheckEvidence(k[g]) # "success"
                          /\ settled[r][g] = "green" /\ r \notin unseen' =>
                               CheckEvidence(k[g]) \in {"success", "error"}
                     /\ \A k \in x.statuses[ShaOf[r]] :
                          /\ <<r, g, "success">> \in k => "success" \in ci[r].posted[g]
                          /\ settled[r][g] = "green" /\ r \notin unseen' =>
                               <<r, g, "success">> \in k
    BY <1>1 DEF CacheInv
  <2>1. \A k \in x.statuses[ShaOf[r]] :
          /\ <<r, g, "success">> \in k => "success" \in ci[r].posted[g]
          /\ settled[r][g] = "green" /\ r \notin unseen' => <<r, g, "success">> \in k
    BY <1>1 DEF CheckpointInv, CacheInv
  <2>2. CASE r = Current
    BY <1>3, <1>6, <2>1, <2>2
  <2>3. CASE r # Current
    BY <1>1, <1>3, <2>1, <2>3 DEF CheckpointInv, CacheInv
  <2> QED BY <2>2, <2>3
<1>8. FoundInv'
  BY <1>1 DEF CheckpointInv, FoundInv
<1>9. ReadInv'
  <2>1. \A i \in 1..(x.next - 1) : x.order[i] \in Runs
    BY <1>1 DEF CheckpointInv, ExtractionTypes
  <2>2. \A r \in Runs : x.checks[r] # {} => x'.checks[r] # {}
    BY <1>3
  <2>3. x'.checks[x'.order[x'.next]] # {}
    BY <1>1, <1>3 DEF Current
  <2> QED BY <1>1, <2>1, <2>2, <2>3 DEF CheckpointInv, ReadInv
<1> QED BY <1>2, <1>4, <1>5, <1>7, <1>8, <1>9 DEF CheckpointInv

(* What the statuses of the run the loop has come to decide about a gate.  *)
LEMMA OutcomeByWhatWasRead ==
  ASSUME CheckpointInv, x.at = "statuses", Current \in Runs, NEW g \in Gates,
         NEW l \in SUBSET (Runs \X Gates \X {"success", "other"}),
         NEW seen \in BOOLEAN,
         <<Current, g, "success">> \in l => "success" \in ci[Current].posted[g],
         settled[Current][g] = "green" /\ seen =>
           Current \notin unseen /\ <<Current, g, "success">> \in l
  PROVE  LET o == OutcomeBy(Current, g, l)
         IN  /\ o \in Outcome /\ o # Unknown
             /\ Decided(x.outcome[g]) => o = x.outcome[g]
             /\ ~Decided(x.outcome[g]) =>
                  /\ o \in {Known(Current), Failed, Undecided}
                  /\ o = Known(Current) =>
                       /\ Passed(ci[Current], g) /\ "success" \in ci[Current].posted[g]
                       /\ settled[Current][g] # "red"
                  /\ settled[Current][g] = "green" /\ seen => o # Undecided
<1> DEFINE c == CHOOSE k \in x.checks[Current] : TRUE
           v == Verdict(Current, g, c, l)
           o == OutcomeBy(Current, g, l)
<1>1. x.outcome[g] \in Outcome /\ x.outcome[g] # Unknown
  BY DEF CheckpointInv, ExtractionTypes, FoundInv
<1>2. c \in x.checks[Current]
  BY DEF CheckpointInv, ReadInv, Current
<1>3. c \in [Gates -> Listings]
  BY <1>2 DEF CheckpointInv, ExtractionTypes
<1>4. /\ CheckEvidence(c[g]) = "success" => Passed(ci[Current], g)
      /\ settled[Current][g] = "red" => CheckEvidence(c[g]) # "success"
      /\ settled[Current][g] = "green" /\ Current \notin unseen =>
           CheckEvidence(c[g]) \in {"success", "error"}
  BY <1>2 DEF CheckpointInv, CacheInv
<1> HIDE DEF c
<1>5. /\ v \in {"known", "error", "older"}
      /\ v = "known" <=> /\ CheckEvidence(c[g]) = "success"
                         /\ <<Current, g, "success">> \in l
      /\ /\ CheckEvidence(c[g]) \in {"success", "error"}
         /\ <<Current, g, "success">> \in l
         => v \in {"known", "error"}
  BY <1>3, VerdictOfEvidence
<1>6. o = IF Decided(x.outcome[g]) THEN x.outcome[g]
          ELSE CASE v = "known" -> Known(Current) [] v = "error" -> Failed
                 [] OTHER -> Undecided
  BY DEF OutcomeBy, c
<1> HIDE DEF v, o
<1>7. CASE Decided(x.outcome[g])
  BY <1>1, <1>6, <1>7 DEF o
<1>8. CASE ~Decided(x.outcome[g])
  <2>1. /\ v = "known" => o = Known(Current)
        /\ v = "error" => o = Failed
        /\ v = "older" => o = Undecided
    BY <1>5, <1>6, <1>8
  <2>2. o \in Outcome /\ o # Unknown /\ o \in {Known(Current), Failed, Undecided}
    <3>1. Known(Current) # Unknown /\ Failed # Unknown
      BY DEF Known, Failed, Unknown
    <3> QED BY <1>5, <2>1, <3>1, Outcomes
  <2>3. o = Known(Current) => v = "known"
    <3>1. Known(Current) # Failed /\ Known(Current) # Undecided
      BY DEF Known, Failed, Undecided
    <3> QED BY <1>5, <2>1, <3>1
  <2>4. o = Undecided => v = "older"
    BY <1>5, <2>1, Outcomes
  <2> QED BY <1>4, <1>5, <1>8, <2>2, <2>3, <2>4 DEF o
<1> QED BY <1>7, <1>8

LEMMA OutcomeCases ==
  ASSUME NEW o \in Outcome
  PROVE  /\ o \in {Undecided, Unknown, Failed} \/ (o.run \in Runs /\ o = Known(o.run))
         /\ o.status = "known" => o.run \in Runs /\ o = Known(o.run)
         /\ o # Undecided /\ o # Unknown => o.status \in {"known", "error"}
         /\ o.status = "error" => o = Failed
BY DEF Outcome, Undecided, Unknown, Failed, Known

LEMMA ReadStatusesKeeps ==
  ASSUME CheckpointInv, ReadStatuses PROVE CheckpointInv'
<1>1. PICK l \in SUBSET (Runs \X Gates \X {"success", "other"}) :
        /\ x.at = "statuses" /\ Current \in Runs /\ ShaOf[Current] \in Shas
        /\ ci' = ci /\ settled' = settled
        /\ x.next \in 1..Len(x.order)
        /\ IF x.statuses[ShaOf[Current]] # {} THEN l \in x.statuses[ShaOf[Current]]
           ELSE l = StatusesOf(ShaOf[Current]) \/ l = {}
        /\ unseen' = unseen \cup {q \in Runs : /\ ShaOf[q] = ShaOf[Current]
                                               /\ l # StatusesOf(ShaOf[Current])
                                               /\ x.statuses[ShaOf[Current]] = {}}
        /\ StatusesRead(Current, l)
  BY ReadStatusesDoes DEF CheckpointInv
<1>2. CITypes' /\ SettledInv'
  BY <1>1 DEF CheckpointInv, CITypes, SettledInv, Latest
<1>3. unseen \subseteq unseen'
  BY <1>1
<1>4. ASSUME NEW r \in Runs, NEW g \in Gates, ShaOf[r] = ShaOf[Current]
      PROVE  /\ <<r, g, "success">> \in l => "success" \in ci[r].posted[g]
             /\ settled[r][g] = "green" /\ r \notin unseen' => <<r, g, "success">> \in l
  <2>1. CASE x.statuses[ShaOf[Current]] # {}
    BY <1>1, <1>3, <1>4, <2>1 DEF CheckpointInv, CacheInv
  <2>2. CASE x.statuses[ShaOf[Current]] = {}
    <3>1. <<r, g, "success">> \in StatusesOf(ShaOf[Current]) <=> "success" \in ci[r].posted[g]
      BY <1>4 DEF StatusesOf
    <3>2. settled[r][g] = "green" => "success" \in ci[r].posted[g]
      BY DEF CheckpointInv, SettledInv
    <3>3. l = StatusesOf(ShaOf[Current]) \/ (l = {} /\ r \in unseen')
      BY <1>1, <1>4, <2>2
    <3> QED BY <3>1, <3>2, <3>3
  <2> QED BY <2>1, <2>2
<1>5. /\ DOMAIN x' = ExtractionFields
      /\ x'.order = x.order /\ x'.next = x.next + 1 /\ x'.checks = x.checks
      /\ x'.statuses = [x.statuses EXCEPT ![ShaOf[Current]] = {l}]
      /\ x'.outcome \in [Gates -> Outcome]
      /\ \/ /\ x'.at = "checks" /\ x'.next <= Len(x.order)
            /\ \A g \in Gates : x'.outcome[g] = OutcomeBy(Current, g, l)
         \/ /\ x'.at = "done"
            /\ x'.next > Len(x.order) \/ \A g \in Gates : Decided(OutcomeBy(Current, g, l))
            /\ \A g \in Gates : x'.outcome[g] = IF Decided(OutcomeBy(Current, g, l))
                                                THEN OutcomeBy(Current, g, l) ELSE Unknown
  BY <1>1 DEF StatusesRead
<1>6. /\ x'.statuses \in [Shas -> SUBSET SUBSET (Runs \X Gates \X {"success", "other"})]
      /\ x'.statuses[ShaOf[Current]] = {l}
      /\ \A s \in Shas \ {ShaOf[Current]} : x'.statuses[s] = x.statuses[s]
  BY <1>1, <1>5 DEF CheckpointInv, ExtractionTypes
<1>7. ExtractionTypes'
  <2>1. x'.order \in Seq(Runs) /\ x'.next \in 1..(Len(x'.order) + 1)
    BY <1>1, <1>5 DEF CheckpointInv, ExtractionTypes
  <2>2. x'.at = "done" => \A g \in Gates : Decided(x'.outcome[g])
    BY <1>5, Outcomes DEF Decided
  <2>3. x'.at \in {"checks", "done"} /\ x'.at # "idle"
    BY <1>5
  <2>4. x'.at \in {"checks", "statuses"} => x'.next <= Len(x'.order)
    BY <1>5
  <2>5. x'.checks \in [Runs -> SUBSET [Gates -> Listings]]
    BY <1>5 DEF CheckpointInv, ExtractionTypes
  <2> QED BY <1>5, <1>6, <2>1, <2>2, <2>3, <2>4, <2>5 DEF ExtractionTypes
<1>8. OrderInv'
  BY <1>1, <1>5 DEF CheckpointInv, OrderInv
<1>9. CacheInv'
  <2> SUFFICES ASSUME NEW r \in Runs, NEW g \in Gates
               PROVE /\ \A k \in x.checks[r] :
                          /\ CheckEvidence(k[g]) = "success" => Passed(ci[r], g)
                          /\ settled[r][g] = "red" => CheckEvidence(k[g]) # "success"
                          /\ settled[r][g] = "green" /\ r \notin unseen' =>
                               CheckEvidence(k[g]) \in {"success", "error"}
                     /\ \A k \in x'.statuses[ShaOf[r]] :
                          /\ <<r, g, "success">> \in k => "success" \in ci[r].posted[g]
                          /\ settled[r][g] = "green" /\ r \notin unseen' =>
                               <<r, g, "success">> \in k
    BY <1>1, <1>5 DEF CacheInv
  <2>1. \A k \in x.checks[r] :
          /\ CheckEvidence(k[g]) = "success" => Passed(ci[r], g)
          /\ settled[r][g] = "red" => CheckEvidence(k[g]) # "success"
          /\ settled[r][g] = "green" /\ r \notin unseen' =>
               CheckEvidence(k[g]) \in {"success", "error"}
    BY <1>3 DEF CheckpointInv, CacheInv
  <2>2. CASE ShaOf[r] = ShaOf[Current]
    BY <1>4, <1>6, <2>1, <2>2
  <2>3. CASE ShaOf[r] # ShaOf[Current]
    <3>1. x'.statuses[ShaOf[r]] = x.statuses[ShaOf[r]]
      BY <1>6, <2>3 DEF Shas
    <3> QED BY <1>3, <2>1, <3>1 DEF CheckpointInv, CacheInv
  <2> QED BY <2>2, <2>3
<1>10. FoundInv'
  <2> SUFFICES ASSUME NEW g \in Gates
               PROVE
                 /\ x'.outcome[g].status = "known" =>
                      /\ Passed(ci[x'.outcome[g].run], g)
                      /\ "success" \in ci[x'.outcome[g].run].posted[g]
                      /\ settled[x'.outcome[g].run][g] # "red"
                      /\ \E i \in 1..(x'.next - 1) : x.order[i] = x'.outcome[g].run
                 /\ \A j \in 1..(x'.next - 1) :
                      settled[x.order[j]][g] = "green" /\ x.order[j] \notin unseen' =>
                        \/ x'.outcome[g].status = "error"
                        \/ x'.outcome[g].status = "known" /\ x'.outcome[g].run >= x.order[j]
                 /\ x'.at # "done" => x'.outcome[g] # Unknown
                 /\ x'.at = "done" /\ x'.outcome[g] = Unknown => x'.next > Len(x.order)
    BY <1>1, <1>5 DEF FoundInv
  <2> DEFINE o == x.outcome[g]
             p == OutcomeBy(Current, g, l)
             w == x'.outcome[g]
             n == x.next
             seen == Current \notin unseen'
  <2>1. /\ o \in Outcome /\ o # Unknown
        /\ o.status = "known" =>
             /\ Passed(ci[o.run], g) /\ "success" \in ci[o.run].posted[g]
             /\ settled[o.run][g] # "red"
             /\ \E i \in 1..(n - 1) : x.order[i] = o.run
        /\ \A j \in 1..(n - 1) : settled[x.order[j]][g] = "green" /\ x.order[j] \notin unseen =>
             o.status = "error" \/ (o.status = "known" /\ o.run >= x.order[j])
    <3>1. o \in Outcome
      BY DEF CheckpointInv, ExtractionTypes
    <3>2. FoundInv /\ x.at # "done"
      BY <1>1 DEF CheckpointInv
    <3> QED BY <3>1, <3>2 DEF FoundInv
  <2>2. /\ <<Current, g, "success">> \in l => "success" \in ci[Current].posted[g]
        /\ settled[Current][g] = "green" /\ seen =>
             Current \notin unseen /\ <<Current, g, "success">> \in l
    BY <1>1, <1>3, <1>4
  <2>3. seen \in BOOLEAN
    OBVIOUS
  <2> HIDE DEF seen
  <2>4. /\ p \in Outcome /\ p # Unknown
        /\ Decided(o) => p = o
        /\ ~Decided(o) =>
             /\ p \in {Known(Current), Failed, Undecided}
             /\ p = Known(Current) =>
                  /\ Passed(ci[Current], g) /\ "success" \in ci[Current].posted[g]
                  /\ settled[Current][g] # "red"
             /\ settled[Current][g] = "green" /\ seen => p # Undecided
    BY <1>1, <2>2, <2>3, OutcomeByWhatWasRead
  <2>5. /\ w = p \/ (w = Unknown /\ ~Decided(p))
        /\ x'.at # "done" => w = p
        /\ x'.at = "done" /\ w = Unknown => x'.next > Len(x.order)
    BY <1>5, <2>4
  <2>6. /\ n \in DOMAIN x.order /\ n \in Nat /\ x'.next = n + 1 /\ Current = x.order[n]
        /\ \A i \in 1..(n - 1) : i \in DOMAIN x.order /\ x.order[i] > x.order[n]
                                 /\ x.order[i] \in Runs
    <3>1. x.order \in Seq(Runs) /\ n \in 1..Len(x.order) /\ DOMAIN x.order = 1..Len(x.order)
      BY <1>1 DEF CheckpointInv, ExtractionTypes
    <3>2. \A i \in 1..(n - 1) : i \in DOMAIN x.order /\ i < n
      BY <3>1
    <3>3. \A i \in 1..(n - 1) : x.order[i] > x.order[n] /\ x.order[i] \in Runs
      <4>1. \A i \in DOMAIN x.order : x.order[i] \in Runs
        BY <3>1
      <4>2. n \in DOMAIN x.order
        BY <3>1
      <4> QED BY <3>2, <4>1, <4>2 DEF CheckpointInv, OrderInv
    <3>4. n \in DOMAIN x.order /\ n \in Nat /\ x'.next = n + 1 /\ Current = x.order[n]
      BY <1>5, <3>1 DEF Current
    <3> QED BY <3>2, <3>3, <3>4
  <2>7. Current \in Nat /\ \A i \in 1..(n - 1) : x.order[i] \in Nat
    BY <1>1, <2>6, RunsAssumption
  <2> HIDE DEF o, p, w, n
  <2>8. ASSUME w.status = "known"
        PROVE  /\ Passed(ci[w.run], g) /\ "success" \in ci[w.run].posted[g]
               /\ settled[w.run][g] # "red"
               /\ \E i \in 1..(x'.next - 1) : x.order[i] = w.run
    <3>1. w = p /\ p.status = "known"
      BY <2>5, <2>8, Outcomes
    <3>2. CASE Decided(o)
      <4>1. p = o
        BY <2>4, <3>2
      <4>2. \E i \in 1..(n - 1) : x.order[i] = o.run
        BY <2>1, <3>1, <4>1
      <4>3. \A i \in 1..(n - 1) : i \in 1..(x'.next - 1)
        BY <2>6
      <4> QED BY <2>1, <3>1, <4>1, <4>2, <4>3
    <3>3. CASE ~Decided(o)
      <4>1. p = Known(Current) /\ p.run = Current
        BY <1>1, <2>4, <3>1, <3>3, Outcomes
      <4>2. n \in 1..(x'.next - 1)
        <5>1. n >= 1
          BY <2>6, <1>1 DEF n
        <5> QED BY <2>6, <5>1
      <4> QED BY <2>4, <2>6, <3>1, <3>3, <4>1, <4>2
    <3> QED BY <3>2, <3>3
  <2>9. ASSUME NEW j \in 1..(x'.next - 1),
               settled[x.order[j]][g] = "green", x.order[j] \notin unseen'
        PROVE  w.status = "error" \/ (w.status = "known" /\ w.run >= x.order[j])
    <3>1. ASSUME Decided(p), p.status = "error" \/ (p.status = "known" /\ p.run >= x.order[j])
          PROVE  w.status = "error" \/ (w.status = "known" /\ w.run >= x.order[j])
      BY <2>5, <3>1
    <3>2. CASE j \in 1..(n - 1)
      <4>1. o.status = "error" \/ (o.status = "known" /\ o.run >= x.order[j])
        BY <1>3, <2>1, <2>9, <3>2
      <4>2. Decided(o)
        BY <4>1, Outcomes DEF Decided, Undecided
      <4>3. p = o
        BY <2>4, <4>2
      <4> QED BY <3>1, <4>1, <4>2, <4>3
    <3>3. CASE j = n
      <4>1. x.order[j] = Current /\ settled[Current][g] = "green" /\ seen
        BY <2>6, <2>9, <3>3 DEF seen
      <4>2. CASE Decided(o)
        <5>1. p = o /\ o.status \in {"known", "error"}
          BY <2>1, <2>4, <4>2, OutcomeCases DEF Decided
        <5>2. o.status = "known" => o.run >= Current
          <6>1. ASSUME o.status = "known" PROVE o.run >= Current
            <7>1. PICK i \in 1..(n - 1) : x.order[i] = o.run
              BY <2>1, <6>1
            <7>2. x.order[i] > Current /\ x.order[i] \in Nat
              BY <2>6, <2>7
            <7> QED BY <2>7, <7>1, <7>2
          <6> QED BY <6>1
        <5>3. Decided(p)
          BY <4>2, <5>1
        <5>4. p.status = "error" \/ (p.status = "known" /\ p.run >= x.order[j])
          BY <4>1, <5>1, <5>2
        <5> QED BY <3>1, <5>3, <5>4
      <4>3. CASE ~Decided(o)
        <5>1. p = Known(Current) \/ p = Failed
          BY <2>4, <4>1, <4>3
        <5>2. Current >= Current
          BY <2>7
        <5>3. CASE p = Known(Current)
          <6>1. p # Undecided /\ p.status = "known" /\ p.run = Current
            BY <1>1, <5>3, Outcomes
          <6> QED BY <3>1, <4>1, <5>2, <6>1 DEF Decided
        <5>4. CASE p = Failed
          <6>1. p # Undecided /\ p.status = "error"
            BY <5>4, Outcomes
          <6> QED BY <3>1, <6>1 DEF Decided
        <5> QED BY <5>1, <5>3, <5>4
      <4> QED BY <4>2, <4>3
    <3>4. j \in 1..n
      BY <2>6, <2>9
    <3> QED BY <2>6, <3>2, <3>3, <3>4
  <2> QED BY <2>4, <2>5, <2>8, <2>9 DEF w
<1>11. ReadInv'
  <2>1. /\ x.order \in Seq(Runs) /\ DOMAIN x.order = 1..Len(x.order)
        /\ \A i \in 1..x.next : i \in DOMAIN x.order
    BY <1>1 DEF CheckpointInv, ExtractionTypes
  <2>2. \A i \in 1..x.next : x.order[i] \in Runs /\ ShaOf[x.order[i]] \in Shas
    BY <2>1 DEF Shas
  <2>3. \A s \in Shas : /\ x.statuses[s] # {} => x'.statuses[s] # {}
                        /\ \A k, m \in x'.statuses[s] : k = m
    <3> SUFFICES ASSUME NEW s \in Shas
                 PROVE  /\ x.statuses[s] # {} => x'.statuses[s] # {}
                        /\ \A k, m \in x'.statuses[s] : k = m
      OBVIOUS
    <3>1. CASE s = ShaOf[Current]
      BY <1>6, <3>1
    <3>2. CASE s # ShaOf[Current]
      BY <1>6, <3>2 DEF CheckpointInv, ReadInv
    <3> QED BY <3>1, <3>2
  <2>4. x.checks[Current] # {} /\ x'.statuses[ShaOf[Current]] # {}
    BY <1>1, <1>6 DEF CheckpointInv, ReadInv, Current
  <2>5. ASSUME NEW i \in 1..(x'.next - 1)
        PROVE  x.checks[x.order[i]] # {} /\ x'.statuses[ShaOf[x.order[i]]] # {}
    <3>1. i \in 1..x.next /\ (i \in 1..(x.next - 1) \/ i = x.next)
      BY <1>1, <1>5
    <3>2. CASE i = x.next
      BY <2>4, <3>2 DEF Current
    <3>3. CASE i \in 1..(x.next - 1)
      BY <2>2, <2>3, <3>1, <3>3 DEF CheckpointInv, ReadInv
    <3> QED BY <3>1, <3>2, <3>3
  <2>6. x'.at # "statuses"
    BY <1>5
  <2> QED BY <1>5, <2>3, <2>5, <2>6 DEF ReadInv
<1> QED BY <1>2, <1>7, <1>8, <1>9, <1>10, <1>11 DEF CheckpointInv

LEMMA ProviderFailsKeeps ==
  ASSUME CheckpointInv, ProviderFails PROVE CheckpointInv'
<1> DEFINE f == [g \in Gates |-> IF Decided(x.outcome[g]) THEN x.outcome[g] ELSE Failed]
<1>1. /\ x.at # "done" /\ ci' = ci /\ settled' = settled /\ unseen' = unseen
      /\ x' = [x EXCEPT !.at = "done", !.outcome = f]
  BY DEF ProviderFails
<1>2. CITypes' /\ SettledInv'
  BY <1>1 DEF CheckpointInv, CITypes, SettledInv, Latest
<1>3. x.outcome \in [Gates -> Outcome] /\ \A g \in Gates : x.outcome[g] # Unknown
  BY <1>1 DEF CheckpointInv, ExtractionTypes, FoundInv
<1>4. /\ f \in [Gates -> Outcome]
      /\ \A g \in Gates : f[g] = IF Decided(x.outcome[g]) THEN x.outcome[g] ELSE Failed
  BY <1>3, Outcomes
<1> HIDE DEF f
<1>5. /\ DOMAIN x' = ExtractionFields /\ x'.at = "done"
      /\ x'.order = x.order /\ x'.next = x.next
      /\ x'.checks = x.checks /\ x'.statuses = x.statuses /\ x'.outcome = f
  BY <1>1 DEF CheckpointInv, ExtractionTypes, ExtractionFields
<1>6. ExtractionTypes'
  <2>1. \A g \in Gates : Decided(f[g])
    BY <1>4, Outcomes DEF Decided
  <2> QED BY <1>4, <1>5, <2>1 DEF CheckpointInv, ExtractionTypes
<1>7. OrderInv' /\ CacheInv' /\ ReadInv'
  BY <1>1, <1>5 DEF CheckpointInv, OrderInv, CacheInv, ReadInv
<1>8. FoundInv'
  <2>1. ASSUME NEW g \in Gates
        PROVE  /\ f[g] # Unknown
               /\ f[g] = x.outcome[g] \/ (x.outcome[g] = Undecided /\ f[g].status = "error")
    <3>1. Failed # Unknown /\ Failed.status = "error"
      BY DEF Failed, Unknown
    <3> QED BY <1>3, <1>4, <3>1 DEF Decided
  <2>2. Undecided.status = "pending"
    BY DEF Undecided
  <2> QED BY <1>1, <1>5, <2>1, <2>2 DEF CheckpointInv, FoundInv
<1> QED BY <1>2, <1>6, <1>7, <1>8 DEF CheckpointInv

(* The extraction holds what it has read, in order, while CI goes on.      *)
THEOREM CheckpointInvariant == Spec => []CheckpointInv
<1>1. CheckpointInv /\ [Next]_extractionVars => CheckpointInv'
  <2> SUFFICES ASSUME CheckpointInv, [Next]_extractionVars PROVE CheckpointInv'
    OBVIOUS
  <2>1. CASE UNCHANGED extractionVars
    BY <2>1 DEF extractionVars, CheckpointInv, CITypes, SettledInv, ExtractionTypes,
                OrderInv, CacheInv, FoundInv, ReadInv, Latest
  <2> QED BY <2>1, CIKeepsCheckpoints, ListRunsKeeps, ListRunsMissingKeeps, ReadChecksKeeps,
             ReadStatusesKeeps, ProviderFailsKeeps DEF Next, Extract
<1> QED BY <1>1, CheckpointsInitially, PTL DEF Spec

(* The extraction's part of the type invariant: one outcome per gate, a    *)
(* place in the list of runs, and every gate decided in the end.           *)
THEOREM ExtractionAlwaysTyped == Spec => []ExtractionOK
<1>1. CheckpointInv => ExtractionOK
  BY DEF CheckpointInv, CITypes, ExtractionTypes, ExtractionOK
<1> QED BY <1>1, CheckpointInvariant, PTL

(* _check_evidence and _status_evidence: a checkpoint that is known rests  *)
(* on a success of its run's checks and a success status of that run.      *)
THEOREM KnownAlwaysWasGreen == Spec => []KnownWasGreen
<1>1. CheckpointInv => KnownWasGreen
  BY DEF CheckpointInv, FoundInv, KnownWasGreen, Passed
<1> QED BY <1>1, CheckpointInvariant, PTL

(* A run whose gate had failed in its last attempt when the runs were      *)
(* listed is no checkpoint, whatever an earlier attempt says.              *)
THEOREM RedIsNeverKnown == Spec => []RedIsNotKnown
<1>1. CheckpointInv => RedIsNotKnown
  BY DEF CheckpointInv, FoundInv, RedIsNotKnown
<1> QED BY <1>1, CheckpointInvariant, PTL

(* The loop over the runs, newest first: a run that was green when they    *)
(* were listed is passed over only for a newer one or an error.            *)
THEOREM NewestGreenIsAlwaysFound == Spec => []NewestGreenIsFound
<1>1. ASSUME CheckpointInv, NEW r \in Runs \ unseen, NEW g \in Gates,
             x.at = "done", x.order # <<>>, settled[r][g] = "green"
      PROVE  x.outcome[g].status = "error" \/ x.outcome[g].run >= r
  <2> DEFINE o == x.outcome[g]
             n == x.next
  <2>1. PICK j \in DOMAIN x.order : x.order[j] = r
    BY <1>1 DEF CheckpointInv, OrderInv
  <2>2. /\ DOMAIN x.order = 1..Len(x.order) /\ Len(x.order) \in Nat
        /\ n \in 1..(Len(x.order) + 1)
    BY <1>1 DEF CheckpointInv, ExtractionTypes
  <2>3. /\ o \in Outcome /\ o # Undecided
        /\ o = Unknown => n > Len(x.order)
        /\ o.status = "known" => \E i \in 1..(n - 1) : x.order[i] = o.run
        /\ j \in 1..(n - 1) => o.status = "error" \/ (o.status = "known" /\ o.run >= r)
    BY <1>1, <2>1 DEF CheckpointInv, ExtractionTypes, FoundInv, Decided
  <2> HIDE DEF o, n
  <2>4. CASE j < n
    BY <2>1, <2>2, <2>3, <2>4 DEF o
  <2>5. CASE ~(j < n)
    <3>1. n <= Len(x.order)
      BY <2>1, <2>2, <2>5
    <3>2. o.status \in {"known", "error"}
      BY <2>2, <2>3, <3>1, OutcomeCases
    <3>3. ASSUME o.status = "known" PROVE o.run >= r
      <4>1. PICK i \in 1..(n - 1) : x.order[i] = o.run
        BY <2>3, <3>3
      <4>2. i \in DOMAIN x.order /\ i < j
        BY <2>1, <2>2, <2>5
      <4>3. x.order[i] > x.order[j]
        BY <2>1, <4>2, <1>1 DEF CheckpointInv, OrderInv
      <4>4. o.run \in Nat /\ r \in Nat
        BY <2>3, <3>3, OutcomeCases, RunsAssumption
      <4> QED BY <2>1, <4>1, <4>3, <4>4
    <3> QED BY <3>2, <3>3 DEF o
  <2> QED BY <2>4, <2>5
<1>2. CheckpointInv => NewestGreenIsFound
  BY <1>1 DEF NewestGreenIsFound
<1> QED BY <1>2, CheckpointInvariant, PTL

-----------------------------------------------------------------------------
(* What the listings read for the i-th run say of a gate, and that it is   *)
(* all there is to a gate's outcome: the first run that says something     *)
(* decides.                                                                *)
Says(i, g) == Verdict(x.order[i], g,
                      CHOOSE c \in x.checks[x.order[i]] : TRUE,
                      CHOOSE s \in x.statuses[ShaOf[x.order[i]]] : TRUE)

DecidedBy(i, g) == IF Says(i, g) = "known" THEN Known(x.order[i]) ELSE Failed

IndependentInv ==
  \A g \in Gates :
    \/ \E i \in 1..(x.next - 1) :
         /\ Says(i, g) # "older" /\ x.outcome[g] = DecidedBy(i, g)
         /\ \A j \in 1..(i - 1) : Says(j, g) = "older"
    \/ /\ \A i \in 1..(x.next - 1) : Says(i, g) = "older"
       /\ x.at # "done" => x.outcome[g] = Undecided

LEMMA DecidedByIsDecided ==
  ASSUME CheckpointInv, NEW i \in 1..(x.next - 1), NEW g
  PROVE  Decided(DecidedBy(i, g))
<1>1. x.order[i] \in Runs
  <2>1. i \in DOMAIN x.order
    BY DEF CheckpointInv, ExtractionTypes
  <2> QED BY <2>1 DEF CheckpointInv, ExtractionTypes
<1> QED BY <1>1, Outcomes DEF DecidedBy, Decided

LEMMA IndependentInitially == Init => IndependentInv
<1> SUFFICES ASSUME Init PROVE IndependentInv
  OBVIOUS
<1>1. x.next = 1 /\ \A g \in Gates : x.outcome[g] = Undecided
  BY DEF Init, InitExtraction
<1>2. 1..(x.next - 1) = {}
  BY <1>1
<1> QED BY <1>1, <1>2 DEF IndependentInv

LEMMA NothingReadIsIndependent ==
  ASSUME x'.next = 1, x'.at = "done" \/ \A g \in Gates : x'.outcome[g] = Undecided
  PROVE  IndependentInv'
<1>1. 1..(x'.next - 1) = {}
  OBVIOUS
<1> QED BY <1>1 DEF IndependentInv

(* Listings that are read for a run leave what older listings say alone.   *)
LEMMA SayingStays ==
  ASSUME NEW n \in Nat, NEW g, x'.order = x.order, n <= x.next - 1,
         \A i \in 1..n : /\ x'.checks[x.order[i]] = x.checks[x.order[i]]
                         /\ x'.statuses[ShaOf[x.order[i]]] = x.statuses[ShaOf[x.order[i]]]
  PROVE  \A i \in 1..n : Says(i, g)' = Says(i, g) /\ DecidedBy(i, g)' = DecidedBy(i, g)
BY DEF Says, DecidedBy

LEMMA ListRunsIndependent ==
  ASSUME CheckpointInv, ListRuns PROVE IndependentInv'
<1>1. /\ x.at = "idle" /\ x.next = 1 /\ DOMAIN x = ExtractionFields
      /\ \A g \in Gates : x.outcome[g] = Undecided
  BY DEF ListRuns, CheckpointInv, ExtractionTypes
<1>2. PICK S \in {Begun, {r \in Begun : ci[r].state = "completed"}} :
        x' = IF \E r \in S : ci[r].state = "active"
             THEN [x EXCEPT !.at = "done", !.outcome = [g \in Gates |-> Failed]]
             ELSE Continue([x EXCEPT !.order = NewestFirst(S)])
  BY DEF ListRuns
<1> DEFINE order == NewestFirst(S)
           y == [x EXCEPT !.order = order]
           failed == [g \in Gates |-> Failed]
           unknown == [g \in Gates |-> IF Decided(y.outcome[g]) THEN y.outcome[g] ELSE Unknown]
<1> HIDE DEF order
<1>3. DOMAIN y = ExtractionFields /\ y.next = 1 /\ y.outcome = x.outcome
  BY <1>1 DEF ExtractionFields
<1>4. \/ x' = [x EXCEPT !.at = "done", !.outcome = failed]
      \/ x' = [y EXCEPT !.at = "done", !.outcome = unknown]
      \/ x' = [y EXCEPT !.at = "checks"]
  BY <1>2 DEF Continue, order
<1> HIDE DEF y, failed, unknown
<1>5. CASE x' = [x EXCEPT !.at = "done", !.outcome = failed]
  <2>1. x'.next = 1 /\ x'.at = "done"
    BY <1>1, <1>5 DEF ExtractionFields
  <2> QED BY <2>1, NothingReadIsIndependent
<1>6. CASE x' = [y EXCEPT !.at = "done", !.outcome = unknown]
  <2>1. x'.next = 1 /\ x'.at = "done"
    BY <1>3, <1>6 DEF ExtractionFields
  <2> QED BY <2>1, NothingReadIsIndependent
<1>7. CASE x' = [y EXCEPT !.at = "checks"]
  <2>1. x'.next = 1 /\ x'.outcome = x.outcome
    BY <1>3, <1>7 DEF ExtractionFields
  <2>2. \A g \in Gates : x'.outcome[g] = Undecided
    BY <1>1, <2>1
  <2> QED BY <2>1, <2>2, NothingReadIsIndependent
<1> QED BY <1>4, <1>5, <1>6, <1>7

LEMMA ListRunsMissingIndependent ==
  ASSUME CheckpointInv, ListRunsMissing PROVE IndependentInv'
<1> DEFINE f == [g \in Gates |-> Unknown]
<1>1. x.at = "idle" /\ x' = [x EXCEPT !.at = "done", !.outcome = f]
  BY DEF ListRunsMissing
<1>2. x.next = 1 /\ DOMAIN x = ExtractionFields
  BY <1>1 DEF CheckpointInv, ExtractionTypes
<1> HIDE DEF f
<1>3. x'.next = 1 /\ x'.at = "done"
  BY <1>1, <1>2 DEF ExtractionFields
<1> QED BY <1>3, NothingReadIsIndependent

LEMMA ReadChecksIndependent ==
  ASSUME CheckpointInv, IndependentInv, ReadChecks PROVE IndependentInv'
<1>0. ci[Current].state # "absent"
  <2>1. x.at = "checks"
    BY DEF ReadChecks
  <2>2. x.next \in DOMAIN x.order
    BY <2>1 DEF CheckpointInv, ExtractionTypes
  <2> QED BY <2>2 DEF CheckpointInv, OrderInv, Current
<1>1. PICK l \in [Gates -> Listings] :
        /\ x.at = "checks" /\ Current \in Runs /\ x.next \in 1..Len(x.order)
        /\ x'.at = "statuses" /\ x'.order = x.order /\ x'.next = x.next
        /\ x'.statuses = x.statuses /\ x'.outcome = x.outcome
        /\ x'.checks = [x.checks EXCEPT ![Current] = {l}]
  BY <1>0, ReadChecksDoes DEF CheckpointInv
<1>2. x.next - 1 \in Nat /\ x.order \in Seq(Runs) /\ DOMAIN x.order = 1..Len(x.order)
  BY <1>1 DEF CheckpointInv, ExtractionTypes
<1>3. ASSUME NEW i \in 1..(x.next - 1)
      PROVE  x'.checks[x.order[i]] = x.checks[x.order[i]]
  <2>1. i \in DOMAIN x.order /\ x.next \in DOMAIN x.order /\ i < x.next
    BY <1>1, <1>2
  <2>2. x.order[i] > Current /\ x.order[i] \in Runs
    BY <1>2, <2>1 DEF CheckpointInv, OrderInv, Current
  <2>3. x.order[i] # Current
    BY <1>1, <2>2, RunsAssumption
  <2> QED BY <1>1, <2>3
<1>4. \A g \in Gates : \A i \in 1..(x.next - 1) :
        Says(i, g)' = Says(i, g) /\ DecidedBy(i, g)' = DecidedBy(i, g)
  <2> DEFINE n == x.next - 1
  <2>1. n \in Nat /\ n <= x.next - 1
    BY <1>2
  <2>2. \A i \in 1..n : /\ x'.checks[x.order[i]] = x.checks[x.order[i]]
                        /\ x'.statuses[ShaOf[x.order[i]]] = x.statuses[ShaOf[x.order[i]]]
    BY <1>1, <1>3
  <2> HIDE DEF n
  <2>3. \A g \in Gates : \A i \in 1..n :
          Says(i, g)' = Says(i, g) /\ DecidedBy(i, g)' = DecidedBy(i, g)
    BY <1>1, <2>1, <2>2, SayingStays
  <2> QED BY <2>3 DEF n
<1> QED BY <1>1, <1>2, <1>4 DEF IndependentInv

LEMMA ReadStatusesIndependent ==
  ASSUME CheckpointInv, IndependentInv, ReadStatuses PROVE IndependentInv'
<1>1. PICK l \in SUBSET (Runs \X Gates \X {"success", "other"}) :
        /\ x.at = "statuses" /\ Current \in Runs /\ ShaOf[Current] \in Shas
        /\ x.next \in 1..Len(x.order)
        /\ IF x.statuses[ShaOf[Current]] # {} THEN l \in x.statuses[ShaOf[Current]]
           ELSE l = StatusesOf(ShaOf[Current]) \/ l = {}
        /\ StatusesRead(Current, l)
  BY ReadStatusesDoes DEF CheckpointInv
<1>2. /\ x'.order = x.order /\ x'.next = x.next + 1 /\ x'.checks = x.checks
      /\ x'.statuses = [x.statuses EXCEPT ![ShaOf[Current]] = {l}]
      /\ \/ /\ x'.at = "checks"
            /\ \A g \in Gates : x'.outcome[g] = OutcomeBy(Current, g, l)
         \/ /\ x'.at = "done"
            /\ \A g \in Gates : x'.outcome[g] = IF Decided(OutcomeBy(Current, g, l))
                                                THEN OutcomeBy(Current, g, l) ELSE Unknown
  BY <1>1 DEF StatusesRead
<1>3. /\ x.next - 1 \in Nat /\ x.next \in Nat
      /\ \A i \in 1..(x.next - 1) : x.order[i] \in Runs /\ ShaOf[x.order[i]] \in Shas
  <2>1. /\ x.order \in Seq(Runs) /\ DOMAIN x.order = 1..Len(x.order)
        /\ \A i \in 1..(x.next - 1) : i \in DOMAIN x.order
    BY <1>1 DEF CheckpointInv, ExtractionTypes
  <2>2. \A i \in 1..(x.next - 1) : x.order[i] \in Runs
    BY <2>1
  <2> QED BY <1>1, <2>2 DEF Shas
<1>4. ASSUME NEW i \in 1..(x.next - 1)
      PROVE  x'.statuses[ShaOf[x.order[i]]] = x.statuses[ShaOf[x.order[i]]]
  <2>0. x.statuses \in [Shas -> SUBSET SUBSET (Runs \X Gates \X {"success", "other"})]
    BY DEF CheckpointInv, ExtractionTypes
  <2>1. CASE ShaOf[x.order[i]] = ShaOf[Current]
    <3>1. x.statuses[ShaOf[Current]] # {}
      BY <2>1 DEF CheckpointInv, ReadInv
    <3>2. l \in x.statuses[ShaOf[Current]]
      BY <1>1, <3>1
    <3>3. x.statuses[ShaOf[Current]] = {l}
      BY <1>1, <3>2 DEF CheckpointInv, ReadInv
    <3> QED BY <1>1, <1>2, <2>0, <2>1, <3>3
  <2>2. CASE ShaOf[x.order[i]] # ShaOf[Current]
    BY <1>2, <1>3, <2>0, <2>2
  <2> QED BY <2>1, <2>2
<1>5. \A g \in Gates : \A i \in 1..(x.next - 1) :
        Says(i, g)' = Says(i, g) /\ DecidedBy(i, g)' = DecidedBy(i, g)
  <2> DEFINE n == x.next - 1
  <2>1. n \in Nat /\ n <= x.next - 1
    BY <1>3
  <2>2. \A i \in 1..n : /\ x'.checks[x.order[i]] = x.checks[x.order[i]]
                        /\ x'.statuses[ShaOf[x.order[i]]] = x.statuses[ShaOf[x.order[i]]]
    BY <1>2, <1>4
  <2> HIDE DEF n
  <2>3. \A g \in Gates : \A i \in 1..n :
          Says(i, g)' = Says(i, g) /\ DecidedBy(i, g)' = DecidedBy(i, g)
    BY <1>2, <2>1, <2>2, SayingStays
  <2> QED BY <2>3 DEF n
<1> SUFFICES ASSUME NEW g \in Gates
             PROVE  \/ \E i \in 1..(x'.next - 1) :
                         /\ Says(i, g)' # "older" /\ x'.outcome[g] = DecidedBy(i, g)'
                         /\ \A j \in 1..(i - 1) : Says(j, g)' = "older"
                    \/ /\ \A i \in 1..(x'.next - 1) : Says(i, g)' = "older"
                       /\ x'.at # "done" => x'.outcome[g] = Undecided
  BY DEF IndependentInv
<1>n. PICK n \in Nat : n = x.next
  BY <1>3
<1> DEFINE c == CHOOSE k \in x.checks[Current] : TRUE
           v == Verdict(Current, g, c, l)
           o == OutcomeBy(Current, g, l)
<1>6. /\ Says(n, g)' = v
      /\ DecidedBy(n, g)' = IF v = "known" THEN Known(Current) ELSE Failed
  <2>1. x'.statuses[ShaOf[Current]] = {l}
    BY <1>1, <1>2 DEF CheckpointInv, ExtractionTypes
  <2>2. (CHOOSE s \in {l} : TRUE) = l
    OBVIOUS
  <2>a. x'.order[n] = Current /\ x'.checks[Current] = x.checks[Current]
    BY <1>2, <1>n DEF Current
  <2>3. Says(n, g)' = Verdict(Current, g, c, CHOOSE s \in {l} : TRUE)
    BY <2>1, <2>a DEF Says
  <2>4. Says(n, g)' = v
    BY <2>2, <2>3
  <2> HIDE DEF v
  <2> QED BY <2>a, <2>4 DEF DecidedBy
<1>7. o = IF Decided(x.outcome[g]) THEN x.outcome[g]
          ELSE CASE v = "known" -> Known(Current) [] v = "error" -> Failed
                 [] OTHER -> Undecided
  BY DEF OutcomeBy
<1>8. v \in {"known", "error", "older"}
  <2>1. c \in x.checks[Current]
    BY <1>1 DEF CheckpointInv, ReadInv, Current
  <2>2. c \in [Gates -> Listings]
    BY <1>1, <2>1 DEF CheckpointInv, ExtractionTypes
  <2> HIDE DEF c
  <2> QED BY <2>2, VerdictOfEvidence
<1> HIDE DEF c, v, o
<1>9. /\ Decided(o) => x'.outcome[g] = o
      /\ x'.at # "done" => x'.outcome[g] = o
  BY <1>2 DEF o
<1>10. n \in Nat /\ n >= 1 /\ x'.next - 1 = n
  BY <1>1, <1>2, <1>3, <1>n
<1>11. \/ \E i \in 1..(n - 1) : /\ Says(i, g) # "older" /\ x.outcome[g] = DecidedBy(i, g)
                                /\ \A j \in 1..(i - 1) : Says(j, g) = "older"
       \/ /\ \A i \in 1..(n - 1) : Says(i, g) = "older"
          /\ x.outcome[g] = Undecided
  BY <1>1, <1>n DEF IndependentInv
<1>12. \A i \in 1..(n - 1) : Says(i, g)' = Says(i, g) /\ DecidedBy(i, g)' = DecidedBy(i, g)
  BY <1>5, <1>n
<1>13. CASE \E i \in 1..(n - 1) : /\ Says(i, g) # "older" /\ x.outcome[g] = DecidedBy(i, g)
                                  /\ \A j \in 1..(i - 1) : Says(j, g) = "older"
  <2>1. PICK i \in 1..(n - 1) : /\ Says(i, g) # "older" /\ x.outcome[g] = DecidedBy(i, g)
                                /\ \A j \in 1..(i - 1) : Says(j, g) = "older"
    BY <1>13
  <2>2. Decided(x.outcome[g])
    BY <1>n, <2>1, DecidedByIsDecided
  <2>3. x'.outcome[g] = DecidedBy(i, g)'
    BY <1>7, <1>9, <1>12, <2>1, <2>2
  <2>4. i \in 1..(x'.next - 1) /\ \A j \in 1..(i - 1) : j \in 1..(n - 1)
    BY <1>10
  <2>5. Says(i, g)' # "older" /\ \A j \in 1..(i - 1) : Says(j, g)' = "older"
    BY <1>12, <2>1, <2>4
  <2> QED BY <2>3, <2>4, <2>5
<1>14. CASE (\A i \in 1..(n - 1) : Says(i, g) = "older") /\ x.outcome[g] = Undecided
  <2>1. /\ \A i \in 1..(n - 1) : Says(i, g)' = "older"
        /\ ~Decided(x.outcome[g])
    BY <1>12, <1>14 DEF Decided
  <2>2. CASE v # "older"
    <3>1. o = DecidedBy(n, g)'
      BY <1>6, <1>7, <1>8, <2>1, <2>2
    <3>2. Decided(o)
      BY <1>1, <1>6, <3>1, Outcomes DEF Decided
    <3>3. n \in 1..(x'.next - 1) /\ x'.outcome[g] = DecidedBy(n, g)' /\ Says(n, g)' # "older"
      BY <1>6, <1>9, <1>10, <2>2, <3>1, <3>2
    <3> QED BY <2>1, <3>3
  <2>3. CASE v = "older"
    <3>1. o = Undecided
      BY <1>7, <2>1, <2>3
    <3>2. ASSUME NEW i \in 1..(x'.next - 1) PROVE Says(i, g)' = "older"
      <4>1. CASE i = n
        BY <1>6, <2>3, <4>1
      <4>2. CASE i # n
        <5>1. i \in 1..(n - 1)
          BY <1>10, <4>2
        <5> QED BY <2>1, <5>1
      <4> QED BY <4>1, <4>2
    <3> QED BY <1>9, <3>1, <3>2
  <2> QED BY <2>2, <2>3
<1> QED BY <1>11, <1>13, <1>14

LEMMA ProviderFailsIndependent ==
  ASSUME CheckpointInv, IndependentInv, ProviderFails PROVE IndependentInv'
<1> DEFINE f == [g \in Gates |-> IF Decided(x.outcome[g]) THEN x.outcome[g] ELSE Failed]
<1>1. x.at # "done" /\ x' = [x EXCEPT !.at = "done", !.outcome = f]
  BY DEF ProviderFails
<1>2. \A g \in Gates : Decided(x.outcome[g]) => f[g] = x.outcome[g]
  OBVIOUS
<1> HIDE DEF f
<1>3. /\ x'.at = "done" /\ x'.order = x.order /\ x'.next = x.next
      /\ x'.checks = x.checks /\ x'.statuses = x.statuses /\ x'.outcome = f
  BY <1>1 DEF CheckpointInv, ExtractionTypes, ExtractionFields
<1>4. \A g \in Gates, i \in 1..(x.next - 1) :
        Says(i, g)' = Says(i, g) /\ DecidedBy(i, g)' = DecidedBy(i, g)
  BY <1>3 DEF Says, DecidedBy
<1> SUFFICES ASSUME NEW g \in Gates
             PROVE  \/ \E i \in 1..(x'.next - 1) :
                         /\ Says(i, g)' # "older" /\ x'.outcome[g] = DecidedBy(i, g)'
                         /\ \A j \in 1..(i - 1) : Says(j, g)' = "older"
                    \/ \A i \in 1..(x'.next - 1) : Says(i, g)' = "older"
  BY <1>3 DEF IndependentInv
<1>5. CASE \A i \in 1..(x.next - 1) : Says(i, g) = "older"
  BY <1>3, <1>4, <1>5
<1>6. CASE ~(\A i \in 1..(x.next - 1) : Says(i, g) = "older")
  <2>1. PICK i \in 1..(x.next - 1) : /\ Says(i, g) # "older" /\ x.outcome[g] = DecidedBy(i, g)
                                     /\ \A j \in 1..(i - 1) : Says(j, g) = "older"
    BY <1>6 DEF IndependentInv
  <2>2. x'.outcome[g] = DecidedBy(i, g)'
    BY <1>2, <1>3, <1>4, <2>1, DecidedByIsDecided
  <2>3. \A j \in 1..(i - 1) : j \in 1..(x.next - 1)
    BY DEF CheckpointInv, ExtractionTypes
  <2> QED BY <1>3, <1>4, <2>1, <2>2, <2>3
<1> QED BY <1>5, <1>6

(* The loop's two decisions: what is found for one gate is what the        *)
(* listings of the newest run that says anything of it say.                *)
THEOREM GatesAlwaysIndependent == Spec => []GatesAreIndependent
<1>1. Init => CheckpointInv /\ IndependentInv
  BY CheckpointsInitially, IndependentInitially
<1>2. CheckpointInv /\ IndependentInv /\ [Next]_extractionVars => IndependentInv'
  <2> SUFFICES ASSUME CheckpointInv, IndependentInv, [Next]_extractionVars
               PROVE  IndependentInv'
    OBVIOUS
  <2>1. CASE x' = x
    <3>1. ASSUME NEW i, NEW g PROVE Says(i, g)' = Says(i, g)
      BY <2>1 DEF Says
    <3>2. \A i, g : DecidedBy(i, g)' = DecidedBy(i, g)
      BY <2>1, <3>1 DEF DecidedBy
    <3> QED BY <2>1, <3>1, <3>2 DEF IndependentInv
  <2>2. ProductCI => x' = x
    BY DEF ProductCI, Begin, Rerun, PostStatus, JobEnds, StepOfCI
  <2>3. UNCHANGED extractionVars => x' = x
    BY DEF extractionVars
  <2> QED BY <2>1, <2>2, <2>3, ListRunsIndependent, ListRunsMissingIndependent,
             ReadChecksIndependent, ReadStatusesIndependent, ProviderFailsIndependent
          DEF Next, Extract
<1>3. CheckpointInv /\ IndependentInv => GatesAreIndependent
  <2> SUFFICES ASSUME CheckpointInv, IndependentInv PROVE GatesAreIndependent
    OBVIOUS
  <2> DEFINE read == {i \in 1..(x.next - 1) : TRUE}
             deciding(g) == {i \in read : Says(i, g) # "older"}
             first(g) == CHOOSE i \in deciding(g) : \A j \in deciding(g) : i <= j
  <2>1. x.next - 1 \in Nat
    BY DEF CheckpointInv, ExtractionTypes
  <2>2. ASSUME NEW g \in Gates, deciding(g) # {}
        PROVE  x.outcome[g] = IF Says(first(g), g) = "known"
                              THEN Known(x.order[first(g)]) ELSE Failed
    <3>1. PICK i \in 1..(x.next - 1) : /\ Says(i, g) # "older" /\ x.outcome[g] = DecidedBy(i, g)
                                       /\ \A j \in 1..(i - 1) : Says(j, g) = "older"
      BY <2>2 DEF IndependentInv
    <3>2. i \in deciding(g) /\ \A j \in deciding(g) : i <= j
      BY <2>1, <3>1
    <3>3. \A k \in deciding(g) : (\A j \in deciding(g) : k <= j) => k = i
      BY <2>1, <3>2
    <3>4. first(g) = i
      BY <3>2, <3>3
    <3> HIDE DEF first
    <3> QED BY <3>1, <3>4 DEF DecidedBy
  <2>3. \A g \in Gates : x.outcome[g] = Unknown => x.next > Len(x.order)
    BY DEF CheckpointInv, FoundInv
  <2> HIDE DEF deciding, first, read
  <2>4. \A g \in Gates :
          /\ deciding(g) # {} => x.outcome[g] = IF Says(first(g), g) = "known"
                                                THEN Known(x.order[first(g)]) ELSE Failed
          /\ x.outcome[g] = Unknown => x.next > Len(x.order)
    BY <2>2, <2>3
  <2> QED BY <2>4 DEF GatesAreIndependent, Says, deciding, first, read
<1> QED BY <1>1, <1>2, <1>3, CheckpointInvariant, PTL DEF Spec
=============================================================================
