------------------------ MODULE FindingMatch_proofs ------------------------
(***************************************************************************)
(* For any number of entries and reports and any matcher: a report more    *)
(* never costs a match, and is paid exactly when it makes one.             *)
(***************************************************************************)
EXTENDS FindingMatch, FiniteSetTheorems, WellFoundedInduction, TLAPS

-----------------------------------------------------------------------------
(* The first report of a set                                                *)

\* Every set of reports that is not empty has a first one.
LEMMA FirstExists ==
  ASSUME NEW S \in SUBSET Nat, S # {}
  PROVE  \E f \in S : (\A q \in S : f <= q) /\ First(S) = {f}
<1> DEFINE Less == OpToRel(<, Nat)
<1>1. PICK f \in S : \A q \in S : <<q, f>> \notin Less
  <2> HIDE DEF Less
  <2>1. IsWellFoundedOn(Less, Nat)
    BY NatLessThanWellFounded DEF Less
  <2>2. QED
    BY <2>1, WFMin
<1>2. \A q \in S : f <= q
  <2>1. ASSUME NEW q \in S, q < f PROVE FALSE
    <3>1. <<q, f>> \in Nat \X Nat /\ <<q, f>>[1] < <<q, f>>[2]
      BY <2>1
    <3>2. <<q, f>> \in Less
      BY <3>1 DEF OpToRel
    <3>3. QED
      BY <1>1, <3>2
  <2>2. \A q \in S : q \in Nat /\ f \in Nat
    OBVIOUS
  <2> HIDE DEF Less
  <2>3. QED
    BY <2>1, <2>2
<1>3. First(S) = {f}
  <2>1. \A r \in S : (\A q \in S : r <= q) => r = f
    <3>1. \A r \in S : r \in Nat /\ f \in Nat
      OBVIOUS
    <3> HIDE DEF Less
    <3>2. QED
      BY <1>2, <3>1
  <2> HIDE DEF Less
  <2>2. QED
    BY <1>2, <2>1 DEF First
<1>4. QED
  BY <1>2, <1>3

\* A list takes at most one report in a turn, one that is free and answers.
LEMMA TakenCases ==
  ASSUME TypeOK, NEW l \in Lists
  PROVE  \/ Taken(l) = {} /\ (target \in Wanted => Candidates(l, target) = {})
         \/ \E f \in Candidates(l, target) :
              Taken(l) = {f} /\ target \in Wanted
              /\ \A q \in Candidates(l, target) : f <= q
<1>1. Candidates(l, target) \in SUBSET Nat
  BY DEF TypeOK, Candidates, Free, Reported
<1>2. CASE target \notin Wanted
  BY <1>2 DEF Taken
<1>3. CASE target \in Wanted /\ Candidates(l, target) = {}
  BY <1>3 DEF Taken, First
<1>4. CASE target \in Wanted /\ Candidates(l, target) # {}
  BY <1>1, <1>4, FirstExists DEF Taken
<1>5. QED
  BY <1>2, <1>3, <1>4

-----------------------------------------------------------------------------
(* Types                                                                    *)

\* The loops start with every variable in its domain.
LEMMA TypeInit == Init => TypeOK
BY FS_EmptySet, ConstantsAssumption DEF Init, TypeOK, Lists

\* A turn of the outer loop counts what it takes, once.
LEMMA TypeStep == ASSUME TypeOK, [Next]_vars PROVE TypeOK'
<1>1. CASE NextTarget
  <2>1. ASSUME NEW l \in Lists
        PROVE  /\ used'[l] \in SUBSET (1..reports) /\ hits'[l] \in Nat
               /\ Cardinality(used'[l]) = hits'[l] /\ hits'[l] < target'
               /\ (l = "without" => added \notin used'[l])
    <3>1. used'[l] = used[l] \cup Taken(l)
          /\ hits'[l] = IF Taken(l) = {} THEN hits[l] ELSE hits[l] + 1
      BY <1>1, <2>1 DEF NextTarget
    <3>2. used[l] \in SUBSET (1..reports) /\ hits[l] \in Nat /\ Cardinality(used[l]) = hits[l]
          /\ hits[l] < target /\ target \in Nat /\ reports \in Nat /\ target' = target + 1
          /\ added \notin used["without"]
      BY <1>1, <2>1 DEF TypeOK, NextTarget
    <3>3. CASE Taken(l) = {}
      BY <3>1, <3>2, <3>3
    <3>4. CASE Taken(l) # {}
      <4>1. PICK f \in Candidates(l, target) : Taken(l) = {f}
        BY <3>4, TakenCases, <2>1
      <4>2. f \in Reported(l) /\ f \notin used[l]
        BY <4>1 DEF Candidates, Free
      <4>3. f \in 1..reports /\ (l = "without" => f # added)
        BY <4>2, <3>2 DEF Reported
      <4>4. IsFiniteSet(used[l])
        <5>1. IsFiniteSet(1..reports)
          BY <3>2, FS_Interval
        <5>2. QED
          BY <3>2, <5>1, FS_Subset
      <4>5. Cardinality(used[l] \cup {f}) = Cardinality(used[l]) + 1
        BY <4>2, <4>4, FS_AddElement
      <4>6. QED
        BY <3>1, <3>2, <3>4, <4>1, <4>3, <4>5
    <3>5. QED
      BY <3>3, <3>4
  <2>2. used' \in [Lists -> SUBSET (1..reports)] /\ hits' \in [Lists -> 0..entries]
    <3>1. \A l \in Lists : hits'[l] \in 0..entries
      BY <1>1, <2>1 DEF TypeOK, NextTarget
    <3>2. QED
      BY <1>1, <2>1, <3>1 DEF NextTarget
  <2>3. "without" \in Lists
    BY DEF Lists
  <2>4. target' \in 1..entries + 1
    BY <1>1 DEF TypeOK, NextTarget
  <2>5. QED
    BY <1>1, <2>1, <2>2, <2>3, <2>4 DEF TypeOK, NextTarget, task
<1>2. CASE UNCHANGED vars
  BY <1>2 DEF TypeOK, vars, task, Lists
<1>3. QED
  BY <1>1, <1>2 DEF Next

\* The types hold for every number of entries and reports.
THEOREM TypeCorrect == Spec => []TypeOK
<1>1. QED
  BY TypeInit, TypeStep, PTL DEF Spec

-----------------------------------------------------------------------------
(* The two lists in lockstep                                                *)

\* Either the longer list is one match ahead and the same reports are free in
\* both, or they are level and the longer one has one more of them free.
Lockstep ==
  \/ /\ hits["with"] = hits["without"] + 1
     /\ Free("with") = Free("without")
  \/ /\ hits["with"] = hits["without"]
     /\ \E z \in Free("with") : Free("without") = Free("with") \ {z}

\* At first the added report is the one more.
LEMMA LockstepInit == Init => Lockstep
<1> SUFFICES ASSUME Init PROVE Lockstep
  OBVIOUS
<1>1. added \in Free("with") /\ Free("without") = Free("with") \ {added}
  BY DEF Init, Free, Reported, Lists
<1>2. QED
  BY <1>1 DEF Init, Lockstep, Lists

\* What a turn leaves free and counts.
LEMMA TurnFrees ==
  ASSUME TypeOK, NextTarget, NEW l \in Lists
  PROVE  /\ Free(l)' = Free(l) \ Taken(l)
         /\ hits'[l] = IF Taken(l) = {} THEN hits[l] ELSE hits[l] + 1
         /\ hits[l] \in Nat
BY DEF TypeOK, NextTarget, Free, Reported, task

\* Whichever report the longer list takes, the lists stay in lockstep: where it
\* takes the one more, the other list falls behind or takes a later one, and
\* that one is then the one more.
LEMMA LockstepStep == ASSUME TypeOK, Lockstep, [Next]_vars PROVE Lockstep'
<1>1. CASE NextTarget
  <2> DEFINE F == Free("without")
             G == Free("with")
             T == Taken("without")
             U == Taken("with")
  <2>1. "with" \in Lists /\ "without" \in Lists
    BY DEF Lists
  <2>2. /\ Free("without")' = F \ T /\ Free("with")' = G \ U
        /\ hits'["without"] = IF T = {} THEN hits["without"] ELSE hits["without"] + 1
        /\ hits'["with"] = IF U = {} THEN hits["with"] ELSE hits["with"] + 1
        /\ hits["with"] \in Nat /\ hits["without"] \in Nat
    BY <1>1, <2>1, TurnFrees
  <2>3. /\ Candidates("without", target) = {r \in F : <<target, r>> \in answers}
        /\ Candidates("with", target) = {r \in G : <<target, r>> \in answers}
    BY DEF Candidates
  <2>4. F \in SUBSET Nat /\ G \in SUBSET Nat
    BY DEF TypeOK, Free, Reported
  <2>5. CASE hits["with"] = hits["without"] + 1 /\ G = F
    <3>1. T = U
      BY <2>3, <2>5 DEF Taken
    <3>2. QED
      BY <2>2, <2>5, <3>1 DEF Lockstep
  <2>6. ASSUME hits["with"] = hits["without"], NEW z \in G, F = G \ {z}
        PROVE  Lockstep'
    <3>1. CASE U = {}
      <4>1. T = {}
        BY <2>1, <2>3, <2>6, <3>1, TakenCases
      <4>2. QED
        BY <2>2, <2>6, <3>1, <4>1 DEF Lockstep
    <3>2. ASSUME NEW u \in Candidates("with", target), U = {u}, target \in Wanted,
                 \A q \in Candidates("with", target) : u <= q
          PROVE  Lockstep'
      <4>1. CASE u = z
        <5>1. G \ U = F
          BY <2>6, <3>2, <4>1
        <5>2. CASE T = {}
          BY <2>2, <2>6, <3>2, <5>1, <5>2 DEF Lockstep
        <5>3. ASSUME NEW t \in Candidates("without", target), T = {t}
              PROVE  Lockstep'
          <6>1. t \in F
            BY <2>3, <5>3
          <6>2. hits'["with"] = hits'["without"]
            BY <2>2, <2>6, <3>2, <5>3
          <6>3. t \in Free("with")' /\ Free("without")' = Free("with")' \ {t}
            BY <2>2, <5>1, <5>3, <6>1
          <6>4. QED
            BY <6>2, <6>3 DEF Lockstep
        <5>4. QED
          BY <2>1, <5>2, <5>3, TakenCases
      <4>2. CASE u # z
        <5>1. u \in Candidates("without", target)
              /\ Candidates("without", target) \subseteq Candidates("with", target)
          BY <2>3, <2>6, <3>2, <4>2
        <5>2. PICK t \in Candidates("without", target) :
                T = {t} /\ \A q \in Candidates("without", target) : t <= q
          BY <2>1, <3>2, <5>1, TakenCases
        <5>3. t = u
          <6>1. t <= u /\ u <= t /\ t \in Nat /\ u \in Nat
            BY <2>3, <2>4, <3>2, <5>1, <5>2
          <6>2. QED
            BY <6>1
        <5>4. hits'["with"] = hits'["without"]
          BY <2>2, <2>6, <3>2, <5>2
        <5>5. z \in Free("with")' /\ Free("without")' = Free("with")' \ {z}
          BY <2>2, <2>6, <3>2, <4>2, <5>2, <5>3
        <5>6. QED
          BY <5>4, <5>5 DEF Lockstep
      <4>3. QED
        BY <4>1, <4>2
    <3>3. QED
      BY <2>1, <3>1, <3>2, TakenCases
  <2>7. QED
    BY <2>5, <2>6 DEF Lockstep
<1>2. CASE UNCHANGED vars
  BY <1>2 DEF Lockstep, Free, Reported, vars, task
<1>3. QED
  BY <1>1, <1>2 DEF Next

\* A report more never costs a match and makes at most one, whatever the matcher
\* accepts and wherever the report stands.
THEOREM AddedReport == Spec => []AddedReportNeverCosts
<1>1. Init => TypeOK /\ Lockstep
  BY TypeInit, LockstepInit
<1>2. TypeOK /\ Lockstep /\ [Next]_vars => (TypeOK /\ Lockstep)'
  BY TypeStep, LockstepStep
<1>3. Lockstep => AddedReportNeverCosts
  BY DEF Lockstep, AddedReportNeverCosts
<1>4. QED
  BY <1>1, <1>2, <1>3, PTL DEF Spec

-----------------------------------------------------------------------------
(* What is paid                                                             *)

\* Dividing by one report more lowers a fraction that is not zero.
LEMMA OneMoreLowers ==
  ASSUME NEW k \in Nat \ {0}, NEW h \in Nat, NEW d \in Nat \ {0}
  PROVE  /\ ~(k * h * d > k * h * (d + 1))
         /\ (k * h * (d + 1) > k * h * d) <=> h > 0
<1> DEFINE n == k * h
<1>1. n \in Nat /\ (n > 0 <=> h > 0)
  <2>1. CASE h = 0
    BY <2>1
  <2>2. CASE h > 0
    <3>1. k * h >= h
      BY <2>2
    <3>2. QED
      BY <2>2, <3>1
  <2>3. QED
    BY <2>1, <2>2
<1>2. n * (d + 1) = n * d + n /\ n * d \in Nat
  <2> HIDE DEF n
  <2>1. QED
    BY <1>1
<1> HIDE DEF n
<1>3. (n * d > n * (d + 1) <=> FALSE) /\ (n * (d + 1) > n * d <=> n > 0)
  BY <1>1, <1>2
<1>4. QED
  BY <1>1, <1>3 DEF n

\* One match and one report more raise a fraction below one.
LEMMA MatchRaises ==
  ASSUME NEW k \in Nat \ {0}, NEW h \in Nat, NEW d \in Nat, h < d
  PROVE  /\ k * (h + 1) * d > k * h * (d + 1)
         /\ ~(k * h * (d + 1) > k * (h + 1) * d)
<1> DEFINE a == k * h
           b == k * d
<1>1. a \in Nat /\ b \in Nat /\ k * h * d \in Nat
  OBVIOUS
<1>2. a < b
  OBVIOUS
<1>3. k * (h + 1) * d = k * h * d + b /\ k * h * (d + 1) = k * h * d + a
  OBVIOUS
<1> HIDE DEF a, b
<1>4. QED
  BY <1>1, <1>2, <1>3

\* Both lists' matches are counted below what their fractions divide by.
LEMMA CountsBound ==
  ASSUME TypeOK
  PROVE  /\ hits["without"] \in Nat /\ hits["with"] \in Nat /\ reports \in Nat \ {0}
         /\ hits["without"] <= reports - 1
<1>1. "with" \in Lists /\ "without" \in Lists
  BY DEF Lists
<1>2. /\ hits["without"] \in Nat /\ hits["with"] \in Nat /\ reports \in Nat \ {0}
      /\ used["without"] \subseteq (1..reports) \ {added} /\ added \in 1..reports
      /\ Cardinality(used["without"]) = hits["without"]
  BY <1>1 DEF TypeOK
<1>3. IsFiniteSet(1..reports) /\ Cardinality(1..reports) = reports
  <2>1. /\ IsFiniteSet(1..reports)
        /\ Cardinality(1..reports) = IF 1 > reports THEN 0 ELSE reports - 1 + 1
    <3>1. 1 \in Int /\ reports \in Int
      BY <1>2
    <3>2. QED
      BY <3>1, FS_Interval, Zenon
  <2>2. ~(1 > reports) /\ reports - 1 + 1 = reports
    BY <1>2
  <2>3. QED
    BY <2>1, <2>2
<1>4. /\ IsFiniteSet((1..reports) \ {added})
      /\ Cardinality((1..reports) \ {added}) = reports - 1
  BY <1>2, <1>3, FS_RemoveElement
<1>5. Cardinality(used["without"]) <= Cardinality((1..reports) \ {added})
  BY <1>2, <1>4, FS_Subset
<1>6. QED
  BY <1>2, <1>4, <1>5

\* Where entries are wanted the fraction divides by more than the reports.
LEMMA WantedCount ==
  ASSUME TypeOK, Wanted # {}
  PROVE  Rate \in Nat \ {0} /\ Cardinality(Wanted) \in Nat \ {0}
<1>1. IsFiniteSet(Wanted)
  <2>1. IsFiniteSet(1..entries)
    BY FS_Interval DEF TypeOK
  <2>2. QED
    BY <2>1, FS_Subset DEF Wanted
<1>2. QED
  BY <1>1, FS_EmptySet, FS_CardinalityType DEF Rate

\* The score follows the matches, for every number of reports and entries.
LEMMA PaidInLockstep == ASSUME TypeOK, Lockstep PROVE PaidExactlyForMatches
<1>1. CASE Wanted = {}
  <2>1. reports \in Nat
    BY CountsBound
  <2>2. ~Above(CleanScore("with"), CleanScore("without"))
    BY <2>1 DEF Above, CleanScore, Count
  <2>3. QED
    BY <1>1, <2>2 DEF PaidExactlyForMatches, Score
<1>2. CASE Wanted # {}
  <2> DEFINE k == 1 + Rate
             h == hits["without"]
             d == Rate * Cardinality(Wanted) + (reports - 1)
  <2>1. k \in Nat \ {0} /\ h \in Nat /\ d \in Nat \ {0} /\ h < d
    <3> DEFINE w == Rate * Cardinality(Wanted)
    <3>1. w \in Nat \ {0}
      BY <1>2, WantedCount
    <3> HIDE DEF w
    <3>2. w + (reports - 1) \in Nat \ {0} /\ h < w + (reports - 1)
      BY <3>1, CountsBound
    <3>3. QED
      BY <1>2, <3>2, CountsBound, WantedCount DEF w
  <2>2. d + 1 = Rate * Cardinality(Wanted) + reports
    <3> DEFINE w == Rate * Cardinality(Wanted)
    <3>1. w \in Nat
      BY <1>2, WantedCount
    <3> HIDE DEF w
    <3>2. (w + (reports - 1)) + 1 = w + reports
      BY <3>1, CountsBound
    <3>3. QED
      BY <3>2 DEF w
  <2>3. Score("without") = <<k * h, d>> /\ Score("with") = <<k * hits["with"], d + 1>>
    BY <1>2, <2>2 DEF Score, FBeta, Count
  <2>4. /\ Above(Score("with"), Score("without")) <=> k * hits["with"] * d > k * h * (d + 1)
        /\ Above(Score("without"), Score("with")) <=> k * h * (d + 1) > k * hits["with"] * d
    BY <2>3 DEF Above
  <2> HIDE DEF k, d
  <2>5. CASE hits["with"] = h + 1
    BY <1>2, <2>1, <2>4, <2>5, MatchRaises DEF PaidExactlyForMatches
  <2>6. CASE hits["with"] = h
    BY <1>2, <2>1, <2>4, <2>6, OneMoreLowers DEF PaidExactlyForMatches
  <2>7. QED
    BY <2>5, <2>6 DEF Lockstep
<1>3. QED
  BY <1>1, <1>2

\* A report is paid exactly when it made a match; otherwise it costs the agent.
THEOREM PaidForMatches == Spec => []PaidExactlyForMatches
<1>1. Init => TypeOK /\ Lockstep
  BY TypeInit, LockstepInit
<1>2. TypeOK /\ Lockstep /\ [Next]_vars => (TypeOK /\ Lockstep)'
  BY TypeStep, LockstepStep
<1>3. TypeOK /\ Lockstep => PaidExactlyForMatches
  BY PaidInLockstep
<1>4. QED
  BY <1>1, <1>2, <1>3, PTL DEF Spec

-----------------------------------------------------------------------------
(* Half of the best                                                         *)

\* Which of the entries so far got a report, when nothing but a report that is
\* taken would answer one that got none.
GotOne(l, S) ==
  /\ Cardinality(S) = hits[l]
  /\ \A e \in Wanted \ S : e < target =>
       \A r \in Reported(l) : <<e, r>> \in answers => r \in used[l]
Blocked == \A l \in Lists : \E S \in SUBSET (1..(target - 1)) : S \subseteq Wanted /\ GotOne(l, S)

\* Before the loop there are no such entries.
LEMMA BlockedInit == Init => Blocked
<1> SUFFICES ASSUME Init, NEW l \in Lists
             PROVE  \E S \in SUBSET (1..(target - 1)) : S \subseteq Wanted /\ GotOne(l, S)
  BY DEF Blocked
<1>1. GotOne(l, {})
  <2>1. Cardinality({}) = hits[l]
    BY FS_EmptySet DEF Init
  <2>2. \A e \in Wanted : ~(e < target)
    BY DEF Init, Wanted
  <2>3. QED
    BY <2>1, <2>2 DEF GotOne
<1>2. QED
  BY <1>1

\* An entry that a turn leaves without a report has no free one that answers it.
LEMMA BlockedStep == ASSUME TypeOK, Blocked, [Next]_vars PROVE Blocked'
<1>1. CASE NextTarget
  <2> SUFFICES ASSUME NEW l \in Lists
               PROVE  \E S \in SUBSET (1..(target' - 1)) : S \subseteq Wanted' /\ GotOne(l, S)'
    BY DEF Blocked
  <2>1. PICK S \in SUBSET (1..(target - 1)) : S \subseteq Wanted /\ GotOne(l, S)
    BY DEF Blocked
  <2>2. /\ Wanted' = Wanted /\ Reported(l)' = Reported(l) /\ answers' = answers
        /\ target' = target + 1 /\ used'[l] = used[l] \cup Taken(l)
        /\ hits'[l] = IF Taken(l) = {} THEN hits[l] ELSE hits[l] + 1
    BY <1>1 DEF NextTarget, task, Wanted, Reported
  <2>3. target \in Nat /\ Wanted \in SUBSET Nat /\ hits[l] \in Nat
    BY DEF TypeOK, Wanted
  <2>4. IsFiniteSet(S)
    <3>1. IsFiniteSet(1..(target - 1))
      BY <2>3, FS_Interval
    <3>2. QED
      BY <2>1, <3>1, FS_Subset
  <2>5. CASE Taken(l) = {}
    <3>1. \A r \in Reported(l) : target \in Wanted /\ <<target, r>> \in answers => r \in used[l]
      <4>1. target \in Wanted => Candidates(l, target) = {}
        BY <2>5, TakenCases
      <4>2. QED
        BY <4>1 DEF Candidates, Free
    <3>2. GotOne(l, S)'
      <4>1. Cardinality(S) = hits'[l]
        BY <2>1, <2>2, <2>5 DEF GotOne
      <4>2. ASSUME NEW e \in Wanted \ S, e < target', NEW r \in Reported(l), <<e, r>> \in answers
            PROVE  r \in used'[l]
        <5>1. e < target \/ e = target
          BY <2>2, <2>3, <4>2
        <5>2. r \in used[l]
          BY <2>1, <3>1, <4>2, <5>1 DEF GotOne
        <5>3. QED
          BY <2>2, <5>2
      <4>3. QED
        BY <2>2, <4>1, <4>2 DEF GotOne
    <3>3. S \in SUBSET (1..(target' - 1))
      BY <2>1, <2>2, <2>3
    <3>4. QED
      BY <2>1, <2>2, <3>2, <3>3
  <2>6. CASE Taken(l) # {}
    <3>0. PICK T : T = S \cup {target}
      OBVIOUS
    <3>1. target \in Wanted
      BY <2>6 DEF Taken
    <3>2. target \notin S
      BY <2>1, <2>3
    <3>3. Cardinality(T) = Cardinality(S) + 1
      BY <2>4, <3>0, <3>2, FS_AddElement
    <3>4. T \in SUBSET (1..(target' - 1)) /\ T \subseteq Wanted
      <4>1. target \in 1..(target' - 1)
        BY <2>2, <3>1 DEF TypeOK, Wanted
      <4>2. QED
        BY <2>1, <2>2, <2>3, <3>0, <3>1, <4>1
    <3>5. GotOne(l, T)'
      <4>1. Cardinality(T) = hits'[l]
        BY <2>1, <2>2, <2>6, <3>3 DEF GotOne
      <4>2. ASSUME NEW e \in Wanted \ T, e < target', NEW r \in Reported(l), <<e, r>> \in answers
            PROVE  r \in used'[l]
        <5>1. e < target /\ e \in Wanted \ S
          BY <2>2, <2>3, <3>0, <4>2
        <5>2. r \in used[l]
          BY <2>1, <4>2, <5>1 DEF GotOne
        <5>3. QED
          BY <2>2, <5>2
      <4>3. QED
        BY <2>2, <4>1, <4>2 DEF GotOne
    <3>6. QED
      BY <2>2, <3>4, <3>5
  <2>7. QED
    BY <2>5, <2>6
<1>2. CASE UNCHANGED vars
  BY <1>2 DEF Blocked, GotOne, Wanted, Reported, vars, task
<1>3. QED
  BY <1>1, <1>2 DEF Next

\* In a matching no entry and no report occurs twice: the pairs whose entry, or
\* whose report, is in a set are at most as many as it has.
LEMMA PairsBound ==
  ASSUME NEW l \in Lists, NEW M \in Matchings(l), NEW S, IsFiniteSet(S), NEW i \in {1, 2},
         NEW A \in SUBSET M, \A p \in A : p[i] \in S
  PROVE  IsFiniteSet(A) /\ Cardinality(A) <= Cardinality(S)
<1> DEFINE f == [p \in A |-> p[i]]
<1>1. f \in Injection(A, S)
  <2>1. f \in [A -> S]
    OBVIOUS
  <2>2. \A p, q \in A : p # q => f[p] # f[q]
    BY DEF Matchings
  <2>3. QED
    BY <2>1, <2>2 DEF Injection, IsInjective
<1>2. QED
  BY <1>1, FS_Injection

\* Every pair of a matching has an entry that got a report, or a report taken.
LEMMA HalfAtEnd == ASSUME TypeOK, Blocked PROVE HalfOfBest
<1> SUFFICES ASSUME Done, NEW l \in Lists, NEW M \in Matchings(l)
             PROVE  Cardinality(M) <= 2 * hits[l]
  BY DEF HalfOfBest
<1>1. PICK S \in SUBSET (1..(target - 1)) : S \subseteq Wanted /\ GotOne(l, S)
  BY DEF Blocked
<1> DEFINE A == {p \in M : p[1] \in S}
           B == {p \in M : p[2] \in used[l]}
<1>2. M = A \cup B
  <2>1. ASSUME NEW p \in M, p[1] \notin S PROVE p[2] \in used[l]
    <3>1. p \in answers /\ p[1] \in Wanted \ S /\ p[2] \in Reported(l)
      BY <2>1 DEF Matchings
    <3>2. p = <<p[1], p[2]>>
      BY <3>1 DEF TypeOK
    <3>3. p[1] < target
      BY <3>1 DEF Done, Wanted, TypeOK
    <3>4. QED
      BY <1>1, <3>1, <3>2, <3>3 DEF GotOne
  <2>2. QED
    BY <2>1
<1>3. IsFiniteSet(S) /\ Cardinality(S) = hits[l]
  <2>1. IsFiniteSet(1..(target - 1))
    BY FS_Interval DEF TypeOK
  <2>2. QED
    BY <1>1, <2>1, FS_Subset DEF GotOne
<1>4. IsFiniteSet(used[l]) /\ Cardinality(used[l]) = hits[l] /\ hits[l] \in Nat
  <2>1. IsFiniteSet(1..reports) /\ used[l] \in SUBSET (1..reports)
    BY FS_Interval DEF TypeOK
  <2>2. QED
    BY <2>1, FS_Subset DEF TypeOK
<1>5. IsFiniteSet(A) /\ Cardinality(A) <= hits[l]
  <2>1. \A p \in A : p[1] \in S
    OBVIOUS
  <2> HIDE DEF A
  <2>2. A \in SUBSET M
    BY DEF A
  <2>3. QED
    BY <1>3, <2>1, <2>2, PairsBound
<1>6. IsFiniteSet(B) /\ Cardinality(B) <= hits[l]
  <2>1. \A p \in B : p[2] \in used[l]
    OBVIOUS
  <2> HIDE DEF B
  <2>2. B \in SUBSET M
    BY DEF B
  <2>3. QED
    BY <1>4, <2>1, <2>2, PairsBound
<1> HIDE DEF A, B
<1>7. Cardinality(A \cup B) = Cardinality(A) + Cardinality(B) - Cardinality(A \cap B)
  BY <1>5, <1>6, FS_Union
<1>8. Cardinality(A) \in Nat /\ Cardinality(B) \in Nat /\ Cardinality(A \cap B) \in Nat
  BY <1>5, <1>6, FS_CardinalityType, FS_Intersection
<1>9. QED
  BY <1>2, <1>4, <1>5, <1>6, <1>7, <1>8

\* Whatever the matcher accepts and whatever the orders are, the greedy choice
\* finds at least half of the matches that any choice of pairs could.
THEOREM HalfFound == Spec => []HalfOfBest
<1>1. Init => TypeOK /\ Blocked
  BY TypeInit, BlockedInit
<1>2. TypeOK /\ Blocked /\ [Next]_vars => (TypeOK /\ Blocked)'
  BY TypeStep, BlockedStep
<1>3. TypeOK /\ Blocked => HalfOfBest
  BY HalfAtEnd
<1>4. QED
  BY <1>1, <1>2, <1>3, PTL DEF Spec
=============================================================================
