---------------------------- MODULE FindingMatch ----------------------------
(***************************************************************************)
(* How an agent's findings are counted against those the corpus expects    *)
(* (phylax/analysis/repositories.py _match_counts, and the same two loops  *)
(* in quality.py finding_quality): the expected entries in their order     *)
(* each take the first report, in the agent's order, that answers them and *)
(* is not taken.  The matchers compare files, types, lines and titles; here *)
(* they are any relation.                                                   *)
(*                                                                         *)
(* The loops run twice in lockstep, on the agent's reports and on the same *)
(* reports without one of them, because what the greedy choice must not do *)
(* is to make an honest report cost its agent a match, or a superfluous    *)
(* one pay.                                                                *)
(***************************************************************************)
EXTENDS Integers, FiniteSets

CONSTANTS MaxTargets, MaxReports  \* bounds: entries and reports of one task

ASSUME ConstantsAssumption == MaxTargets \in Nat /\ MaxReports \in Nat \ {0}

VARIABLES
  repository, \* one dimension of a repository, or an artifact of another track
  context,   \* expected entries of the "context" plane
  observed,  \* did the detonation observe any capability?
  answers,   \* <<entry, report>> pairs the matcher accepts
  entries, reports,  \* how many of each
  added,     \* the report that one of the two lists lacks
  target,    \* the entry of the outer loop
  used, hits \* per list

task == <<repository, context, observed, answers, entries, reports, added>>
vars == <<task, target, used, hits>>

Lists == {"without", "with"}
Reported(l) == IF l = "with" THEN 1..reports ELSE (1..reports) \ {added}

\* delta_findings: once a detonation has shown the agents what the artifact does,
\* only the entries that take its context are paid for.
Wanted == {e \in 1..entries : repository \/ e \in context \/ ~observed}

Init ==
  /\ entries \in 0..MaxTargets /\ reports \in 1..MaxReports /\ added \in 1..reports
  /\ repository \in BOOLEAN /\ context \in SUBSET (1..entries) /\ observed \in BOOLEAN
  /\ answers \in SUBSET ((1..entries) \X (1..reports))
  /\ target = 1
  /\ used = [l \in Lists |-> {}] /\ hits = [l \in Lists |-> 0]

Free(l) == Reported(l) \ used[l]

\* The reports the inner loop does not pass over.
CandidatesReused(l, e) ==  \* Mutant: a report may answer several entries.
  {r \in Reported(l) : <<e, r>> \in answers}
CandidatesFirstOnly(l, e) ==  \* Mutant: the break is not under the if.
  {r \in Free(l) : <<e, r>> \in answers /\ \A q \in Free(l) : r <= q}
Candidates(l, e) == {r \in Free(l) : <<e, r>> \in answers}

First(S) == {r \in S : \A q \in S : r <= q}

\* One turn of the outer loop.
Taken(l) == IF target \in Wanted THEN First(Candidates(l, target)) ELSE {}

NextTargetForgetful ==  \* Mutant: the report is not added to used.
  /\ target <= entries /\ target' = target + 1
  /\ hits' = [l \in Lists |-> IF Taken(l) = {} THEN hits[l] ELSE hits[l] + 1]
  /\ UNCHANGED <<task, used>>
NextTarget ==
  /\ target <= entries /\ target' = target + 1
  /\ used' = [l \in Lists |-> used[l] \cup Taken(l)]
  /\ hits' = [l \in Lists |-> IF Taken(l) = {} THEN hits[l] ELSE hits[l] + 1]
  /\ UNCHANGED task

Done == target > entries

Next == NextTarget \/ (Done /\ UNCHANGED vars)

Spec == Init /\ [][Next]_vars

-----------------------------------------------------------------------------
(* What a list is paid                                                      *)

Count(l) == IF l = "with" THEN reports ELSE reports - 1
Rate == IF repository THEN 4 ELSE 1   \* beta * beta

\* Where nothing is expected: a fifth is lost with every report (_clean_precision)
\* or, by finding_quality, there is nothing to be had.
CleanScore(l) == <<IF repository /\ Count(l) < 5 THEN 5 - Count(l) ELSE 0, 5>>

FBetaOfRecall(l) ==  \* Mutant: precision is divided by the expected ones, too.
  <<(1 + Rate) * hits[l], (1 + Rate) * Cardinality(Wanted)>>
\* fbeta of hits/reported and hits/wanted as a fraction; the divisions cancel.
FBeta(l) == <<(1 + Rate) * hits[l], Rate * Cardinality(Wanted) + Count(l)>>

Score(l) == IF Wanted = {} THEN CleanScore(l) ELSE FBeta(l)

Above(a, b) == a[1] * b[2] > b[1] * a[2]

-----------------------------------------------------------------------------
(* What must hold                                                           *)

\* Every variable stays in its domain; a list takes only its own reports, and
\* those of the entries before the loop's.
TypeOK ==
  /\ entries \in 0..MaxTargets /\ reports \in 1..MaxReports /\ added \in 1..reports
  /\ repository \in BOOLEAN /\ context \subseteq 1..entries /\ observed \in BOOLEAN
  /\ answers \subseteq (1..entries) \X (1..reports)
  /\ target \in 1..entries + 1
  /\ used \in [Lists -> SUBSET (1..reports)] /\ added \notin used["without"]
  /\ hits \in [Lists -> 0..entries]
  /\ \A l \in Lists : Cardinality(used[l]) = hits[l] /\ hits[l] < target

\* A report more, wherever it stands, never costs a match and never makes more
\* than one, although the greedy choice may give every other report a new entry.
AddedReportNeverCosts ==
  hits["with"] \in {hits["without"], hits["without"] + 1}

\* It pays exactly when it made a match: a superfluous report lowers the score
\* of an agent that has one, and where nothing is expected it never pays.
PaidExactlyForMatches ==
  Done =>
    IF Wanted = {} THEN ~Above(Score("with"), Score("without"))
    ELSE /\ Above(Score("with"), Score("without")) <=> hits["with"] > hits["without"]
         /\ Above(Score("without"), Score("with"))
              <=> hits["with"] = hits["without"] /\ hits["with"] > 0

\* The greedy choice finds at least half of the matches that any choice could.
Matchings(l) ==
  {M \in SUBSET {p \in answers : p[1] \in Wanted /\ p[2] \in Reported(l)} :
     \A p, q \in M : p # q => p[1] # q[1] /\ p[2] # q[2]}
HalfOfBest == Done => \A l \in Lists : \A M \in Matchings(l) : Cardinality(M) <= 2 * hits[l]
=============================================================================
