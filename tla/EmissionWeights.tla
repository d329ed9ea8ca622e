---------------------------- MODULE EmissionWeights ----------------------------
(***************************************************************************)
(* From track scores to the emission vector: compute_emission_weights of   *)
(* phylax/analysis/scoring.py, as set_weights calls it vote after vote.    *)
(* Between two votes one score, the contributors or the tie-break salt     *)
(* changes.  The code computes in floats; here every quantity is an exact  *)
(* integer over one unit that all divisions of the algorithm leave whole.  *)
(***************************************************************************)
EXTENDS Integers, FiniteSets, Functions

CONSTANTS Hotkeys,
          Entrants,   \* per track, the hotkeys with a score
          Percents,   \* per track, the scores in hundredths
          Authors,    \* hotkeys that may be accepted as contributors
          Salts,      \* each by the order its hashes give the hotkeys in a track
          NoScore,    \* of a hotkey without a row in a track
          Unit        \* how much finer the integers are than the tracks need

\* In fortieths and hundredths; the thresholds in hundredths.
TRACK_EMISSION_WEIGHTS ==
  [repositories |-> 12, packages |-> 10, mcp_servers |-> 9, skills |-> 9]
TRACK_THRESHOLDS ==
  [repositories |-> 50, packages |-> 20, mcp_servers |-> 20, skills |-> 20]
TOP_K == 5
TOP_K_SPLIT == <<40, 25, 15, 12, 8>>

Tracks == DOMAIN TRACK_EMISSION_WEIGHTS

VARIABLES scores,        \* scores_by_track
          contributors,  \* contributor_hotkeys
          order,         \* the salt: the orders of sha256(salt:track:hotkey)
          weights        \* the vector, in twentieths of Whole

vars == <<scores, contributors, order, weights>>

-----------------------------------------------------------------------------
(* compute_emission_weights                                                 *)

\* 40 for the shares, 12 for the bonus among one to four tracks, the rest a
\* multiple of every sum of leading splits.
SplitUnit == 119600 * Unit
Whole == 40 * 12 * SplitUnit

ASSUME ConstantsAssumption ==
  /\ IsFiniteSet(Hotkeys) /\ Entrants \in [Tracks -> SUBSET Hotkeys]
  /\ Percents \in [Tracks -> SUBSET (0..100)] /\ Authors \subseteq Hotkeys
  /\ \A o \in Salts : /\ o \in [Tracks -> [Hotkeys -> Nat]]
                      /\ \A t \in Tracks : \A h, k \in Hotkeys : o[t][h] = o[t][k] => h = k

\* However many contributors there are, some unit divides the whole among them.
ASSUME UnitAssumption ==
  /\ Unit \in Nat \ {0}
  /\ \A c \in 1..Cardinality(Authors) : Whole % c = 0

Positive(s, t) ==
  {h \in Entrants[t] : s[t][h] > 0 /\ s[t][h] >= TRACK_THRESHOLDS[t]}

BeforeAscending(s, o, t, h, k) ==  \* Mutant: the score is sorted without its minus.
  s[t][h] < s[t][k] \/ (s[t][h] = s[t][k] /\ o[t][h] < o[t][k])
BeforeByHash(s, o, t, h, k) ==     \* Mutant: the tie-break key alone is sorted by.
  o[t][h] < o[t][k]
Before(s, o, t, h, k) ==
  s[t][h] > s[t][k] \/ (s[t][h] = s[t][k] /\ o[t][h] < o[t][k])

Qualified(s) == {t \in Tracks : Positive(s, t) # {}}
Idle(s) == SumFunctionOnSet(TRACK_EMISSION_WEIGHTS, Tracks \ Qualified(s))

BonusUndivided(s) == 12 * Idle(s)  \* Mutant: every track gets the whole idle share.
Bonus(s) == (12 * Idle(s)) \div Cardinality(Qualified(s))

\* Fewer than TOP_K agents share the sum of the leading splits.
SplitSumFull(n) == 100             \* Mutant: no renormalisation.
SplitSum(n) == SumFunctionOnSet(TOP_K_SPLIT, 1..n)

\* The place of each qualified agent in the sorted list of a track.
Place(s, o, t) ==
  LET positive == Positive(s, t)
  IN  [h \in positive |-> 1 + Cardinality({k \in positive : Before(s, o, t, k, h)})]
Top(place) == {h \in DOMAIN place : place[h] <= TOP_K}
\* A track's own weight and its part of the idle ones'.
Share(s, t) == (12 * TRACK_EMISSION_WEIGHTS[t] + Bonus(s)) * SplitUnit

\* What a track pays, by place; only the first TOP_K are paid.
Pays(s, o, t) ==
  LET place == Place(s, o, t)
      top   == Top(place)
      part  == Share(s, t) \div SplitSum(Cardinality(top))
  IN  [h \in Hotkeys |-> IF h \in top THEN part * TOP_K_SPLIT[place[h]] ELSE 0]

\* The sum over the tracks, a whole already: perf_total divides it by one.
Performance(s, o) ==
  LET pays == [t \in Qualified(s) |-> Pays(s, o, t)]
  IN  [h \in Hotkeys |->
         SumFunctionOnSet([t \in Qualified(s) |-> pays[t][h]], Qualified(s))]

Active(s) == UNION {Positive(s, t) : t \in Tracks}
EligibleUnranked(s, c) == c        \* Mutant: contributors are paid unconditionally.
Eligible(s, c) == Active(s) \cap c

\* 95 to performance and 5 to contributions, or all of it where nobody
\* contributes: the last division is by the total.
compute_emission_weights(s, c, o) ==
  LET e == Eligible(s, c)
      performance == Performance(s, o)
  IN  [h \in Hotkeys |->
         IF e = {} THEN 20 * performance[h]
         ELSE 19 * performance[h] + (IF h \in e THEN Whole \div Cardinality(e) ELSE 0)]

-----------------------------------------------------------------------------
(* Votes                                                                    *)

Voted == weights' = compute_emission_weights(scores', contributors', order')

Init ==
  /\ \E p \in [Tracks -> UNION {Percents[t] : t \in Tracks}] :
       /\ \A t \in Tracks : p[t] \in Percents[t]
       /\ scores = [t \in Tracks |->
                      [h \in Hotkeys |-> IF h \in Entrants[t] THEN p[t] ELSE NoScore]]
  /\ contributors = {} /\ order \in Salts
  /\ weights = compute_emission_weights(scores, contributors, order)

\* A track's evaluation gives an agent another score.
Rescored(t, h) ==
  /\ \E p \in Percents[t] : scores' = [scores EXCEPT ![t][h] = p]
  /\ UNCHANGED <<contributors, order>> /\ Voted

\* _load_contributors reads the environment or the chain anew for every vote.
ContributorsChange ==
  /\ contributors' \in SUBSET Authors
  /\ UNCHANGED <<scores, order>> /\ Voted

\* Another track's seed changes the salt and with it every track's order.
SaltChanges ==
  /\ order' \in Salts
  /\ UNCHANGED <<scores, contributors>> /\ Voted

Next ==
  \/ \E t \in Tracks : \E h \in Entrants[t] : Rescored(t, h)
  \/ ContributorsChange \/ SaltChanges

Spec == Init /\ [][Next]_vars

-----------------------------------------------------------------------------
(* What must hold                                                           *)

Total == SumFunctionOnSet(weights, Hotkeys)

\* The variables stay in their domains: a weight is a part of the whole.
TypeOK ==
  /\ \A t \in Tracks, h \in Hotkeys :
       scores[t][h] \in IF h \in Entrants[t] THEN Percents[t] ELSE {NoScore}
  /\ contributors \subseteq Authors /\ order \in Salts
  /\ \A h \in Hotkeys : weights[h] \in 0..20 * Whole

\* Nothing is burnt: as soon as one agent qualifies in one track the vector is
\* worth the whole emission, however thin or idle the tracks are.
WholeEmissionPaid == Total = IF Active(scores) = {} THEN 0 ELSE 20 * Whole

\* Whoever earns has qualified in some track, a contributor too.
OnlyActiveEarn == \A h \in Hotkeys : weights[h] > 0 => h \in Active(scores)

\* An agent ahead in score in every track where another qualifies, and no less
\* a contributor, never earns less than that one, whatever the salt.
AheadEarnsNoLess ==
  \A h, k \in Hotkeys :
    ( /\ \A t \in Tracks : k \in Positive(scores, t) =>
           h \in Entrants[t] /\ scores[t][h] > scores[t][k]
      /\ k \in contributors => h \in contributors )
    => weights[h] >= weights[k]

OnlyRescored(t, h) ==
  /\ scores' = [scores EXCEPT ![t][h] = scores'[t][h]]
  /\ UNCHANGED <<contributors, order>>

\* A better score never costs its agent anything and never pays another one,
\* also where it opens a track, moves a threshold or makes a contributor active.
RaiseNeverCosts ==
  [][\A t \in Tracks : \A h \in Entrants[t] :
       scores'[t][h] > scores[t][h] /\ OnlyRescored(t, h) =>
         /\ weights'[h] >= weights[h]
         /\ \A k \in Hotkeys \ {h} : weights'[k] <= weights[k]]_vars
=============================================================================
