------------------------ MODULE WeightSetting_proofs ------------------------
(***************************************************************************)
(* What WeightSetting guarantees for every set of tracks and every bound:  *)
(* the type invariant, that every wipe of the carried files has its cause, *)
(* and that an acknowledged reset holds.                                   *)
(***************************************************************************)
EXTENDS WeightSetting, TLAPS

\* Set_weights saves only what it was given.
TypeInv == TypeOK /\ (pc = "save_scores" => arg # None)

\* Resets are acknowledged at or below the operator's epoch, and what one reset
\* has made gone stays gone under the later ones.
EpochInv ==
  /\ cutAt[0] = 0
  /\ \A d, e \in 0..opEpoch, p \in Passes : d <= e /\ Gone(p, d) => Gone(p, e)
  /\ \A e \in 0..opEpoch : cutAt[e] <= passes
  /\ epochFile <= acked /\ acked <= opEpoch
  /\ Clearing => newEpoch <= opEpoch /\ newEpoch # epochFile

\* What can still reach the backend or a later set_weights is not gone.
FreshInv ==
  /\ \A t \in Tracks : ~Gone(srvScores[t], opEpoch)
  /\ \A t \in Tracks : ~Gone(rows[t], opEpoch)
  /\ ArgAhead => \A t \in Tracks : ~Gone(arg[t], opEpoch)

\* What set_weights is about to merge is not gone under the reset it acts under.
LocalsInv ==
  /\ arg # None => \A t \in Tracks : /\ ~Gone(arg[t], acked)
                                     /\ Clearing => ~Gone(arg[t], newEpoch)
  /\ \A t \in Tracks : /\ ~Gone(carried[t], acked)
                       /\ Clearing => ~Gone(carried[t], newEpoch)

\* carried is filled by set_weights' own read-back and emptied on its return.
CarriedInv ==
  pc \in {"idle", "read", "evaluate"} \/ (Clearing /\ call = "arg")
    => carried = NoKeys

\* Before the acknowledgement is written both files are clear.
ClearedInv ==
  /\ pc \in {"clear_ema", "write_epoch"} => scoresFile = NoRows
  /\ pc = "write_epoch" => emaFile = {}

\* The wipes that are still to come for the causes there have been.
Pending(e) == IF e # opEpoch THEN 1 ELSE 0
Owed == IF pc = "clear_scores" THEN 1 + Pending(newEpoch)
        ELSE IF Clearing THEN Pending(newEpoch) ELSE Pending(epochFile)
WipeInv == wipes + Owed <= opEpoch + crashes + 2 * blanks

IInv == /\ TypeInv /\ EpochInv /\ FreshInv /\ LocalsInv /\ CarriedInv /\ ClearedInv
        /\ ResetHolds

-----------------------------------------------------------------------------

\* The values the model starts from and falls back to have their types.
LEMMA Shapes ==
  /\ 0 \in Passes /\ NoRows \in [Tracks -> Passes] /\ NoKeys \in Keys
  /\ NoVector \in Vectors /\ ReservedOnly \in Vectors
  /\ \A src \in SUBSET Passes : reserved \in BOOLEAN => Vector(src) \in Vectors
<1>1. 0 \in Passes /\ NoRows \in [Tracks -> Passes] /\ NoKeys \in Keys
  BY ConstantsAssumption, SMT DEF Passes, NoRows, NoKeys, Keys
<1>2. NoVector \in Vectors /\ ReservedOnly \in Vectors
  BY Zenon DEF NoVector, ReservedOnly, Vectors
<1>3. \A src \in SUBSET Passes : reserved \in BOOLEAN => Vector(src) \in Vectors
  BY Zenon DEF Vector, Vectors
<1>4. QED
  BY <1>1, <1>2, <1>3

\* The initial state has the types.
LEMMA TypeInit == Init => TypeInv
<1> SUFFICES ASSUME Init PROVE TypeInv
  OBVIOUS
<1>1. cutAt \in [0..MaxEpoch -> Passes] /\ spared \in [0..MaxEpoch -> SUBSET Passes]
  BY Shapes DEF Init
<1>2. /\ opEpoch \in 0..MaxEpoch /\ epochFile \in 0..MaxEpoch
      /\ newEpoch \in 0..MaxEpoch /\ acked \in 0..MaxEpoch /\ wipes \in Nat
      /\ crashes \in 0..MaxFaults /\ blanks \in 0..MaxFaults /\ passes \in Passes
  BY ConstantsAssumption, Shapes DEF Init
<1>3. QED
  BY <1>1, <1>2, Shapes, Zenon DEF Init, TypeInv, TypeOK

\* The dictionaries the read-back and the merge build have their types.
LEMMA AnswerType == srvScores \in [Tracks -> Passes] => Answer \in Keys
BY SMT DEF Answer, Keys

\* Scores per track are a dictionary with every key present.
LEMMA PassKeys == [Tracks -> Passes] \subseteq Keys
BY SMT DEF Keys

\* A track may be scored anew only where the bound leaves room for it.
LEMMA PassBound == passes \in Passes /\ passes < MaxPasses => passes + 1 \in Passes
BY ConstantsAssumption DEF Passes

\* _all_track_scores gives every track a stamp.
LEMMA MergedType ==
  ASSUME arg \in Keys, carried \in Keys, scoresFile \in [Tracks -> Passes]
  PROVE  Merged \in [Tracks -> Passes]
BY SMT DEF Merged, Keys

\* An answer, whole or not, leaves every variable in its domain.
LEMMA ReadsType ==
  ASSUME TypeOK, NEW epoch \in 0..MaxEpoch, NEW pause \in BOOLEAN,
         NEW reserve \in BOOLEAN, NEW scores \in Keys,
         Reads(epoch, pause, reserve, scores), blanks' \in 0..MaxFaults
  PROVE  TypeInv'
<1> USE DEF TypeOK, opVars, files, flags, round, counters, history
<1>1. paused' \in BOOLEAN /\ reserved' \in BOOLEAN
  BY Zenon DEF Reads
<1>2. arg' \in Keys \cup {None} /\ carried' \in Keys
  BY DEF Reads
<1>3. pc' \in {"read", "decide", "clear_scores"} /\ call' \in {"arg", "set"}
      /\ newEpoch' \in 0..MaxEpoch
  BY ConstantsAssumption DEF Reads, Return
<1>4. /\ UNCHANGED <<opVars, srvScores, files, running, cause, round, out, chain,
                     passes, crashes, history>>
      /\ pc' # "save_scores"
  BY <1>3, Zenon DEF Reads
<1>5. QED
  BY <1>1, <1>2, <1>3, <1>4 DEF TypeInv

\* Every step of the loop, the operator and a crash keeps the types.
LEMMA TypeStep == ASSUME TypeInv, [Next]_vars PROVE TypeInv'
<1> USE Shapes DEF TypeInv, TypeOK, opVars, files, flags, round, counters, history
<1>1. CASE ReadServer
  BY <1>1, ReadsType, AnswerType DEF ReadServer
<1>2. CASE ReadServerBlank
  <2>1. PICK epoch \in {opEpoch, 0}, scores \in {Answer, NoKeys},
             pause \in {opPaused, FALSE}, reserve \in {opReserved, FALSE} :
          Reads(epoch, pause, reserve, scores)
    BY <1>2 DEF ReadServerBlank
  <2>2. epoch \in 0..MaxEpoch /\ blanks' \in 0..MaxFaults
    BY <1>2, ConstantsAssumption DEF ReadServerBlank
  <2>3. pause \in BOOLEAN /\ reserve \in BOOLEAN /\ scores \in Keys
    BY AnswerType
  <2>4. QED
    BY <2>1, <2>2, <2>3, ReadsType
<1>3. CASE ReadServerFails
  BY <1>3, ConstantsAssumption DEF ReadServerFails, Return, FailedAnswer
<1>4. CASE ClearScores
  BY <1>4 DEF ClearScores, resetFrame
<1>5. CASE ClearEma
  BY <1>5 DEF ClearEma, resetFrame
<1>6. CASE WriteEpoch
  BY <1>6, ConstantsAssumption DEF WriteEpoch, Return, resetFrame
<1>7. CASE Decide
  <2>1. out' \in Vectors
    BY <1>7, Zenon DEF Decide, Finish, PushNext
  <2>2. pc' = "save_scores" => arg' # None
    BY <1>7, Zenon DEF Decide, Finish, PushNext
  <2>3. carried' \in Keys /\ arg' \in Keys \cup {None}
    BY <1>7, Zenon DEF Decide, Finish, PushNext
  <2>4. /\ pc' \in {"push", "evaluate", "idle", "save_scores"}
        /\ cause' \in {"none", "refresh", "hold", "round", "abstain"}
    BY <1>7, Zenon DEF Decide, Finish, PushNext
  <2>5. UNCHANGED <<opVars, srvScores, files, flags, call, newEpoch, round, chain,
                    counters, history>>
    BY <1>7, Zenon DEF Decide
  <2>6. TypeOK'
    BY <2>1, <2>3, <2>4, <2>5
  <2>7. QED
    BY <2>2, <2>6
<1>8. CASE SaveScores
  BY <1>8, MergedType, PassKeys DEF SaveScores
<1>9. CASE SaveEma
  <2>1. PICK cleared \in SUBSET {t \in Tracks : carried[t] > 0} :
          LET blended == {carried[t] : t \in cleared}
                        \cup (IF cleared = {} THEN {} ELSE emaFile)
          IN  /\ emaFile' = blended \/ (DiskFaults /\ UNCHANGED emaFile)
              /\ PushNext(Vector(blended))
    BY <1>9 DEF SaveEma
  <2> DEFINE blended == {carried[t] : t \in cleared}
                          \cup (IF cleared = {} THEN {} ELSE emaFile)
  <2>2. blended \in SUBSET Passes
    <3>1. \A t \in cleared : carried[t] \in Passes
      BY ConstantsAssumption DEF Keys, Passes, Absent
    <3>2. QED
      BY <3>1
  <2> HIDE DEF blended
  <2>3. emaFile' \in SUBSET Passes /\ out' \in Vectors
    BY <2>1, <2>2 DEF blended, PushNext
  <2>4. QED
    BY <1>9, <2>1, <2>3 DEF SaveEma, PushNext
<1>10. CASE PushAccepted
  BY <1>10 DEF PushAccepted, Finish, pushFrame
<1>11. CASE PushMissed
  BY <1>11 DEF PushMissed, Finish, pushFrame
<1>12. CASE StartRefresh
  BY <1>12 DEF StartRefresh, RefreshDue
<1>13. CASE StartRound
  BY <1>13 DEF StartRound
<1>14. ASSUME NEW t \in Tracks, TrackScored(t) PROVE TypeInv'
  BY <1>14, PassBound DEF TrackScored, evalFrame
<1>15. ASSUME NEW t \in Tracks, Submits(t) PROVE TypeInv'
  BY <1>15 DEF Submits, evalFrame
<1>16. ASSUME NEW t \in Tracks, TrackEnds(t) PROVE TypeInv'
  BY <1>16 DEF TrackEnds, evalFrame
<1>17. CASE EvaluationEnds
  <2>1. srvScores' \in [Tracks -> Passes]
    BY <1>17 DEF EvaluationEnds
  <2>2. arg' \in Keys
    BY <1>17 DEF EvaluationEnds, Keys
  <2>3. UNCHANGED <<seeds, passes, evalFrame>> /\ running' = FALSE /\ left' = {}
        /\ rows' = NoRows /\ scored' = {}
    BY <1>17, Zenon DEF EvaluationEnds, LeaveRound
  <2>4. pc' = "read" /\ call' = "set" /\ cause' = "round"
    BY <1>17, Zenon DEF EvaluationEnds
  <2>5. QED
    BY <2>1, <2>2, <2>3, <2>4 DEF evalFrame
<1>18. CASE EvaluationAbstains
  BY <1>18 DEF EvaluationAbstains, LeaveRound, evalFrame
<1>19. CASE EvaluationRaises
  BY <1>19 DEF EvaluationRaises, LeaveRound, evalFrame
<1>20. CASE CrashRestart
  <2>1. /\ crashes' \in 0..MaxFaults /\ newEpoch' \in 0..MaxEpoch
        /\ epochFile' \in 0..MaxEpoch
    BY <1>20, ConstantsAssumption DEF CrashRestart
  <2>2. scoresFile' \in [Tracks -> Passes] /\ emaFile' \in SUBSET Passes
    BY <1>20, Zenon DEF CrashRestart
  <2>3. QED
    BY <1>20, <2>1, <2>2 DEF CrashRestart
<1>21. CASE OperatorResets
  <2>1. opEpoch' \in 0..MaxEpoch /\ cutAt' \in [0..MaxEpoch -> Passes]
    BY <1>21, ConstantsAssumption DEF OperatorResets
  <2>2. InHand \in SUBSET Passes
    BY DEF InHand
  <2>3. spared' \in [0..MaxEpoch -> SUBSET Passes]
    BY <1>21, <2>2 DEF OperatorResets
  <2>4. QED
    BY <1>21, <2>1, <2>3 DEF OperatorResets, procFrame
<1>22. CASE OperatorToggles
  <2>1. opPaused' \in BOOLEAN /\ opReserved' \in BOOLEAN
    BY <1>22, Zenon DEF OperatorToggles
  <2>2. UNCHANGED <<opEpoch, cutAt, spared, srvScores, procFrame>>
    BY <1>22, Zenon DEF OperatorToggles
  <2>3. QED
    BY <2>1, <2>2 DEF procFrame
<1>23. CASE UNCHANGED vars
  BY <1>23 DEF vars
<1>24. QED
  BY <1>1, <1>2, <1>3, <1>4, <1>5, <1>6, <1>7, <1>8, <1>9, <1>10, <1>11, <1>12,
     <1>13, <1>14, <1>15, <1>16, <1>17, <1>18, <1>19, <1>20, <1>21, <1>22,
     <1>23 DEF Next, MainThread

\* A reset makes gone all but what is in the validator's hand; nothing in its
\* hand was gone before.
LEMMA ResetGone ==
  ASSUME TypeInv, EpochInv, FreshInv, OperatorResets
  PROVE  /\ opEpoch' = opEpoch + 1 /\ opEpoch' \in 0..MaxEpoch
         /\ \A e \in 0..opEpoch : cutAt'[e] = cutAt[e]
         /\ \A e \in 0..opEpoch, p \in Int : Gone(p, e)' <=> Gone(p, e)
         /\ \A e \in 0..opEpoch : spared'[e] = spared[e]
         /\ cutAt'[opEpoch'] = passes /\ spared'[opEpoch'] = InHand
         /\ \A e \in {opEpoch'}, p \in Int :
              Gone(p, e)' <=> 0 < p /\ p <= passes /\ p \notin InHand
         /\ \A p \in Passes : Gone(p, opEpoch) => p \notin InHand /\ p <= passes
<1> USE ConstantsAssumption DEF TypeInv, TypeOK, Passes
<1>1. /\ opEpoch' = opEpoch + 1 /\ opEpoch' \in 0..MaxEpoch
      /\ cutAt' = [cutAt EXCEPT ![opEpoch + 1] = passes]
      /\ spared' = [spared EXCEPT ![opEpoch + 1] = InHand]
  BY DEF OperatorResets
<1>2. /\ \A e \in 0..opEpoch : cutAt'[e] = cutAt[e] /\ spared'[e] = spared[e]
      /\ cutAt'[opEpoch'] = passes /\ spared'[opEpoch'] = InHand
  BY <1>1
<1>3. ASSUME NEW p \in Passes, Gone(p, opEpoch) PROVE p <= passes /\ p \notin InHand
  <2>1. p <= passes
    <3>1. /\ cutAt[opEpoch] \in Int /\ cutAt[opEpoch] <= passes /\ p <= cutAt[opEpoch]
          /\ passes \in Int /\ p \in Int
      BY <1>3 DEF Gone, EpochInv
    <3>2. QED
      BY <3>1
  <2>2. QED
    BY <1>3, <2>1 DEF InHand, FreshInv
<1>4. QED
  BY <1>1, <1>2, <1>3 DEF Gone

\* No row, or no key, is never gone; what is not gone now was not gone before.
LEMMA NeverGone == \A e : ~Gone(0, e) /\ ~Gone(Absent, e)
BY DEF Gone, Absent

LEMMA Below ==
  ASSUME TypeInv, EpochInv, NEW p \in Int, NEW e \in 0..opEpoch, ~Gone(p, opEpoch)
  PROVE  ~Gone(p, e)
<1> USE ConstantsAssumption DEF TypeInv, TypeOK, Passes
<1>1. ASSUME Gone(p, e) PROVE FALSE
  <2>1. cutAt[e] \in Passes /\ opEpoch \in 0..opEpoch /\ e <= opEpoch
    OBVIOUS
  <2>2. p \in Passes
    BY <1>1, <2>1 DEF Gone
  <2>3. Gone(p, opEpoch)
    BY <1>1, <2>1, <2>2 DEF EpochInv
  <2>4. QED
    BY <2>3
<1>2. QED
  BY <1>1

\* The scores of an answer are the backend's, and none of them is gone.
LEMMA AnswerFresh ==
  ASSUME TypeInv, FreshInv, NEW scores \in {Answer, NoKeys}, NEW t \in Tracks
  PROVE  scores[t] \in Int /\ ~Gone(scores[t], opEpoch)
BY NeverGone, ConstantsAssumption DEF TypeInv, TypeOK, Passes, FreshInv, Answer, NoKeys,
   Absent

\* The types the steps below need.
LEMMA Stamps ==
  ASSUME TypeInv, EpochInv
  PROVE  /\ opEpoch \in 0..opEpoch /\ acked \in 0..opEpoch /\ 0 \in 0..opEpoch
         /\ Clearing => newEpoch \in 0..opEpoch
         /\ \A t \in Tracks : rows[t] \in Int /\ carried[t] \in Int /\ srvScores[t] \in Int
         /\ arg # None => \A t \in Tracks : arg[t] \in Int
BY ConstantsAssumption DEF TypeInv, TypeOK, EpochInv, Passes, Keys, Absent

\* With the answer of the backend both dictionaries are clear of the reset that
\* set_weights then acts under.
LEMMA ReadsLocals ==
  ASSUME TypeInv, EpochInv, FreshInv, LocalsInv, CarriedInv,
         NEW epoch \in {opEpoch, 0}, NEW pause, NEW reserve,
         NEW scores \in {Answer, NoKeys}, Reads(epoch, pause, reserve, scores)
  PROVE  FreshInv' /\ LocalsInv'
<1>1. /\ UNCHANGED <<opEpoch, cutAt, spared, srvScores, rows, acked, epochFile>>
      /\ pc = "read"
  BY DEF Reads, opVars, round, history, files
<1>2. \A p, e : Gone(p, e)' <=> Gone(p, e)
  BY <1>1 DEF Gone
<1>3. carried = NoKeys /\ ~Clearing
  BY <1>1 DEF CarriedInv, Clearing
<1>4. \A t \in Tracks : scores[t] \in Int /\ ~Gone(scores[t], opEpoch)
  BY AnswerFresh
<1>5. Clearing' => newEpoch' = epoch
  BY DEF Reads, Return, Clearing
<1>6. epoch \in 0..opEpoch /\ acked \in 0..opEpoch
  BY Stamps
<1>7. CASE call = "arg"
  <2>1. arg' = scores /\ carried' = NoKeys
    BY <1>3, <1>7 DEF Reads
  <2>2. \A t \in Tracks, e \in 0..opEpoch : ~Gone(scores[t], e) /\ ~Gone(NoKeys[t], e)
    BY <1>4, Below, NeverGone DEF NoKeys
  <2>3. FreshInv'
    BY <1>1, <1>2, <1>4, <2>1 DEF FreshInv
  <2>4. LocalsInv'
    BY <1>1, <1>2, <1>5, <1>6, <2>1, <2>2 DEF LocalsInv
  <2>5. QED
    BY <2>3, <2>4
<1>8. CASE call = "set"
  <2>1. /\ arg' = arg /\ carried' = scores
        /\ arg # None => ArgAhead
    BY <1>1, <1>8 DEF Reads, ArgAhead
  <2>2. arg # None => \A t \in Tracks : arg[t] \in Int /\ ~Gone(arg[t], opEpoch)
    BY <2>1, Stamps DEF FreshInv
  <2>3. \A t \in Tracks, e \in 0..opEpoch : ~Gone(scores[t], e)
    BY <1>4, Below
  <2>4. arg # None => \A t \in Tracks, e \in 0..opEpoch : ~Gone(arg[t], e)
    BY <2>2, Below
  <2>5. FreshInv'
    BY <1>1, <1>2, <2>1, <2>2 DEF FreshInv, ArgAhead
  <2>6. LocalsInv'
    BY <1>1, <1>2, <1>5, <1>6, <2>1, <2>3, <2>4 DEF LocalsInv
  <2>7. QED
    BY <2>5, <2>6
<1>9. QED
  BY <1>7, <1>8 DEF Reads

\* Epochs stay in order, and what is gone stays gone.
LEMMA EpochStep ==
  ASSUME TypeInv, EpochInv, FreshInv, [Next]_vars
  PROVE  EpochInv'
<1> USE ConstantsAssumption DEF TypeInv, TypeOK, Passes, Clearing, opVars, files,
           flags, round, counters, history, EpochInv, Gone
<1>1. CASE ReadServer
  BY <1>1 DEF ReadServer, Reads, EpochSeen, Return
<1>2. CASE ReadServerBlank
  BY <1>2 DEF ReadServerBlank, Reads, EpochSeen, Return
<1>3. CASE ReadServerFails
  BY <1>3 DEF ReadServerFails, Return, FailedAnswer
<1>4. CASE ClearScores
  BY <1>4 DEF ClearScores, resetFrame
<1>5. CASE ClearEma
  BY <1>5 DEF ClearEma, resetFrame
<1>6. CASE WriteEpoch
  BY <1>6 DEF WriteEpoch, Return, resetFrame
<1>7. CASE Decide
  BY <1>7 DEF Decide, Finish, PushNext
<1>8. CASE SaveScores
  BY <1>8 DEF SaveScores
<1>9. CASE SaveEma
  BY <1>9 DEF SaveEma, PushNext
<1>10. CASE PushAccepted
  BY <1>10 DEF PushAccepted, Finish, pushFrame
<1>11. CASE PushMissed
  BY <1>11 DEF PushMissed, Finish, pushFrame
<1>12. CASE StartRefresh
  BY <1>12 DEF StartRefresh, RefreshDue
<1>13. CASE StartRound
  BY <1>13 DEF StartRound
<1>14. ASSUME NEW t \in Tracks, TrackScored(t) PROVE EpochInv'
  BY <1>14 DEF TrackScored, evalFrame
<1>15. ASSUME NEW t \in Tracks, Submits(t) PROVE EpochInv'
  BY <1>15 DEF Submits, evalFrame
<1>16. ASSUME NEW t \in Tracks, TrackEnds(t) PROVE EpochInv'
  BY <1>16 DEF TrackEnds, evalFrame
<1>17. CASE EvaluationEnds
  BY <1>17 DEF EvaluationEnds, LeaveRound, evalFrame
<1>18. CASE EvaluationAbstains
  BY <1>18 DEF EvaluationAbstains, LeaveRound, evalFrame
<1>19. CASE EvaluationRaises
  BY <1>19 DEF EvaluationRaises, LeaveRound, evalFrame
<1>20. CASE CrashRestart
  BY <1>20 DEF CrashRestart
<1>21. CASE OperatorResets
  <2> HIDE DEF Gone
  <2>1. /\ opEpoch' = opEpoch + 1 /\ UNCHANGED <<passes, epochFile, acked, pc, newEpoch>>
    BY <1>21 DEF OperatorResets, procFrame
  <2>2. ASSUME NEW e \in 0..opEpoch' PROVE cutAt'[e] <= passes
    <3>1. e \in 0..opEpoch \/ e = opEpoch'
      BY <2>1
    <3>2. passes \in Int /\ cutAt'[opEpoch'] = passes
      BY <1>21, ResetGone
    <3>3. e \in 0..opEpoch => cutAt'[e] = cutAt[e] /\ cutAt[e] <= passes
      BY <1>21, ResetGone
    <3>4. QED
      BY <3>1, <3>2, <3>3
  <2>3. ASSUME NEW d \in 0..opEpoch', NEW e \in 0..opEpoch', NEW p \in Passes, d <= e,
               Gone(p, d)'
        PROVE  Gone(p, e)'
    <3>1. CASE e <= opEpoch
      <4>1. e \in 0..opEpoch /\ d \in 0..opEpoch /\ p \in Int
        BY <2>3, <3>1
      <4>2. Gone(p, d)
        BY <1>21, <2>3, <4>1, ResetGone
      <4>3. Gone(p, e)
        BY <2>3, <4>1, <4>2
      <4>4. QED
        BY <1>21, <4>1, <4>3, ResetGone
    <3>2. CASE e = opEpoch + 1 /\ d <= opEpoch
      <4>1. Gone(p, opEpoch)
        BY <1>21, <2>3, <3>2, ResetGone
      <4>2. 0 < p
        BY <4>1 DEF Gone
      <4>3. e = opEpoch'
        BY <2>1, <3>2
      <4>4. QED
        BY <1>21, <4>1, <4>2, <4>3, ResetGone
    <3>3. CASE d = e
      BY <2>3, <3>3
    <3>4. QED
      BY <2>1, <2>3, <3>1, <3>2, <3>3
  <2>4. cutAt'[0] = 0
    <3>1. 0 \in 0..opEpoch
      BY Stamps
    <3>2. QED
      BY <1>21, <3>1, ResetGone
  <2>5. QED
    BY <2>1, <2>2, <2>3, <2>4
<1>22. CASE OperatorToggles
  BY <1>22 DEF OperatorToggles, procFrame
<1>23. CASE UNCHANGED vars
  BY <1>23 DEF vars
<1>24. QED
  BY <1>1, <1>2, <1>3, <1>4, <1>5, <1>6, <1>7, <1>8, <1>9, <1>10, <1>11, <1>12,
     <1>13, <1>14, <1>15, <1>16, <1>17, <1>18, <1>19, <1>20, <1>21, <1>22,
     <1>23 DEF Next, MainThread

\* Neither a new stamp nor one that is still in hand is ever gone.
LEMMA FreshStep ==
  ASSUME TypeInv, EpochInv, FreshInv, LocalsInv, CarriedInv, [Next]_vars
  PROVE  FreshInv'
<1> USE ConstantsAssumption DEF TypeInv, TypeOK, Passes, Absent, NoRows,
           Clearing, ArgAhead, opVars, files, flags, round, counters, history, FreshInv,
           Gone
<1>1. CASE ReadServer
  BY <1>1, ReadsLocals DEF ReadServer
<1>2. CASE ReadServerBlank
  BY <1>2, ReadsLocals DEF ReadServerBlank
<1>3. CASE ReadServerFails
  BY <1>3 DEF ReadServerFails, Return, FailedAnswer
<1>4. CASE ClearScores
  BY <1>4 DEF ClearScores, resetFrame
<1>5. CASE ClearEma
  BY <1>5 DEF ClearEma, resetFrame
<1>6. CASE WriteEpoch
  BY <1>6 DEF WriteEpoch, Return, resetFrame
<1>7. CASE Decide
  BY <1>7 DEF Decide, Finish, PushNext
<1>8. CASE SaveScores
  BY <1>8 DEF SaveScores
<1>9. CASE SaveEma
  BY <1>9 DEF SaveEma, PushNext
<1>10. CASE PushAccepted
  BY <1>10 DEF PushAccepted, Finish, pushFrame
<1>11. CASE PushMissed
  BY <1>11 DEF PushMissed, Finish, pushFrame
<1>12. CASE StartRefresh
  BY <1>12 DEF StartRefresh, RefreshDue
<1>13. CASE StartRound
  BY <1>13 DEF StartRound
<1>14. ASSUME NEW t \in Tracks, TrackScored(t) PROVE FreshInv'
  <2>1. /\ UNCHANGED <<opEpoch, cutAt, spared, srvScores, arg, pc, call>>
        /\ \A u \in Tracks : rows'[u] \in {rows[u], srvScores[u], passes + 1}
    BY <1>14 DEF TrackScored, evalFrame
  <2>2. ~Gone(passes + 1, opEpoch)
    BY DEF EpochInv
  <2>3. QED
    BY <2>1, <2>2
<1>15. ASSUME NEW t \in Tracks, Submits(t) PROVE FreshInv'
  BY <1>15 DEF Submits, evalFrame
<1>16. ASSUME NEW t \in Tracks, TrackEnds(t) PROVE FreshInv'
  BY <1>16 DEF TrackEnds, evalFrame
<1>17. CASE EvaluationEnds
  BY <1>17 DEF EvaluationEnds, LeaveRound, evalFrame
<1>18. CASE EvaluationAbstains
  BY <1>18 DEF EvaluationAbstains, LeaveRound, evalFrame
<1>19. CASE EvaluationRaises
  BY <1>19 DEF EvaluationRaises, LeaveRound, evalFrame
<1>20. CASE CrashRestart
  BY <1>20 DEF CrashRestart
<1>21. CASE OperatorResets
  <2>1. spared'[opEpoch'] = InHand /\ srvScores' = NoRows
    BY <1>21, ResetGone DEF OperatorResets
  <2>2. /\ \A t \in Tracks : rows[t] \in InHand
        /\ ArgAhead => \A t \in Tracks : arg[t] \in InHand \/ arg[t] = Absent
    BY DEF InHand, Keys
  <2>3. UNCHANGED <<rows, arg, pc, call>>
    BY <1>21 DEF OperatorResets, procFrame
  <2>4. QED
    BY <2>1, <2>2, <2>3
<1>22. CASE OperatorToggles
  BY <1>22 DEF OperatorToggles, procFrame
<1>23. CASE UNCHANGED vars
  BY <1>23 DEF vars
<1>24. QED
  BY <1>1, <1>2, <1>3, <1>4, <1>5, <1>6, <1>7, <1>8, <1>9, <1>10, <1>11, <1>12,
     <1>13, <1>14, <1>15, <1>16, <1>17, <1>18, <1>19, <1>20, <1>21, <1>22,
     <1>23 DEF Next, MainThread

\* Scores in flight stay clear of every reset they are used under.
LEMMA LocalsStep ==
  ASSUME TypeInv, EpochInv, FreshInv, LocalsInv, CarriedInv, ResetHolds, [Next]_vars
  PROVE  LocalsInv'
<1> USE ConstantsAssumption DEF TypeInv, TypeOK, Passes, Absent, NoRows,
           Clearing, opVars, files, flags, round, counters, history, LocalsInv, EpochInv,
           Gone
<1>1. CASE ReadServer
  BY <1>1, ReadsLocals DEF ReadServer
<1>2. CASE ReadServerBlank
  BY <1>2, ReadsLocals DEF ReadServerBlank
<1>3. CASE ReadServerFails
  BY <1>3 DEF ReadServerFails, Return, FailedAnswer, NoKeys
<1>4. CASE ClearScores
  BY <1>4 DEF ClearScores, resetFrame
<1>5. CASE ClearEma
  BY <1>5 DEF ClearEma, resetFrame
<1>6. CASE WriteEpoch
  BY <1>6 DEF WriteEpoch, Return, resetFrame
<1>7. CASE Decide
  BY <1>7 DEF Decide, Finish, PushNext, NoKeys
<1>8. CASE SaveScores
  BY <1>8 DEF SaveScores, Merged, ResetHolds, Keys
<1>9. CASE SaveEma
  BY <1>9 DEF SaveEma, PushNext
<1>10. CASE PushAccepted
  BY <1>10 DEF PushAccepted, Finish, pushFrame, NoKeys
<1>11. CASE PushMissed
  BY <1>11 DEF PushMissed, Finish, pushFrame, NoKeys
<1>12. CASE StartRefresh
  BY <1>12 DEF StartRefresh, RefreshDue
<1>13. CASE StartRound
  BY <1>13 DEF StartRound
<1>14. ASSUME NEW t \in Tracks, TrackScored(t) PROVE LocalsInv'
  BY <1>14 DEF TrackScored, evalFrame
<1>15. ASSUME NEW t \in Tracks, Submits(t) PROVE LocalsInv'
  BY <1>15 DEF Submits, evalFrame
<1>16. ASSUME NEW t \in Tracks, TrackEnds(t) PROVE LocalsInv'
  BY <1>16 DEF TrackEnds, evalFrame
<1>17. CASE EvaluationEnds
  <2> HIDE DEF Gone
  <2>1. /\ carried' = NoKeys /\ ~Clearing' /\ UNCHANGED <<acked, cutAt, spared>>
        /\ \A t \in Tracks : arg'[t] \in {rows[t], Absent}
    BY <1>17 DEF EvaluationEnds, LeaveRound, evalFrame, CarriedInv
  <2>2. \A t \in Tracks : ~Gone(rows[t], acked) /\ ~Gone(NoKeys[t], acked)
    BY Below, Stamps, NeverGone DEF FreshInv, NoKeys
  <2>3. \A p : Gone(p, acked)' <=> Gone(p, acked)
    BY <2>1 DEF Gone
  <2>4. QED
    BY <2>1, <2>2, <2>3, NeverGone
<1>18. CASE EvaluationAbstains
  BY <1>18 DEF EvaluationAbstains, LeaveRound, evalFrame
<1>19. CASE EvaluationRaises
  BY <1>19 DEF EvaluationRaises, LeaveRound, evalFrame
<1>20. CASE CrashRestart
  BY <1>20 DEF CrashRestart, NoKeys
<1>21. CASE OperatorResets
  <2>1. /\ cutAt'[acked] = cutAt[acked] /\ spared'[acked] = spared[acked]
        /\ Clearing => /\ cutAt'[newEpoch] = cutAt[newEpoch]
                       /\ spared'[newEpoch] = spared[newEpoch]
    BY <1>21, ResetGone, Stamps
  <2>2. UNCHANGED <<arg, carried, pc, acked, newEpoch>>
    BY <1>21 DEF OperatorResets, procFrame
  <2>3. QED
    BY <2>1, <2>2
<1>22. CASE OperatorToggles
  BY <1>22 DEF OperatorToggles, procFrame
<1>23. CASE UNCHANGED vars
  BY <1>23 DEF vars
<1>24. QED
  BY <1>1, <1>2, <1>3, <1>4, <1>5, <1>6, <1>7, <1>8, <1>9, <1>10, <1>11, <1>12,
     <1>13, <1>14, <1>15, <1>16, <1>17, <1>18, <1>19, <1>20, <1>21, <1>22,
     <1>23 DEF Next, MainThread

\* set_weights' own read-back is gone whenever set_weights is not running.
LEMMA CarriedStep == ASSUME TypeInv, CarriedInv, [Next]_vars PROVE CarriedInv'
<1> USE DEF CarriedInv, Clearing, opVars, files, flags, round, counters, history
<1>1. CASE ReadServer
  BY <1>1 DEF ReadServer, Reads, EpochSeen, Return
<1>2. CASE ReadServerBlank
  BY <1>2 DEF ReadServerBlank, Reads, EpochSeen, Return
<1>3. CASE ReadServerFails
  BY <1>3 DEF ReadServerFails, Return, FailedAnswer
<1>4. CASE ClearScores
  BY <1>4 DEF ClearScores, resetFrame
<1>5. CASE ClearEma
  BY <1>5 DEF ClearEma, resetFrame
<1>6. CASE WriteEpoch
  BY <1>6 DEF WriteEpoch, Return, resetFrame
<1>7. CASE Decide
  BY <1>7 DEF Decide, Finish, PushNext
<1>8. CASE SaveScores
  BY <1>8 DEF SaveScores
<1>9. CASE SaveEma
  BY <1>9 DEF SaveEma, PushNext
<1>10. CASE PushAccepted
  BY <1>10 DEF PushAccepted, Finish, pushFrame
<1>11. CASE PushMissed
  BY <1>11 DEF PushMissed, Finish, pushFrame
<1>12. CASE StartRefresh
  BY <1>12 DEF StartRefresh, RefreshDue
<1>13. CASE StartRound
  BY <1>13 DEF StartRound
<1>14. ASSUME NEW t \in Tracks, TrackScored(t) PROVE CarriedInv'
  BY <1>14 DEF TrackScored, evalFrame
<1>15. ASSUME NEW t \in Tracks, Submits(t) PROVE CarriedInv'
  BY <1>15 DEF Submits, evalFrame
<1>16. ASSUME NEW t \in Tracks, TrackEnds(t) PROVE CarriedInv'
  BY <1>16 DEF TrackEnds, evalFrame
<1>17. CASE EvaluationEnds
  BY <1>17 DEF EvaluationEnds, LeaveRound, evalFrame
<1>18. CASE EvaluationAbstains
  BY <1>18 DEF EvaluationAbstains, LeaveRound, evalFrame
<1>19. CASE EvaluationRaises
  BY <1>19 DEF EvaluationRaises, LeaveRound, evalFrame
<1>20. CASE CrashRestart
  BY <1>20 DEF CrashRestart
<1>21. CASE OperatorResets
  BY <1>21 DEF OperatorResets, procFrame
<1>22. CASE OperatorToggles
  BY <1>22 DEF OperatorToggles, procFrame
<1>23. CASE UNCHANGED vars
  BY <1>23 DEF vars
<1>24. QED
  BY <1>1, <1>2, <1>3, <1>4, <1>5, <1>6, <1>7, <1>8, <1>9, <1>10, <1>11, <1>12,
     <1>13, <1>14, <1>15, <1>16, <1>17, <1>18, <1>19, <1>20, <1>21, <1>22,
     <1>23 DEF Next, MainThread

\* A reset on a working disk reaches its acknowledgement with both files clear.
LEMMA ClearedStep ==
  ASSUME ~DiskFaults, TypeInv, ClearedInv, [Next]_vars
  PROVE  ClearedInv'
<1> USE ConstantsAssumption DEF ClearedInv, opVars, files, flags, round, counters,
           history
<1>1. CASE ReadServer
  BY <1>1 DEF ReadServer, Reads, EpochSeen, Return
<1>2. CASE ReadServerBlank
  BY <1>2 DEF ReadServerBlank, Reads, EpochSeen, Return
<1>3. CASE ReadServerFails
  BY <1>3 DEF ReadServerFails, Return, FailedAnswer
<1>4. CASE ClearScores
  BY <1>4 DEF ClearScores, resetFrame
<1>5. CASE ClearEma
  BY <1>5 DEF ClearEma, resetFrame
<1>6. CASE WriteEpoch
  BY <1>6 DEF WriteEpoch, Return, resetFrame
<1>7. CASE Decide
  BY <1>7 DEF Decide, Finish, PushNext
<1>8. CASE SaveScores
  BY <1>8 DEF SaveScores
<1>9. CASE SaveEma
  BY <1>9 DEF SaveEma, PushNext
<1>10. CASE PushAccepted
  BY <1>10 DEF PushAccepted, Finish, pushFrame
<1>11. CASE PushMissed
  BY <1>11 DEF PushMissed, Finish, pushFrame
<1>12. CASE StartRefresh
  BY <1>12 DEF StartRefresh, RefreshDue
<1>13. CASE StartRound
  BY <1>13 DEF StartRound
<1>14. ASSUME NEW t \in Tracks, TrackScored(t) PROVE ClearedInv'
  BY <1>14 DEF TrackScored, evalFrame
<1>15. ASSUME NEW t \in Tracks, Submits(t) PROVE ClearedInv'
  BY <1>15 DEF Submits, evalFrame
<1>16. ASSUME NEW t \in Tracks, TrackEnds(t) PROVE ClearedInv'
  BY <1>16 DEF TrackEnds, evalFrame
<1>17. CASE EvaluationEnds
  BY <1>17 DEF EvaluationEnds, LeaveRound, evalFrame
<1>18. CASE EvaluationAbstains
  BY <1>18 DEF EvaluationAbstains, LeaveRound, evalFrame
<1>19. CASE EvaluationRaises
  BY <1>19 DEF EvaluationRaises, LeaveRound, evalFrame
<1>20. CASE CrashRestart
  BY <1>20 DEF CrashRestart
<1>21. CASE OperatorResets
  BY <1>21 DEF OperatorResets, procFrame
<1>22. CASE OperatorToggles
  BY <1>22 DEF OperatorToggles, procFrame
<1>23. CASE UNCHANGED vars
  BY <1>23 DEF vars
<1>24. QED
  BY <1>1, <1>2, <1>3, <1>4, <1>5, <1>6, <1>7, <1>8, <1>9, <1>10, <1>11, <1>12,
     <1>13, <1>14, <1>15, <1>16, <1>17, <1>18, <1>19, <1>20, <1>21, <1>22,
     <1>23 DEF Next, MainThread

\* No step puts anything that is gone into a file.
LEMMA ResetStep ==
  ASSUME ~DiskFaults, TypeInv, EpochInv, FreshInv, LocalsInv, ClearedInv, ResetHolds,
         [Next]_vars
  PROVE  ResetHolds'
<1> USE ConstantsAssumption DEF TypeInv, TypeOK, Passes, NoRows, Clearing, opVars,
           files, flags, round, counters, history, EpochInv, LocalsInv, ClearedInv,
           ResetHolds, Gone
<1>1. CASE ReadServer
  BY <1>1 DEF ReadServer, Reads, EpochSeen, Return
<1>2. CASE ReadServerBlank
  BY <1>2 DEF ReadServerBlank, Reads, EpochSeen, Return
<1>3. CASE ReadServerFails
  BY <1>3 DEF ReadServerFails, Return, FailedAnswer
<1>4. CASE ClearScores
  BY <1>4 DEF ClearScores, resetFrame
<1>5. CASE ClearEma
  BY <1>5 DEF ClearEma, resetFrame
<1>6. CASE WriteEpoch
  BY <1>6 DEF WriteEpoch, Return, resetFrame
<1>7. CASE Decide
  BY <1>7 DEF Decide, Finish, PushNext
<1>8. CASE SaveScores
  <2>1. /\ arg # None /\ scoresFile' \in {Merged, scoresFile}
        /\ UNCHANGED <<cutAt, spared, acked, emaFile>>
    BY <1>8 DEF SaveScores
  <2>2. \A t \in Tracks : Merged[t] \in {arg[t], carried[t], scoresFile[t]}
    BY DEF Merged
  <2>3. QED
    BY <2>1, <2>2
<1>9. CASE SaveEma
  <2>1. PICK cleared \in SUBSET {t \in Tracks : carried[t] > 0} :
          emaFile' \in {emaFile, {carried[t] : t \in cleared}
                                   \cup (IF cleared = {} THEN {} ELSE emaFile)}
    BY <1>9 DEF SaveEma
  <2>2. UNCHANGED <<cutAt, spared, acked, scoresFile>>
    BY <1>9 DEF SaveEma, PushNext
  <2>3. ASSUME NEW p \in emaFile' PROVE ~Gone(p, acked)
    <3>1. p \in emaFile \/ \E t \in Tracks : p = carried[t]
      BY <2>1, <2>3
    <3>2. /\ \A t \in Tracks : ~Gone(carried[t], acked)
          /\ \A q \in emaFile : ~Gone(q, acked)
      OBVIOUS
    <3> HIDE DEF Gone
    <3>3. QED
      BY <3>1, <3>2, Zenon
  <2>4. QED
    BY <2>2, <2>3
<1>10. CASE PushAccepted
  BY <1>10 DEF PushAccepted, Finish, pushFrame
<1>11. CASE PushMissed
  BY <1>11 DEF PushMissed, Finish, pushFrame
<1>12. CASE StartRefresh
  BY <1>12 DEF StartRefresh, RefreshDue
<1>13. CASE StartRound
  BY <1>13 DEF StartRound
<1>14. ASSUME NEW t \in Tracks, TrackScored(t) PROVE ResetHolds'
  BY <1>14 DEF TrackScored, evalFrame
<1>15. ASSUME NEW t \in Tracks, Submits(t) PROVE ResetHolds'
  BY <1>15 DEF Submits, evalFrame
<1>16. ASSUME NEW t \in Tracks, TrackEnds(t) PROVE ResetHolds'
  BY <1>16 DEF TrackEnds, evalFrame
<1>17. CASE EvaluationEnds
  BY <1>17 DEF EvaluationEnds, LeaveRound, evalFrame
<1>18. CASE EvaluationAbstains
  BY <1>18 DEF EvaluationAbstains, LeaveRound, evalFrame
<1>19. CASE EvaluationRaises
  BY <1>19 DEF EvaluationRaises, LeaveRound, evalFrame
<1>20. CASE CrashRestart
  <2>1. UNCHANGED <<cutAt, spared, acked>>
    BY <1>20 DEF CrashRestart
  <2>2. scoresFile' \in {scoresFile, NoRows} /\ emaFile' \in {emaFile, {}}
    BY <1>20 DEF CrashRestart
  <2>3. QED
    BY <2>1, <2>2
<1>21. CASE OperatorResets
  <2> HIDE DEF Gone
  <2>1. \A p \in Int : Gone(p, acked)' <=> Gone(p, acked)
    BY <1>21, ResetGone, Stamps DEF OperatorResets, procFrame
  <2>2. UNCHANGED <<scoresFile, emaFile, acked>>
    BY <1>21 DEF OperatorResets, procFrame
  <2>3. QED
    BY <2>1, <2>2
<1>22. CASE OperatorToggles
  BY <1>22 DEF OperatorToggles, procFrame
<1>23. CASE UNCHANGED vars
  BY <1>23 DEF vars
<1>24. QED
  BY <1>1, <1>2, <1>3, <1>4, <1>5, <1>6, <1>7, <1>8, <1>9, <1>10, <1>11, <1>12,
     <1>13, <1>14, <1>15, <1>16, <1>17, <1>18, <1>19, <1>20, <1>21, <1>22,
     <1>23 DEF Next, MainThread

\* Every wipe is paid for by a reset, a crash or an answer without its epoch.
LEMMA WipeStep ==
  ASSUME ~DiskFaults, TypeInv, WipeInv, [Next]_vars
  PROVE  WipeInv'
<1> USE ConstantsAssumption DEF TypeInv, TypeOK, WipeInv, Owed, Pending, Clearing,
           opVars, files, flags, round, counters, history
<1>1. CASE ReadServer
  BY <1>1 DEF ReadServer, Reads, EpochSeen, Return
<1>2. CASE ReadServerBlank
  BY <1>2 DEF ReadServerBlank, Reads, EpochSeen, Return
<1>3. CASE ReadServerFails
  BY <1>3 DEF ReadServerFails, Return, FailedAnswer
<1>4. CASE ClearScores
  BY <1>4 DEF ClearScores, resetFrame
<1>5. CASE ClearEma
  BY <1>5 DEF ClearEma, resetFrame
<1>6. CASE WriteEpoch
  BY <1>6 DEF WriteEpoch, Return, resetFrame
<1>7. CASE Decide
  BY <1>7 DEF Decide, Finish, PushNext
<1>8. CASE SaveScores
  BY <1>8 DEF SaveScores
<1>9. CASE SaveEma
  BY <1>9 DEF SaveEma, PushNext
<1>10. CASE PushAccepted
  BY <1>10 DEF PushAccepted, Finish, pushFrame
<1>11. CASE PushMissed
  BY <1>11 DEF PushMissed, Finish, pushFrame
<1>12. CASE StartRefresh
  BY <1>12 DEF StartRefresh, RefreshDue
<1>13. CASE StartRound
  BY <1>13 DEF StartRound
<1>14. ASSUME NEW t \in Tracks, TrackScored(t) PROVE WipeInv'
  BY <1>14 DEF TrackScored, evalFrame
<1>15. ASSUME NEW t \in Tracks, Submits(t) PROVE WipeInv'
  BY <1>15 DEF Submits, evalFrame
<1>16. ASSUME NEW t \in Tracks, TrackEnds(t) PROVE WipeInv'
  BY <1>16 DEF TrackEnds, evalFrame
<1>17. CASE EvaluationEnds
  BY <1>17 DEF EvaluationEnds, LeaveRound, evalFrame
<1>18. CASE EvaluationAbstains
  BY <1>18 DEF EvaluationAbstains, LeaveRound, evalFrame
<1>19. CASE EvaluationRaises
  BY <1>19 DEF EvaluationRaises, LeaveRound, evalFrame
<1>20. CASE CrashRestart
  BY <1>20 DEF CrashRestart
<1>21. CASE OperatorResets
  BY <1>21 DEF OperatorResets, procFrame
<1>22. CASE OperatorToggles
  BY <1>22 DEF OperatorToggles, procFrame
<1>23. CASE UNCHANGED vars
  BY <1>23 DEF vars
<1>24. QED
  BY <1>1, <1>2, <1>3, <1>4, <1>5, <1>6, <1>7, <1>8, <1>9, <1>10, <1>11, <1>12,
     <1>13, <1>14, <1>15, <1>16, <1>17, <1>18, <1>19, <1>20, <1>21, <1>22,
     <1>23 DEF Next, MainThread

\* Every variable keeps its domain through every interleaving of the main thread
\* (set_weights, _scores_from_server, run_round) with the operator and with crashes.
THEOREM TypeCorrect == Spec => []TypeOK
<1>1. TypeInv => TypeOK
  BY DEF TypeInv
<1>2. TypeInv /\ [Next]_vars => TypeInv'
  BY TypeStep
<1>3. QED
  BY TypeInit, <1>1, <1>2, PTL DEF Spec

\* The inductive invariant holds on a fresh validator.
LEMMA InvInit == Init => IInv
<1> SUFFICES ASSUME Init PROVE IInv
  OBVIOUS
<1>1. TypeInv
  BY TypeInit
<1>2. EpochInv /\ ResetHolds /\ ClearedInv
  BY ConstantsAssumption DEF Init, EpochInv, ResetHolds, ClearedInv, Clearing, Gone,
     NoRows
<1>3. CarriedInv /\ LocalsInv /\ FreshInv
  BY ConstantsAssumption DEF Init, CarriedInv, LocalsInv, FreshInv, ArgAhead, NoKeys,
     NoRows, Absent, Clearing, Gone
<1>4. QED
  BY <1>1, <1>2, <1>3 DEF IInv

\* On a disk that does not fail, _reset_carried_state runs once for each reset and
\* each crash and twice for an answer without its epoch, and for nothing else.
THEOREM WipeSafety == ASSUME ~DiskFaults PROVE Spec => []WipesAccountedFor
<1> DEFINE Inv == TypeInv /\ WipeInv
<1>1. Init => Inv
  BY TypeInit DEF Init, WipeInv, Owed, Pending, Clearing
<1>2. Inv /\ [Next]_vars => Inv'
  BY TypeStep, WipeStep
<1>3. Inv => WipesAccountedFor
  BY DEF TypeInv, TypeOK, WipeInv, Owed, Pending, WipesAccountedFor
<1> HIDE DEF Inv
<1>4. QED
  BY <1>1, <1>2, <1>3, PTL DEF Spec

\* On a disk that does not fail, neither carried file holds anything scored before
\* a reset the validator has acknowledged, but what was in its hand at the reset
\* (_reset_carried_state, run_round, set_weights).
THEOREM ResetSafety == ASSUME ~DiskFaults PROVE Spec => []ResetHolds
<1>1. IInv => ResetHolds
  BY DEF IInv
<1>2. IInv /\ [Next]_vars => IInv'
  BY TypeStep, EpochStep, FreshStep, LocalsStep, CarriedStep, ClearedStep, ResetStep
     DEF IInv
<1>3. QED
  BY InvInit, <1>1, <1>2, PTL DEF Spec
=============================================================================
