-------------------------- MODULE RoundLoop_proofs --------------------------
(***************************************************************************)
(* For any tracks, participants, workers and bounds: a round is done only  *)
(* when each of its participants was dealt with, and the loop implements   *)
(* RoundLedger.                                                            *)
(***************************************************************************)
EXTENDS RoundLoop, TLAPS

-----------------------------------------------------------------------------
(* The inductive invariant                                                  *)

\* The pool still has to hear of the agent.
InPool(a) == a \in pending \/ a \in running \/ futures[a] # NoFuture

\* Between tracks nothing is left in the pool.
PoolEmpty ==
  pc # "pool" => pending = {} /\ running = {} /\ futures = NoFutures /\ ~raised

\* An agent waits, runs or has a future, one of them.
Apart ==
  \A a \in Agents : /\ a \in pending => a \notin running /\ futures[a] = NoFuture
                    /\ a \in running => futures[a] = NoFuture

\* The rounds of the pass are not done yet.
OpenPass == \A t \in Tracks : roundIds[t] > 0 => <<t, roundIds[t]>> \notin doneRounds

\* The participants of the tracks behind are dealt with, if these did not fail.
BehindDealt ==
  pc # "idle" =>
    \A i \in 1..Len(Order) : i < k /\ Finished(Order[i]) =>
      \A a \in Agents : fate[Order[i]][roundIds[Order[i]]][a] # "none"

\* Those of the track in evaluation are, or the pool still holds them.
PoolDealt ==
  pc = "pool" /\ ~raised =>
    \A a \in Agents : fate[track][rid][a] # "none" \/ InPool(a)

\* Who is in the pool has no score of the pass yet, and where the rows were read
\* back no row of the round.
PoolUnscored ==
  pc = "pool" =>
    \A a \in Agents : InPool(a) =>
      roundScores[track][a] = NoRow /\ (track \notin unread => rows[track][rid][a] = NoRow)

\* Where the rows were read back, the scores of the pass agree with them.
ScoresAgree ==
  \A t \in Tracks, a \in Agents :
    roundIds[t] > 0 /\ t \notin unread /\ roundScores[t][a] # NoRow =>
      rows[t][roundIds[t]][a] \in {NoRow, roundScores[t][a]}

\* Where the loop stands when no track is in evaluation.
Places ==
  /\ pc = "end" => k = Len(Order) + 1
  /\ pc = "idle" => k = 1 /\ roundScores = NoScores

IInv ==
  /\ TypeOK /\ Places
  /\ PoolEmpty /\ Apart /\ OpenPass /\ BehindDealt /\ PoolDealt /\ PoolUnscored /\ ScoresAgree

-----------------------------------------------------------------------------
(* Operators                                                                *)

\* The track in evaluation is one of the tracks, its round one of the rounds.
LEMMA InEvaluation ==
  ASSUME TypeOK, pc \in {"track", "pool"}
  PROVE  /\ track \in Tracks /\ k \in 1..Len(Order) /\ Len(Order) \in Nat
         /\ rid \in 0..MaxRound /\ (rid > 0 => rid \in Rounds)
<1>1. k \in 1..Len(Order)
  BY DEF TypeOK
<1>2. track \in Tracks
  BY <1>1 DEF Tracks, track
<1>3. QED
  BY <1>1, <1>2, ConstantsAssumption DEF TypeOK, rid, Rounds

\* A submission replaces the rows of the agents it has a score for, in the round
\* of its track, and no other row.
LEMMA UpsertRows ==
  ASSUME TypeOK, NEW t \in Tracks, roundIds[t] > 0, NEW s \in Rows
  PROVE  /\ Upsert(t, s) \in [Tracks -> [Rounds -> Rows]]
         /\ \A u \in Tracks, r \in Rounds : u # t \/ r # roundIds[t] =>
              Upsert(t, s)[u][r] = rows[u][r]
         /\ \A a \in Agents : Upsert(t, s)[t][roundIds[t]][a]
                              = IF s[a] = NoRow THEN rows[t][roundIds[t]][a] ELSE s[a]
<1> DEFINE new == [a \in Agents |-> IF s[a] = NoRow THEN rows[t][roundIds[t]][a] ELSE s[a]]
<1>1. roundIds[t] \in Rounds
  BY ConstantsAssumption DEF TypeOK, Rounds
<1>2. new \in Rows
  BY <1>1 DEF TypeOK, Rows
<1>3. Upsert(t, s) = [rows EXCEPT ![t][roundIds[t]] = new]
  BY DEF Upsert
<1>4. rows \in [Tracks -> [Rounds -> Rows]]
  BY DEF TypeOK
<1> HIDE DEF new
<1>5. /\ Upsert(t, s) \in [Tracks -> [Rounds -> Rows]]
      /\ \A u \in Tracks, r \in Rounds : u # t \/ r # roundIds[t] =>
              Upsert(t, s)[u][r] = rows[u][r]
      /\ Upsert(t, s)[t][roundIds[t]] = new
  BY <1>1, <1>2, <1>3, <1>4
<1>6. QED
  BY <1>5 DEF new

\* What the start of a track does to the pool, the scores and the fates.
LEMMA StartOfTrack ==
  ASSUME TrackStarts
  PROVE  \E refused \in SUBSET Agents, answered \in BOOLEAN :
          LET resumed == Resumed(Runnable(refused), answered)
          IN  /\ pending' = ToEvaluate(Runnable(refused), resumed)
              /\ unread' = (IF answered THEN unread ELSE unread \cup {track})
              /\ roundScores' = [roundScores EXCEPT ![track] =
                   [a \in Agents |-> IF a \in resumed THEN rows[track][rid][a] ELSE NoRow]]
              /\ fate' = [fate EXCEPT ![track][rid] = [a \in Agents |->
                   IF a \in refused THEN "unfetched"
                   ELSE IF a \in resumed THEN "evaluated" ELSE "none"]]
BY Zenon DEF TrackStarts

\* What a future that is taken does to the scores, the rows and the fates.
LEMMA FutureTaken ==
  ASSUME TypeOK, NEW a \in Agents, TakeFuture(a)
  PROVE  \/ /\ \E s \in Scores : roundScores' = [roundScores EXCEPT ![track][a] = s]
            /\ rows' = rows \/ rows' = Upsert(track, roundScores'[track])
            /\ fate' = [fate EXCEPT ![track][rid][a] = "evaluated"] /\ raised' = raised
         \/ UNCHANGED <<roundScores, rows, fate>> /\ raised' = TRUE
         \/ /\ UNCHANGED <<roundScores, rows, raised>>
            /\ fate' = [fate EXCEPT ![track][rid][a] = "errored"]
<1>1. CASE /\ futures[a] \in {"verdict", "noverdict", "outage"}
           /\ roundScores' = [roundScores EXCEPT ![track][a] =
                IF futures[a] = "outage" THEN "outage" ELSE "own"]
           /\ Submit(track, roundScores'[track])
           /\ fate' = [fate EXCEPT ![track][rid][a] = "evaluated"] /\ UNCHANGED raised
  <2>1. (IF futures[a] = "outage" THEN "outage" ELSE "own") \in Scores
    BY DEF Scores
  <2>2. rows' = rows \/ rows' = Upsert(track, roundScores'[track])
    BY <1>1 DEF Submit
  <2>3. QED
    BY <1>1, <2>1, <2>2, Zenon
<1>2. CASE /\ raised' = TRUE /\ UNCHANGED <<roundScores, rows, fate>>
  BY <1>2
<1>3. CASE /\ fate' = [fate EXCEPT ![track][rid][a] = "errored"]
           /\ UNCHANGED <<roundScores, rows, raised>>
  BY <1>3, Zenon
<1>4. QED
  BY <1>1, <1>2, <1>3, Zenon DEF TakeFuture

-----------------------------------------------------------------------------
(* Types                                                                    *)

\* The loop starts with every variable in its domain.
LEMMA TypeInit == Init => TypeOK
<1>1. Order \in Seq(STRING) /\ Len(Order) \in Nat /\ Len(Order) > 0 /\ MaxRound \in Nat /\ MaxCrashes \in Nat
  BY ConstantsAssumption
<1>2. 1 \in 1..Len(Order) /\ 1 \in 1..Len(Order) + 1
  BY <1>1
<1>3. /\ NoRounds \in [Tracks -> 0..MaxRound] /\ NoScores \in [Tracks -> Rows]
      /\ NoFutures \in [Agents -> Results \cup {NoFuture}]
      /\ [t \in Tracks |-> [r \in Rounds |-> [a \in Agents |-> NoRow]]]
            \in [Tracks -> [Rounds -> Rows]]
  BY <1>1 DEF NoRounds, NoScores, NoFutures, Rows, NoRow
<1>4. [t \in Tracks |-> [r \in Rounds |-> [a \in Agents |-> "none"]]]
            \in [Tracks -> [Rounds -> [Agents -> Fates]]]
  BY DEF Fates
<1>5. /\ [t \in Tracks |-> 0] \in [Tracks -> 0..MaxRound + 1]
      /\ [t \in Tracks |-> "open"] \in [Tracks -> {"submission", "open"}]
      /\ 0 \in 0..MaxCrashes
  BY <1>1
<1>6. ASSUME Init PROVE TypeOK
  <2>1. /\ round \in [Tracks -> 0..MaxRound + 1] /\ phase \in [Tracks -> {"submission", "open"}]
        /\ rows \in [Tracks -> [Rounds -> Rows]] /\ crashes \in 0..MaxCrashes
        /\ fate \in [Tracks -> [Rounds -> [Agents -> Fates]]]
    BY <1>3, <1>4, <1>5, <1>6, Zenon DEF Init
  <2>2. /\ pc = "idle" /\ k \in 1..Len(Order) + 1 /\ k \in 1..Len(Order)
        /\ roundIds \in [Tracks -> 0..MaxRound] /\ roundScores \in [Tracks -> Rows]
        /\ futures \in [Agents -> Results \cup {NoFuture}]
    BY <1>2, <1>3, <1>6, Zenon DEF Init
  <2>3. QED
    BY <1>6, <2>1, <2>2 DEF Init, TypeOK
<1>7. QED
  BY <1>6

\* Every step keeps every variable in its domain.
LEMMA TypeStep == ASSUME TypeOK, [Next]_vars PROVE TypeOK'
<1> USE DEF TypeOK, backend, loop, pool, pass
<1>1. Order \in Seq(STRING) /\ Len(Order) \in Nat /\ Len(Order) > 0
      /\ MaxRound \in Nat /\ MaxCrashes \in Nat
  BY ConstantsAssumption
<1>2. CASE Poll
  <2>1. roundIds' \in [Tracks -> 0..MaxRound]
    <3>1. \A t \in Unevaluated : round[t] \in 0..MaxRound
      BY <1>1 DEF Unevaluated, Rounds
    <3>2. QED
      BY <1>1, <1>2, <3>1 DEF Poll
  <2>2. QED
    BY <1>1, <1>2, <2>1 DEF Poll, rid, track
<1>3. CASE PollInVain
  BY <1>3 DEF PollInVain, vars, rid, track
<1>4. CASE TrackFails
  <2>1. track \in Tracks
    BY <1>4, InEvaluation DEF TrackFails
  <2>2. pc' \in {"track", "end"} /\ k' \in 1..Len(Order) + 1 /\ (pc' # "end" => k' \in 1..Len(Order))
    BY <1>1, <1>4 DEF TrackFails, NextTrack
  <2>3. failedTracks' \in SUBSET Tracks /\ scoredTracks' \in SUBSET Tracks
    BY <1>4, <2>1 DEF TrackFails
  <2>4. QED
    BY <1>4, <2>2, <2>3 DEF TrackFails, trackFrame
<1>5. CASE TrackSkipped
  <2>1. fate' \in [Tracks -> [Rounds -> [Agents -> Fates]]]
    <3>1. CASE UNCHANGED fate
      BY <3>1
    <3>2. CASE rid > 0 /\ fate' = [fate EXCEPT ![track][rid] = [a \in Agents |-> "unserved"]]
      <4>1. [a \in Agents |-> "unserved"] \in [Agents -> Fates]
        BY DEF Fates
      <4>2. track \in Tracks /\ rid \in Rounds
        BY <1>5, <3>2, InEvaluation DEF TrackSkipped
      <4>3. QED
        BY <3>2, <4>1, <4>2
    <3>3. QED
      BY <1>5, <3>1, <3>2 DEF TrackSkipped
  <2>2. QED
    BY <1>1, <1>5, <2>1, InEvaluation DEF TrackSkipped, NextTrack, trackFrame, rid, track
<1>6. CASE TrackBlank
  <2>1. track \in Tracks
    BY <1>6, InEvaluation DEF TrackBlank
  <2>2. pc' \in {"track", "end"} /\ k' \in 1..Len(Order) + 1 /\ (pc' # "end" => k' \in 1..Len(Order))
    BY <1>1, <1>6 DEF TrackBlank, NextTrack
  <2>3. failedTracks' \in SUBSET Tracks /\ scoredTracks' \in SUBSET Tracks
    BY <1>6, <2>1 DEF TrackBlank
  <2>4. QED
    BY <1>6, <2>2, <2>3 DEF TrackBlank, trackFrame
<1>7. CASE TrackStarts
  <2>1. track \in Tracks /\ rid \in Rounds
    BY <1>7, InEvaluation DEF TrackStarts
  <2>2. PICK refused \in SUBSET Agents, answered \in BOOLEAN :
          /\ pending' = ToEvaluate(Runnable(refused), Resumed(Runnable(refused), answered))
          /\ unread' = IF answered THEN unread ELSE unread \cup {track}
          /\ roundScores' = [roundScores EXCEPT ![track] =
               [a \in Agents |-> IF a \in Resumed(Runnable(refused), answered)
                                 THEN rows[track][rid][a] ELSE NoRow]]
          /\ fate' = [fate EXCEPT ![track][rid] = [a \in Agents |->
               IF a \in refused THEN "unfetched"
               ELSE IF a \in Resumed(Runnable(refused), answered) THEN "evaluated" ELSE "none"]]
    BY <1>7, StartOfTrack, Zenon
  <2>3. [a \in Agents |-> IF a \in Resumed(Runnable(refused), answered)
                                 THEN rows[track][rid][a] ELSE NoRow] \in Rows
    BY <2>1 DEF Rows
  <2>4. [a \in Agents |->
               IF a \in refused THEN "unfetched"
               ELSE IF a \in Resumed(Runnable(refused), answered) THEN "evaluated" ELSE "none"]
         \in [Agents -> Fates]
    BY DEF Fates
  <2>5. pending' \in SUBSET Agents /\ unread' \in SUBSET Tracks
        /\ roundScores' \in [Tracks -> Rows]
        /\ fate' \in [Tracks -> [Rounds -> [Agents -> Fates]]]
    BY <2>1, <2>2, <2>3, <2>4 DEF ToEvaluate, Runnable
  <2>6. QED
    BY <1>1, <1>7, <2>1, <2>5 DEF TrackStarts, rid, track
<1>8. CASE PassRaises
  BY <1>1, <1>8 DEF PassRaises, PassOver, NoRounds, NoScores, Rows, NoRow, rid, track
<1>9. ASSUME NEW a \in Agents, TakeFuture(a) PROVE TypeOK'
  <2>1. track \in Tracks /\ rid \in Rounds
    BY <1>9, InEvaluation DEF TakeFuture
  <2>2. futures' \in [Agents -> Results \cup {NoFuture}]
    BY <1>9 DEF TakeFuture
  <2>3. roundScores' \in [Tracks -> Rows]
    <3>1. \A s \in Scores : [roundScores EXCEPT ![track][a] = s] \in [Tracks -> Rows]
      BY <2>1 DEF Rows
    <3>2. (\E s \in Scores : roundScores' = [roundScores EXCEPT ![track][a] = s])
          \/ roundScores' = roundScores
      BY <1>9, FutureTaken, Zenon
    <3>3. QED
      BY <3>1, <3>2
  <2>4. fate' \in [Tracks -> [Rounds -> [Agents -> Fates]]]
    <3>1. \A f \in Fates : [fate EXCEPT ![track][rid][a] = f]
                           \in [Tracks -> [Rounds -> [Agents -> Fates]]]
      BY <2>1
    <3>2. "evaluated" \in Fates /\ "errored" \in Fates
      BY DEF Fates
    <3>3. QED
      BY <1>9, <3>1, <3>2, FutureTaken
  <2>5. rows' \in [Tracks -> [Rounds -> Rows]]
    <3>1. roundScores'[track] \in Rows /\ roundIds[track] > 0
      BY <1>9, <2>1, <2>3 DEF TakeFuture, rid
    <3>2. rows' = rows \/ rows' = Upsert(track, roundScores'[track])
      BY <1>9 DEF TakeFuture, Submit
    <3>3. QED
      BY <2>1, <3>1, <3>2, UpsertRows
  <2>6. raised' \in BOOLEAN
    BY <1>9 DEF TakeFuture
  <2>7. QED
    BY <1>9, <2>2, <2>3, <2>4, <2>5, <2>6 DEF TakeFuture, rid, track
<1>10. CASE TrackEnds
  <2>1. track \in Tracks
    BY <1>10, InEvaluation DEF TrackEnds
  <2>2. failedTracks' \in SUBSET Tracks /\ scoredTracks' \in SUBSET Tracks
    BY <1>10, <2>1 DEF TrackEnds
  <2>3. pc' \in {"track", "end"} /\ k' \in 1..Len(Order) + 1 /\ (pc' # "end" => k' \in 1..Len(Order))
    BY <1>1, <1>10 DEF TrackEnds, NextTrack
  <2>4. futures' \in [Agents -> Results \cup {NoFuture}]
    BY <1>10 DEF TrackEnds, NoFutures
  <2>5. QED
    BY <1>10, <2>2, <2>3, <2>4 DEF TrackEnds, trackFrame
<1>11. CASE Abstains
  BY <1>1, <1>11 DEF Abstains, PassOver, NoRounds, NoScores, Rows, NoRow, rid, track
<1>12. CASE RoundEnds
  <2>1. rows' \in [Tracks -> [Rounds -> Rows]]
    <3>1. PICK lost \in SUBSET Tracks :
            rows' = [t \in Tracks |-> IF roundIds[t] = 0 \/ t \in lost THEN rows[t]
                                      ELSE Upsert(t, roundScores[t])[t]]
      BY <1>12 DEF RoundEnds
    <3>2. ASSUME NEW t \in Tracks, roundIds[t] # 0
          PROVE  Upsert(t, roundScores[t])[t] \in [Rounds -> Rows]
      <4>1. roundIds[t] > 0 /\ roundScores[t] \in Rows
        BY <1>1, <3>2
      <4>2. Upsert(t, roundScores[t]) \in [Tracks -> [Rounds -> Rows]]
        BY <4>1, UpsertRows
      <4>3. QED
        BY <4>2
    <3>3. QED
      BY <3>1, <3>2
  <2>2. doneRounds' \in SUBSET (Tracks \X Rounds)
    <3>1. \A t \in Tracks : Finished(t) => roundIds[t] \in Rounds
      BY <1>1 DEF Finished, Rounds
    <3>2. QED
      BY <1>12, <3>1 DEF RoundEnds, NewlyDone
  <2>3. QED
    BY <1>1, <1>12, <2>1, <2>2 DEF RoundEnds, PassOver, NoRounds, NoScores, Rows, NoRow, rid, track
<1>13. CASE RetryElapses
  BY <1>13 DEF RetryElapses, rid, track
<1>14. ASSUME NEW a \in Agents, WorkerStarts(a) PROVE TypeOK'
  BY <1>14 DEF WorkerStarts, poolFrame, rid, track
<1>15. ASSUME NEW a \in Agents, NEW res \in Results, WorkerEnds(a, res) PROVE TypeOK'
  BY <1>15 DEF WorkerEnds, poolFrame, rid, track
<1>16. CASE CrashRestart
  <2>1. /\ NoRounds \in [Tracks -> 0..MaxRound] /\ NoScores \in [Tracks -> Rows]
        /\ NoFutures \in [Agents -> Results \cup {NoFuture}]
    BY <1>1 DEF NoRounds, NoScores, NoFutures, Rows, NoRow
  <2>2. crashes' \in 0..MaxCrashes
    BY <1>1, <1>16 DEF CrashRestart
  <2>3. 1 \in 1..Len(Order) /\ 1 \in 1..Len(Order) + 1
    BY <1>1
  <2>4. QED
    BY <1>16, <2>1, <2>2, <2>3 DEF CrashRestart
<1>17. CASE ProxyGoesDown
  BY <1>17 DEF ProxyGoesDown, procFrame, rid, track
<1>18. CASE ProxyComesUp
  BY <1>18 DEF ProxyComesUp, procFrame, rid, track
<1>19. CASE FaultsCease
  BY <1>19 DEF FaultsCease, procFrame, rid, track
<1>20. ASSUME NEW t \in Tracks, SubmissionOpens(t) PROVE TypeOK'
  BY <1>1, <1>20 DEF SubmissionOpens, procFrame, rid, track
<1>21. ASSUME NEW t \in Tracks, SubmissionCloses(t) PROVE TypeOK'
  BY <1>21 DEF SubmissionCloses, procFrame, rid, track
<1>22. CASE UNCHANGED vars
  BY <1>22 DEF vars, rid, track
<1>23. QED
  BY <1>2, <1>3, <1>4, <1>5, <1>6, <1>7, <1>8, <1>9, <1>10, <1>11, <1>12, <1>13,
     <1>14, <1>15, <1>16, <1>17, <1>18, <1>19, <1>20, <1>21, <1>22 DEF Next, MainThread

-----------------------------------------------------------------------------
(* The invariant is inductive                                               *)

\* It holds at the start.
LEMMA InvInit == Init => IInv
<1>1. ASSUME Init PROVE IInv
  <2>1. TypeOK
    BY <1>1, TypeInit
  <2>2. /\ pc = "idle" /\ k = 1 /\ roundScores = NoScores /\ pending = {} /\ running = {}
        /\ futures = NoFutures /\ raised = FALSE /\ roundIds = NoRounds
    BY <1>1 DEF Init
  <2>3. \A t \in Tracks : roundIds[t] = 0
    BY <2>2 DEF NoRounds
  <2>4. QED
    BY <2>1, <2>2, <2>3
       DEF IInv, Places, PoolEmpty, Apart, OpenPass, BehindDealt, PoolDealt, PoolUnscored, ScoresAgree
<1>2. QED
  BY <1>1

\* Steps that leave the pass, the pool, the rows and the fates alone keep it.
quiet == <<pc, k, roundIds, doneRounds, failedTracks, pending, running, futures, raised,
           fate, rows, roundScores, unread>>
LEMMA QuietStep == ASSUME IInv, TypeOK', UNCHANGED quiet PROVE IInv'
BY DEF quiet, IInv, Places, PoolEmpty, Apart, OpenPass, BehindDealt, PoolDealt, PoolUnscored,
       ScoresAgree, InPool, Finished, track, rid

\* A poll takes up rounds that are not done.
LEMMA PollInv == ASSUME IInv, TypeOK', Poll PROVE IInv'
<1>1. Places' /\ PoolEmpty' /\ Apart' /\ PoolDealt' /\ PoolUnscored'
  BY DEF Poll, pool, pass, IInv, Places, PoolEmpty, Apart, PoolDealt, PoolUnscored
<1>2. OpenPass'
  BY DEF Poll, Unevaluated, OpenPass
<1>3. BehindDealt'
  <2>1. k' = 1 /\ Len(Order) \in Nat
    BY ConstantsAssumption DEF Poll, pass, IInv, Places
  <2>2. QED
    BY <2>1 DEF BehindDealt
<1>4. ScoresAgree'
  <2>1. \A t \in Tracks, a \in Agents : roundScores'[t][a] = NoRow
    BY DEF Poll, pass, IInv, Places, NoScores
  <2>2. QED
    BY <2>1 DEF ScoresAgree
<1>5. QED
  BY <1>1, <1>2, <1>3, <1>4 DEF IInv

\* The end of a pass, or of the process, leaves nothing to keep.
LEMMA PassOverInv ==
  ASSUME IInv, TypeOK', pc' = "idle", k' = 1, roundScores' = NoScores, roundIds' = NoRounds,
         pending' = {}, running' = {}, futures' = NoFutures, raised' = FALSE
  PROVE  IInv'
<1>1. \A t \in Tracks : roundIds'[t] = 0
  BY DEF NoRounds
<1>2. QED
  BY <1>1 DEF IInv, Places, PoolEmpty, Apart, OpenPass, BehindDealt, PoolDealt, PoolUnscored,
              ScoresAgree

\* The loop may go on to the next track when the participants of this one are
\* dealt with, or it failed, or is not in the pass.
LEMMA NextTrackInv ==
  ASSUME IInv, TypeOK', pc \in {"track", "pool"}, NextTrack, UNCHANGED loop,
         UNCHANGED <<rows, roundScores, unread>>,
         failedTracks \subseteq failedTracks',
         pending' = {}, running' = {}, futures' = NoFutures, raised' = FALSE,
         \A t \in Tracks, r \in Rounds, a \in Agents :
           fate[t][r][a] # "none" => fate'[t][r][a] # "none",
         roundIds[track] > 0 /\ track \notin failedTracks' =>
           \A a \in Agents : fate'[track][rid][a] # "none"
  PROVE  IInv'
<1>1. /\ k \in 1..Len(Order) /\ Len(Order) \in Nat /\ k' = k + 1
      /\ pc' \in {"track", "end"} /\ (pc' = "end" => k = Len(Order))
  BY InEvaluation DEF NextTrack, IInv
<1>2. Places' /\ PoolEmpty' /\ Apart' /\ PoolDealt' /\ PoolUnscored'
  BY <1>1 DEF Places, PoolEmpty, Apart, PoolDealt, PoolUnscored, NoFutures
<1>3. OpenPass'
  BY DEF loop, IInv, OpenPass
<1>4. BehindDealt'
  <2>1. ASSUME NEW i \in 1..Len(Order), i < k', Finished(Order[i])', NEW a \in Agents
        PROVE  fate'[Order[i]][roundIds'[Order[i]]][a] # "none"
    <3>1. roundIds' = roundIds
      BY DEF loop
    <3>2. /\ Order[i] \in Tracks /\ roundIds[Order[i]] \in Rounds
          /\ Order[i] \notin failedTracks' /\ roundIds[Order[i]] > 0
      BY <2>1, <3>1, ConstantsAssumption DEF Finished, Tracks, Rounds, IInv, TypeOK
    <3>3. CASE i = k
      BY <3>1, <3>2, <3>3 DEF track, rid
    <3>4. CASE i < k
      <4>1. pc # "idle" /\ Finished(Order[i])
        BY <3>2 DEF Finished
      <4>2. fate[Order[i]][roundIds[Order[i]]][a] # "none"
        BY <3>4, <4>1 DEF IInv, BehindDealt
      <4>3. QED
        BY <3>1, <3>2, <4>2
    <3>5. QED
      BY <1>1, <2>1, <3>3, <3>4
  <2>2. QED
    BY <2>1 DEF BehindDealt
<1>5. ScoresAgree'
  BY DEF loop, IInv, ScoresAgree
<1>6. QED
  BY <1>2, <1>3, <1>4, <1>5 DEF IInv

\* The loop goes on behind a track that fails, which no later step counts.
LEMMA TrackFailsInv == ASSUME IInv, TypeOK', TrackFails PROVE IInv'
<1>1. pc = "track" /\ NextTrack /\ track \in failedTracks' /\ failedTracks \subseteq failedTracks'
  BY DEF TrackFails
<1>2. UNCHANGED <<loop, rows, roundScores, unread, fate, pending, running, futures, raised>>
  BY DEF TrackFails, trackFrame, backend, pool
<1>3. pending = {} /\ running = {} /\ futures = NoFutures /\ raised = FALSE
  BY <1>1 DEF IInv, PoolEmpty, TypeOK
<1>4. QED
  BY <1>1, <1>2, <1>3, NextTrackInv

\* A track without a task set is skipped, its participants unserved.
LEMMA TrackSkippedInv == ASSUME IInv, TypeOK', TrackSkipped PROVE IInv'
<1>1. pc = "track" /\ NextTrack
  BY DEF TrackSkipped
<1>2. UNCHANGED <<loop, rows, roundScores, unread, failedTracks, pending, running, futures, raised>>
  BY DEF TrackSkipped, trackFrame, backend, pool
<1>3. pending = {} /\ running = {} /\ futures = NoFutures /\ raised = FALSE
  BY <1>1 DEF IInv, PoolEmpty, TypeOK
<1>4. \/ rid = 0 /\ fate' = fate
      \/ rid > 0 /\ fate' = [fate EXCEPT ![track][rid] = [a \in Agents |-> "unserved"]]
  BY DEF TrackSkipped
<1>5. /\ \A t \in Tracks, r \in Rounds, a \in Agents :
           fate[t][r][a] # "none" => fate'[t][r][a] # "none"
      /\ rid > 0 => \A a \in Agents : fate'[track][rid][a] # "none"
  <2>1. fate \in [Tracks -> [Rounds -> [Agents -> Fates]]]
    BY DEF IInv, TypeOK
  <2>2. track \in Tracks /\ (rid > 0 => rid \in Rounds) /\ rid \in Nat
    BY <1>1, InEvaluation, ConstantsAssumption DEF IInv
  <2>3. CASE rid = 0 /\ fate' = fate
    BY <2>2, <2>3
  <2>4. CASE rid > 0 /\ fate' = [fate EXCEPT ![track][rid] = [a \in Agents |-> "unserved"]]
    <3>1. rid \in Rounds
      BY <2>2, <2>4
    <3>2. fate'[track][rid] = [a \in Agents |-> "unserved"]
      BY <2>1, <2>2, <2>4, <3>1
    <3>3. \A t \in Tracks, r \in Rounds : t # track \/ r # rid => fate'[t][r] = fate[t][r]
      BY <2>1, <2>2, <2>4, <3>1
    <3>4. QED
      BY <3>2, <3>3
  <2>5. QED
    BY <1>4, <2>3, <2>4
<1>6. QED
  BY <1>1, <1>2, <1>3, <1>5, NextTrackInv DEF rid

\* A track outside the pass has no participants to deal with.
LEMMA TrackBlankInv == ASSUME IInv, TypeOK', TrackBlank PROVE IInv'
<1>1. pc = "track" /\ NextTrack /\ rid = 0
  BY DEF TrackBlank
<1>2. UNCHANGED <<loop, rows, roundScores, unread, failedTracks, fate, pending, running, futures, raised>>
  BY DEF TrackBlank, trackFrame, backend, pool
<1>3. pending = {} /\ running = {} /\ futures = NoFutures /\ raised = FALSE
  BY <1>1 DEF IInv, PoolEmpty, TypeOK
<1>4. ~(roundIds[track] > 0) /\ fate' = fate /\ failedTracks \subseteq failedTracks'
  BY <1>1, <1>2 DEF rid
<1>5. \A t \in Tracks, r \in Rounds, a \in Agents :
        fate[t][r][a] # "none" => fate'[t][r][a] # "none"
  BY <1>4
<1>6. QED
  BY <1>1, <1>2, <1>3, <1>4, <1>5, NextTrackInv

\* The pool is left when it is drained: then everyone in it was dealt with, or an
\* exception fails the track.
LEMMA TrackEndsInv == ASSUME IInv, TypeOK', TrackEnds PROVE IInv'
<1>1. /\ pc = "pool" /\ NextTrack /\ futures' = NoFutures /\ raised' = FALSE
      /\ failedTracks \subseteq failedTracks' /\ (raised => track \in failedTracks')
  BY DEF TrackEnds
<1>2. UNCHANGED <<loop, rows, roundScores, unread, fate, pending, running>>
  BY DEF TrackEnds, trackFrame, backend
<1>3. pending = {} /\ running = {} /\ (raised \/ \A a \in Agents : futures[a] = NoFuture)
  BY DEF TrackEnds, PoolDrained
<1>4. track \notin failedTracks' => \A a \in Agents : fate'[track][rid][a] # "none"
  BY <1>1, <1>2, <1>3 DEF IInv, PoolDealt, InPool
<1>5. QED
  BY <1>1, <1>2, <1>3, <1>4, NextTrackInv

\* The pass ends, or the process.
LEMMA PassEnds ==
  ASSUME IInv, TypeOK', PassRaises \/ Abstains \/ RoundEnds \/ CrashRestart PROVE IInv'
<1>1. pc' = "idle" /\ k' = 1 /\ roundScores' = NoScores /\ roundIds' = NoRounds
  BY DEF PassRaises, Abstains, RoundEnds, CrashRestart, PassOver
<1>2. pending' = {} /\ running' = {} /\ futures' = NoFutures /\ raised' = FALSE
  <2>1. CASE CrashRestart
    BY <2>1 DEF CrashRestart
  <2>2. CASE PassRaises \/ Abstains \/ RoundEnds
    <3>1. pc # "pool" /\ UNCHANGED <<pending, running, futures, raised>>
      BY <2>2 DEF PassRaises, Abstains, RoundEnds, pool
    <3>2. QED
      BY <3>1 DEF IInv, PoolEmpty, TypeOK
  <2>3. QED
    BY <2>1, <2>2
<1>3. QED
  BY <1>1, <1>2, PassOverInv

\* A track starts with the rows that were read back as its scores, and with a
\* pool of those that have none.
LEMMA TrackStartsInv == ASSUME IInv, TypeOK', TrackStarts PROVE IInv'
<1>1. /\ pc = "track" /\ pc' = "pool" /\ rid > 0 /\ track \in Tracks /\ rid \in Rounds
      /\ k \in 1..Len(Order) /\ Len(Order) \in Nat
  BY InEvaluation DEF TrackStarts, IInv
<1>2. UNCHANGED <<rows, roundIds, doneRounds, failedTracks, k, running, futures, raised>>
  BY DEF TrackStarts, backend, loop
<1>3. running = {} /\ (\A a \in Agents : futures[a] = NoFuture) /\ ~raised
  BY <1>1 DEF IInv, PoolEmpty, NoFutures
<1>4. track' = track /\ rid' = rid
  BY <1>2 DEF track, rid
<1>5. PICK refused \in SUBSET Agents, answered \in BOOLEAN :
        /\ pending' = ToEvaluate(Runnable(refused), Resumed(Runnable(refused), answered))
        /\ unread' = IF answered THEN unread ELSE unread \cup {track}
        /\ roundScores' = [roundScores EXCEPT ![track] =
             [a \in Agents |-> IF a \in Resumed(Runnable(refused), answered)
                               THEN rows[track][rid][a] ELSE NoRow]]
        /\ fate' = [fate EXCEPT ![track][rid] = [a \in Agents |->
             IF a \in refused THEN "unfetched"
             ELSE IF a \in Resumed(Runnable(refused), answered) THEN "evaluated" ELSE "none"]]
  BY StartOfTrack, Zenon
<1>6. /\ \A a \in Agents : fate'[track][rid][a] =
             IF a \in refused THEN "unfetched"
             ELSE IF a \in Resumed(Runnable(refused), answered) THEN "evaluated" ELSE "none"
      /\ \A t \in Tracks, r \in Rounds : t # track => fate'[t][r] = fate[t][r]
  BY <1>1, <1>5 DEF IInv, TypeOK
<1>7. /\ \A a \in Agents : roundScores'[track][a] =
             IF a \in Resumed(Runnable(refused), answered) THEN rows[track][rid][a] ELSE NoRow
      /\ \A t \in Tracks : t # track => roundScores'[t] = roundScores[t]
  BY <1>1, <1>5 DEF IInv, TypeOK
<1>8. Places' /\ PoolEmpty'
  BY <1>1 DEF Places, PoolEmpty
<1>9. Apart'
  BY <1>2, <1>3 DEF Apart
<1>10. OpenPass'
  BY <1>2 DEF IInv, OpenPass
<1>11. BehindDealt'
  <2>1. ASSUME NEW i \in 1..Len(Order), i < k', Finished(Order[i])', NEW a \in Agents
        PROVE  fate'[Order[i]][roundIds'[Order[i]]][a] # "none"
    <3>1. /\ Order[i] \in Tracks /\ roundIds[Order[i]] \in Rounds /\ Finished(Order[i])
      <4>1. Order[i] \in Tracks
        BY DEF Tracks
      <4>2. Finished(Order[i])
        BY <1>2, <2>1 DEF Finished
      <4>3. QED
        BY <4>1, <4>2, ConstantsAssumption DEF Finished, Rounds, IInv, TypeOK
    <3>2. Order[i] # track
      BY <1>1, <1>2, <2>1, ConstantsAssumption DEF track
    <3>3. fate[Order[i]][roundIds[Order[i]]][a] # "none"
      BY <1>1, <1>2, <2>1, <3>1 DEF IInv, BehindDealt
    <3>4. QED
      BY <1>2, <1>6, <3>1, <3>2, <3>3
  <2>2. QED
    BY <2>1 DEF BehindDealt
<1>12. PoolDealt'
  <2>1. \A a \in Agents : fate'[track][rid][a] # "none" \/ a \in pending'
    BY <1>5, <1>6 DEF ToEvaluate, Runnable
  <2>2. QED
    BY <1>4, <2>1 DEF PoolDealt, InPool
<1>13. PoolUnscored'
  <2>1. ASSUME NEW a \in Agents, InPool(a)'
        PROVE  roundScores'[track][a] = NoRow /\ (track \notin unread' => rows'[track][rid][a] = NoRow)
    <3>1. a \in pending'
      BY <1>2, <1>3, <2>1 DEF InPool
    <3>2. a \in Runnable(refused) /\ a \notin Resumed(Runnable(refused), answered)
      BY <1>5, <3>1 DEF ToEvaluate
    <3>3. track \notin unread' => answered
      BY <1>5
    <3>4. QED
      BY <1>2, <1>7, <3>2, <3>3 DEF Resumed
  <2>2. QED
    BY <1>4, <2>1 DEF PoolUnscored
<1>14. ScoresAgree'
  <2>1. ASSUME NEW t \in Tracks, NEW a \in Agents,
               roundIds'[t] > 0, t \notin unread', roundScores'[t][a] # NoRow
        PROVE  rows'[t][roundIds'[t]][a] \in {NoRow, roundScores'[t][a]}
    <3>1. CASE t = track
      BY <1>2, <1>7, <2>1, <3>1 DEF rid
    <3>2. CASE t # track
      <4>1. t \notin unread
        BY <1>5, <2>1
      <4>2. QED
        BY <1>2, <1>7, <2>1, <3>2, <4>1 DEF IInv, ScoresAgree
    <3>3. QED
      BY <3>1, <3>2
  <2>2. QED
    BY <2>1 DEF ScoresAgree
<1>15. QED
  BY <1>8, <1>9, <1>10, <1>11, <1>12, <1>13, <1>14 DEF IInv

\* A future that is taken leaves the pool: its agent is dealt with or the track
\* fails, and its row goes to the backend as the score of the pass.
LEMMA TakeFutureInv == ASSUME IInv, TypeOK', NEW a \in Agents, TakeFuture(a) PROVE IInv'
<1>1. /\ pc = "pool" /\ pc' = "pool" /\ ~raised /\ futures[a] # NoFuture
      /\ futures' = [futures EXCEPT ![a] = NoFuture]
      /\ track \in Tracks /\ rid \in Rounds /\ rid > 0
      /\ k \in 1..Len(Order) /\ Len(Order) \in Nat
  BY InEvaluation DEF TakeFuture, IInv, TypeOK
<1>2. UNCHANGED <<roundIds, doneRounds, failedTracks, k, pending, running, unread>>
  BY DEF TakeFuture, loop
<1>3. track' = track /\ rid' = rid
  BY <1>2 DEF track, rid
<1>4. futures' \in [Agents -> Results \cup {NoFuture}] /\ futures'[a] = NoFuture
      /\ (\A b \in Agents \ {a} : futures'[b] = futures[b])
  BY <1>1 DEF IInv, TypeOK
<1>5. \A b \in Agents : IF b = a THEN ~InPool(b)' ELSE InPool(b)' = InPool(b)
  BY <1>1, <1>2, <1>4 DEF InPool, IInv, Apart
<1>6. /\ \A t \in Tracks : t # track => roundScores'[t] = roundScores[t]
      /\ \A b \in Agents \ {a} : roundScores'[track][b] = roundScores[track][b]
  <2>1. roundScores \in [Tracks -> Rows]
    BY DEF IInv, TypeOK
  <2>2. (\E s \in Scores : roundScores' = [roundScores EXCEPT ![track][a] = s])
        \/ roundScores' = roundScores
    BY FutureTaken, Zenon DEF IInv
  <2>3. QED
    BY <1>1, <2>1, <2>2 DEF Rows
<1>7. /\ \A t \in Tracks, r \in Rounds, b \in Agents :
           fate[t][r][b] # "none" => fate'[t][r][b] # "none"
      /\ raised' \/ fate'[track][rid][a] # "none"
  <2>1. fate \in [Tracks -> [Rounds -> [Agents -> Fates]]]
    BY DEF IInv, TypeOK
  <2>2. \/ fate' = fate /\ raised' = TRUE
        \/ fate' = [fate EXCEPT ![track][rid][a] = "evaluated"]
        \/ fate' = [fate EXCEPT ![track][rid][a] = "errored"]
    BY FutureTaken, Zenon DEF IInv
  <2>3. ASSUME NEW f \in Fates, f # "none", fate' = [fate EXCEPT ![track][rid][a] = f]
        PROVE  /\ \A t \in Tracks, r \in Rounds, b \in Agents :
                    fate[t][r][b] # "none" => fate'[t][r][b] # "none"
               /\ fate'[track][rid][a] # "none"
    BY <1>1, <2>1, <2>3
  <2>4. "evaluated" \in Fates \ {"none"} /\ "errored" \in Fates \ {"none"}
    BY DEF Fates
  <2>5. CASE fate' = fate /\ raised' = TRUE
    BY <2>5
  <2>6. CASE fate' = [fate EXCEPT ![track][rid][a] = "evaluated"]
    BY <2>3, <2>4, <2>6
  <2>7. CASE fate' = [fate EXCEPT ![track][rid][a] = "errored"]
    BY <2>3, <2>4, <2>7
  <2>8. QED
    BY <2>2, <2>5, <2>6, <2>7
<1>8. /\ \A t \in Tracks, r \in Rounds : t # track \/ r # rid => rows'[t][r] = rows[t][r]
      /\ \A b \in Agents : \/ rows'[track][rid][b] = rows[track][rid][b]
                           \/ rows'[track][rid][b] = roundScores'[track][b]
      /\ \A b \in Agents : roundScores'[track][b] = NoRow =>
                             rows'[track][rid][b] = rows[track][rid][b]
  <2>1. rows' = rows \/ rows' = Upsert(track, roundScores'[track])
    BY FutureTaken, Zenon DEF IInv
  <2>2. CASE rows' = rows
    BY <2>2
  <2>3. CASE rows' = Upsert(track, roundScores'[track])
    <3>1. TypeOK /\ roundScores'[track] \in Rows /\ roundIds[track] > 0 /\ roundIds[track] = rid
      BY <1>1 DEF IInv, TypeOK, rid
    <3>2. /\ \A t \in Tracks, r \in Rounds : t # track \/ r # rid => rows'[t][r] = rows[t][r]
          /\ \A b \in Agents : rows'[track][rid][b]
               = IF roundScores'[track][b] = NoRow THEN rows[track][rid][b]
                 ELSE roundScores'[track][b]
      BY <1>1, <2>3, <3>1, UpsertRows
    <3>3. QED
      BY <3>2
  <2>4. QED
    BY <2>1, <2>2, <2>3
<1>9. Places' /\ PoolEmpty'
  BY <1>1 DEF Places, PoolEmpty
<1>10. Apart'
  BY <1>2, <1>4 DEF IInv, Apart
<1>11. OpenPass'
  BY <1>2 DEF IInv, OpenPass
<1>12. BehindDealt'
  <2>1. ASSUME NEW i \in 1..Len(Order), i < k', Finished(Order[i])', NEW b \in Agents
        PROVE  fate'[Order[i]][roundIds'[Order[i]]][b] # "none"
    <3>1. /\ Order[i] \in Tracks /\ roundIds[Order[i]] \in Rounds /\ Finished(Order[i])
      BY <1>2, <2>1, ConstantsAssumption DEF Finished, Tracks, Rounds, IInv, TypeOK
    <3>2. fate[Order[i]][roundIds[Order[i]]][b] # "none"
      BY <1>1, <1>2, <2>1, <3>1 DEF IInv, BehindDealt
    <3>3. QED
      BY <1>2, <1>7, <3>1, <3>2
  <2>2. QED
    BY <2>1 DEF BehindDealt
<1>13. PoolDealt'
  <2>1. \A b \in Agents : fate[track][rid][b] # "none" \/ InPool(b)
    BY <1>1 DEF IInv, PoolDealt
  <2>2. ~raised' => \A b \in Agents : fate'[track][rid][b] # "none" \/ InPool(b)'
    BY <1>1, <1>5, <1>7, <2>1
  <2>3. QED
    BY <1>3, <2>2 DEF PoolDealt
<1>14. PoolUnscored'
  <2>1. ASSUME NEW b \in Agents, InPool(b)'
        PROVE  roundScores'[track][b] = NoRow /\ (track \notin unread' => rows'[track][rid][b] = NoRow)
    <3>1. b # a /\ InPool(b)
      BY <1>5, <2>1
    <3>2. roundScores[track][b] = NoRow /\ (track \notin unread => rows[track][rid][b] = NoRow)
      BY <1>1, <3>1 DEF IInv, PoolUnscored
    <3>3. QED
      BY <1>2, <1>6, <1>8, <3>1, <3>2
  <2>2. QED
    BY <1>3, <2>1 DEF PoolUnscored
<1>15. ScoresAgree'
  <2>1. ASSUME NEW t \in Tracks, NEW b \in Agents,
               roundIds'[t] > 0, t \notin unread', roundScores'[t][b] # NoRow
        PROVE  rows'[t][roundIds'[t]][b] \in {NoRow, roundScores'[t][b]}
    <3>1. roundIds[t] \in Rounds /\ t \notin unread /\ roundIds' = roundIds
      BY <1>2, <2>1, ConstantsAssumption DEF IInv, TypeOK, Rounds
    <3>2. CASE t = track /\ b = a
      <4>1. InPool(a)
        BY <1>1 DEF InPool
      <4>2. rows[track][rid][a] = NoRow
        BY <1>1, <3>1, <3>2, <4>1 DEF IInv, PoolUnscored
      <4>3. QED
        BY <1>8, <3>1, <3>2, <4>2 DEF rid
    <3>3. CASE t = track /\ b # a
      <4>1. roundScores'[track][b] = roundScores[track][b]
        BY <1>6, <3>3
      <4>2. rows[track][rid][b] \in {NoRow, roundScores[track][b]}
        BY <2>1, <3>1, <3>3, <4>1 DEF IInv, ScoresAgree, rid
      <4>3. QED
        BY <1>8, <3>1, <3>3, <4>1, <4>2 DEF rid
    <3>4. CASE t # track
      <4>1. roundScores'[t] = roundScores[t] /\ rows'[t][roundIds[t]] = rows[t][roundIds[t]]
        BY <1>6, <1>8, <3>1, <3>4
      <4>2. rows[t][roundIds[t]][b] \in {NoRow, roundScores[t][b]}
        BY <2>1, <3>1, <4>1 DEF IInv, ScoresAgree
      <4>3. QED
        BY <3>1, <4>1, <4>2
    <3>5. QED
      BY <3>2, <3>3, <3>4
  <2>2. QED
    BY <2>1 DEF ScoresAgree
<1>16. QED
  BY <1>9, <1>10, <1>11, <1>12, <1>13, <1>14, <1>15 DEF IInv

\* A worker moves an agent on within the pool.
LEMMA WorkerInv ==
  ASSUME IInv, TypeOK', NEW a \in Agents,
         WorkerStarts(a) \/ \E res \in Results : WorkerEnds(a, res)
  PROVE  IInv'
<1>1. /\ UNCHANGED <<rows, round, phase, roundIds, doneRounds, k, failedTracks, roundScores, unread>>
      /\ UNCHANGED <<pc, raised, fate>>
  BY DEF WorkerStarts, WorkerEnds, poolFrame, backend, loop, pass
<1>2. pc = "pool"
  <2>1. a \in pending \/ a \in running
    BY DEF WorkerStarts, WorkerEnds
  <2>2. QED
    BY <2>1 DEF IInv, PoolEmpty
<1>3. /\ Apart'
      /\ \A b \in Agents : InPool(b)' = InPool(b)
  <2>1. CASE WorkerStarts(a)
    BY <2>1 DEF WorkerStarts, IInv, Apart, InPool, TypeOK
  <2>2. CASE \E res \in Results : WorkerEnds(a, res)
    <3>1. PICK res \in Results : WorkerEnds(a, res)
      BY <2>2
    <3>2. res # NoFuture
      BY DEF Results, NoFuture
    <3>3. /\ a \in running /\ running' = running \ {a} /\ pending' = pending
          /\ futures' = [futures EXCEPT ![a] = res]
      BY <3>1 DEF WorkerEnds
    <3>4. futures'[a] = res /\ \A b \in Agents \ {a} : futures'[b] = futures[b]
      BY <3>3 DEF IInv, TypeOK
    <3>5. QED
      BY <3>2, <3>3, <3>4 DEF IInv, Apart, InPool
  <2>3. QED
    BY <2>1, <2>2
<1>4. Places' /\ PoolEmpty' /\ OpenPass' /\ BehindDealt' /\ ScoresAgree'
  BY <1>1, <1>2 DEF IInv, Places, PoolEmpty, OpenPass, BehindDealt, ScoresAgree, Finished
<1>5. track' = track /\ rid' = rid
  BY <1>1 DEF track, rid
<1>6. PoolDealt' /\ PoolUnscored'
  BY <1>1, <1>2, <1>3, <1>5 DEF IInv, PoolDealt, PoolUnscored
<1>7. QED
  BY <1>3, <1>4, <1>6 DEF IInv

\* Every step keeps the invariant.
LEMMA InvStep == ASSUME IInv, [Next]_vars PROVE IInv'
<1>1. TypeOK'
  BY TypeStep DEF IInv
<1>2. ASSUME NEW a \in Agents, TakeFuture(a) PROVE IInv'
  BY <1>1, <1>2, TakeFutureInv
<1>3. CASE \E a \in Agents : WorkerStarts(a) \/ \E res \in Results : WorkerEnds(a, res)
  BY <1>1, <1>3, WorkerInv
<1>4. CASE UNCHANGED vars \/ PollInVain \/ RetryElapses \/ ProxyGoesDown \/ ProxyComesUp \/ FaultsCease
           \/ \E t \in Tracks : SubmissionOpens(t) \/ SubmissionCloses(t)
  <2>1. UNCHANGED quiet
    BY <1>4 DEF PollInVain, RetryElapses, ProxyGoesDown, ProxyComesUp, FaultsCease, SubmissionOpens,
                SubmissionCloses, procFrame, vars, backend, loop, pool, pass, quiet
  <2>2. QED
    BY <1>1, <2>1, QuietStep
<1>5. CASE Poll \/ TrackFails \/ TrackSkipped \/ TrackBlank \/ TrackStarts \/ TrackEnds
  BY <1>1, <1>5, PollInv, TrackFailsInv, TrackSkippedInv, TrackBlankInv, TrackStartsInv, TrackEndsInv
<1>6. CASE PassRaises \/ Abstains \/ RoundEnds \/ CrashRestart
  BY <1>1, <1>6, PassEnds
<1>7. QED
  BY <1>2, <1>3, <1>4, <1>5, <1>6 DEF Next, MainThread

\* In every behaviour of the loop.
LEMMA InvAlways == Spec => []IInv
BY InvInit, InvStep, PTL DEF Spec

\* Every variable stays in its domain.
THEOREM TypeCorrect == Spec => []TypeOK
<1>1. IInv => TypeOK
  BY DEF IInv
<1>2. QED
  BY <1>1, InvAlways, PTL

-----------------------------------------------------------------------------
(* What a step does to the rounds                                           *)

\* Rows and fates change in the rounds of the pass only, and a fate only while
\* the round is not yet dealt with at the end of the pass.
LEMMA OnlyInPass ==
  ASSUME IInv, [Next]_vars, NEW t \in Tracks, NEW r \in Rounds, r # roundIds[t]
  PROVE  rows'[t][r] = rows[t][r] /\ fate'[t][r] = fate[t][r]
<1>0. TypeOK /\ roundIds[t] \in 0..MaxRound /\ MaxRound \in Nat
  BY ConstantsAssumption DEF IInv, TypeOK
<1>1. ASSUME UNCHANGED <<rows, fate>> PROVE rows'[t][r] = rows[t][r] /\ fate'[t][r] = fate[t][r]
  BY <1>1
<1>2. CASE UNCHANGED vars \/ Poll \/ PollInVain \/ TrackFails \/ TrackBlank \/ PassRaises
           \/ TrackEnds \/ Abstains \/ RetryElapses \/ CrashRestart
           \/ ProxyGoesDown \/ ProxyComesUp \/ FaultsCease
           \/ (\E a \in Agents : WorkerStarts(a) \/ \E res \in Results : WorkerEnds(a, res))
           \/ \E u \in Tracks : SubmissionOpens(u) \/ SubmissionCloses(u)
  <2>1. UNCHANGED <<rows, fate>>
    BY <1>2 DEF Poll, PollInVain, TrackFails, TrackBlank, PassRaises, TrackEnds, Abstains,
                RetryElapses, CrashRestart, ProxyGoesDown, ProxyComesUp, FaultsCease, WorkerStarts,
                WorkerEnds, SubmissionOpens, SubmissionCloses, procFrame, poolFrame, trackFrame,
                vars, backend
  <2>2. QED
    BY <1>1, <2>1
<1>3. CASE TrackSkipped \/ TrackStarts
  <2>1. rows' = rows
    BY <1>3 DEF TrackSkipped, TrackStarts, trackFrame, backend
  <2>2. track \in Tracks /\ rid = roundIds[track] /\ (rid > 0 => rid \in Rounds)
    BY <1>0, <1>3, InEvaluation DEF TrackSkipped, TrackStarts, rid
  <2>3. CASE TrackSkipped
    <3>1. \/ fate' = fate
          \/ rid > 0 /\ fate' = [fate EXCEPT ![track][rid] = [a \in Agents |-> "unserved"]]
      BY <2>3 DEF TrackSkipped
    <3>2. t # track \/ r # rid
      BY <2>2
    <3>3. fate \in [Tracks -> [Rounds -> [Agents -> Fates]]] /\ (rid > 0 => rid \in Rounds)
      BY <1>0, <2>2 DEF TypeOK
    <3>4. fate'[t][r] = fate[t][r]
      BY <2>2, <3>1, <3>2, <3>3
    <3>5. QED
      BY <2>1, <3>4
  <2>4. CASE TrackStarts
    <3>1. PICK new : fate' = [fate EXCEPT ![track][rid] = new]
      BY <2>4, StartOfTrack, Zenon
    <3>2. QED
      BY <1>0, <2>1, <2>2, <3>1 DEF TypeOK
  <2>5. QED
    BY <1>3, <2>3, <2>4
<1>4. ASSUME NEW a \in Agents, TakeFuture(a) PROVE rows'[t][r] = rows[t][r] /\ fate'[t][r] = fate[t][r]
  <2>1. TypeOK' /\ track \in Tracks /\ rid \in Rounds /\ rid = roundIds[track] /\ rid > 0
    BY <1>0, <1>4, TypeStep, InEvaluation DEF TakeFuture, TypeOK, rid
  <2>2. fate'[t][r] = fate[t][r]
    <3>1. \/ fate' = fate
          \/ fate' = [fate EXCEPT ![track][rid][a] = "evaluated"]
          \/ fate' = [fate EXCEPT ![track][rid][a] = "errored"]
      BY <1>0, <1>4, FutureTaken, Zenon
    <3>2. fate \in [Tracks -> [Rounds -> [Agents -> Fates]]] /\ (t # track \/ r # rid)
      BY <1>0, <2>1 DEF TypeOK
    <3>3. QED
      BY <2>1, <3>1, <3>2
  <2>3. rows'[t][r] = rows[t][r]
    <3>1. rows' = rows \/ rows' = Upsert(track, roundScores'[track])
      BY <1>0, <1>4, FutureTaken, Zenon
    <3>2. roundScores'[track] \in Rows
      BY <2>1 DEF TypeOK
    <3>3. (t # track \/ r # rid) /\ roundIds[track] > 0
      BY <2>1
    <3>4. QED
      BY <1>0, <2>1, <3>1, <3>2, <3>3, UpsertRows
  <2>4. QED
    BY <2>2, <2>3
<1>5. CASE RoundEnds
  <2>1. PICK lost \in SUBSET Tracks :
          rows' = [u \in Tracks |-> IF roundIds[u] = 0 \/ u \in lost THEN rows[u]
                                    ELSE Upsert(u, roundScores[u])[u]]
    BY <1>5 DEF RoundEnds
  <2>2. roundIds[t] # 0 => Upsert(t, roundScores[t])[t][r] = rows[t][r]
    <3>1. roundScores[t] \in Rows /\ (roundIds[t] # 0 => roundIds[t] > 0)
      BY <1>0 DEF TypeOK
    <3>2. QED
      BY <1>0, <3>1, UpsertRows
  <2>3. fate' = fate
    BY <1>5 DEF RoundEnds
  <2>4. QED
    BY <2>1, <2>2, <2>3
<1>6. QED
  BY <1>2, <1>3, <1>4, <1>5 DEF Next, MainThread

\* The rounds that are done stay so, are forgotten in a restart that leaves rows
\* and fates alone, or more are done, all of whose participants were dealt with.
LEMMA DoneRounds ==
  ASSUME IInv, [Next]_vars
  PROVE  \/ doneRounds' = doneRounds
         \/ doneRounds' = {} /\ UNCHANGED <<rows, fate>>
         \/ /\ doneRounds \subseteq doneRounds'
            /\ \A d \in doneRounds' \ doneRounds : \A a \in Agents : fate'[d[1]][d[2]][a] # "none"
<1>1. CASE CrashRestart
  BY <1>1 DEF CrashRestart, backend
<1>2. CASE RoundEnds
  <2>1. k = Len(Order) + 1 /\ pc = "end" /\ Len(Order) \in Nat /\ fate' = fate
        /\ doneRounds' = doneRounds \cup NewlyDone
    BY <1>2, ConstantsAssumption DEF RoundEnds, IInv, Places
  <2>2. ASSUME NEW t \in Tracks, Finished(t), NEW a \in Agents
        PROVE  fate[t][roundIds[t]][a] # "none"
    <3>1. PICK i \in 1..Len(Order) : t = Order[i]
      BY DEF Tracks
    <3>2. i < k
      BY <2>1, <3>1
    <3>3. QED
      BY <2>1, <2>2, <3>1, <3>2 DEF IInv, BehindDealt
  <2>3. \A d \in NewlyDone : \A a \in Agents : fate[d[1]][d[2]][a] # "none"
    BY <2>2 DEF NewlyDone
  <2>4. QED
    BY <2>1, <2>3
<1>3. CASE UNCHANGED vars \/ Poll \/ PollInVain \/ TrackFails \/ TrackSkipped \/ TrackBlank \/ TrackStarts
           \/ PassRaises \/ TrackEnds \/ Abstains \/ RetryElapses
           \/ ProxyGoesDown \/ ProxyComesUp \/ FaultsCease
           \/ (\E a \in Agents : WorkerStarts(a) \/ TakeFuture(a) \/ \E res \in Results : WorkerEnds(a, res))
           \/ \E t \in Tracks : SubmissionOpens(t) \/ SubmissionCloses(t)
  <2>1. UNCHANGED doneRounds
    BY <1>3 DEF Poll, PollInVain, TrackFails, TrackSkipped, TrackBlank, TrackStarts, PassRaises,
                TrackEnds, Abstains, RetryElapses, ProxyGoesDown, ProxyComesUp, FaultsCease,
                WorkerStarts, WorkerEnds, TakeFuture, SubmissionOpens, SubmissionCloses, procFrame,
                poolFrame, trackFrame, vars, loop
  <2>2. QED
    BY <2>1
<1>4. QED
  BY <1>1, <1>2, <1>3 DEF Next, MainThread

\* A row the backend accepted stands, but for tracks whose rows were not read back.
LEMMA RowsAreKept ==
  ASSUME IInv, [Next]_vars, NEW t \in Tracks \ unread, NEW r \in Rounds, NEW a \in Agents
  PROVE  rows[t][r][a] = NoRow \/ rows'[t][r][a] = rows[t][r][a]
<1>1. CASE r # roundIds[t]
  BY <1>1, OnlyInPass
<1>2. CASE r = roundIds[t]
  <2>0. TypeOK /\ TypeOK' /\ roundIds[t] > 0
    BY <1>2, TypeStep DEF IInv, Rounds
  <2>1. ASSUME UNCHANGED rows PROVE rows'[t][r][a] = rows[t][r][a]
    BY <2>1
  <2>2. ASSUME NEW b \in Agents, TakeFuture(b)
        PROVE  rows[t][r][a] = NoRow \/ rows'[t][r][a] = rows[t][r][a]
    <3>1. IInv'
      BY InvStep
    <3>2. UNCHANGED <<roundIds, unread>>
      BY <2>2 DEF TakeFuture, loop
    <3>3. rows' = rows \/ rows' = Upsert(track, roundScores'[track])
      BY <2>0, <2>2, FutureTaken, Zenon
    <3>4. track \in Tracks /\ roundIds[track] > 0 /\ roundScores'[track] \in Rows
          /\ rid = roundIds[track]
      BY <2>0, <2>2, InEvaluation DEF TakeFuture, TypeOK, rid
    <3>5. CASE t = track /\ rows' = Upsert(track, roundScores'[track])
      <4>1. roundScores'[t][a] = NoRow => rows'[t][r][a] = rows[t][r][a]
        BY <1>2, <2>0, <3>4, <3>5, UpsertRows
      <4>2. a # b => roundScores'[t][a] = roundScores[t][a]
        <5>1. (\E s \in Scores : roundScores' = [roundScores EXCEPT ![track][b] = s])
              \/ roundScores' = roundScores
          BY <2>0, <2>2, FutureTaken, Zenon
        <5>2. QED
          BY <2>0, <3>5, <5>1 DEF TypeOK, Rows
      <4>3. a = b => rows[t][r][a] = NoRow
        <5>1. pc = "pool" /\ InPool(b)
          BY <2>2 DEF TakeFuture, InPool
        <5>2. QED
          BY <1>2, <3>5, <5>1 DEF IInv, PoolUnscored, rid
      <4>4. a # b /\ roundScores[t][a] # NoRow => rows[t][r][a] \in {NoRow, roundScores[t][a]}
        BY <1>2, <2>0 DEF IInv, ScoresAgree
      <4>5. roundScores'[t][a] # NoRow => rows'[t][r][a] = roundScores'[t][a]
        BY <1>2, <2>0, <3>4, <3>5, UpsertRows
      <4>6. QED
        BY <4>1, <4>2, <4>3, <4>4, <4>5
    <3>6. CASE t # track /\ rows' = Upsert(track, roundScores'[track])
      BY <2>0, <3>4, <3>6, UpsertRows
    <3>7. QED
      BY <3>3, <3>5, <3>6
  <2>3. CASE RoundEnds
    <3>1. PICK lost \in SUBSET Tracks :
            rows' = [u \in Tracks |-> IF roundIds[u] = 0 \/ u \in lost THEN rows[u]
                                      ELSE Upsert(u, roundScores[u])[u]]
      BY <2>3 DEF RoundEnds
    <3>2. Upsert(t, roundScores[t])[t][r][a]
            = IF roundScores[t][a] = NoRow THEN rows[t][r][a] ELSE roundScores[t][a]
      <4>1. roundScores[t] \in Rows
        BY <2>0 DEF TypeOK
      <4>2. QED
        BY <1>2, <2>0, <4>1, UpsertRows
    <3>3. roundScores[t][a] # NoRow => rows[t][r][a] \in {NoRow, roundScores[t][a]}
      BY <1>2, <2>0 DEF IInv, ScoresAgree
    <3>4. QED
      BY <3>1, <3>2, <3>3
  <2>4. CASE UNCHANGED vars \/ Poll \/ PollInVain \/ TrackFails \/ TrackSkipped \/ TrackBlank \/ TrackStarts
             \/ PassRaises \/ TrackEnds \/ Abstains \/ RetryElapses \/ CrashRestart
             \/ ProxyGoesDown \/ ProxyComesUp \/ FaultsCease
             \/ (\E b \in Agents : WorkerStarts(b) \/ \E res \in Results : WorkerEnds(b, res))
             \/ \E u \in Tracks : SubmissionOpens(u) \/ SubmissionCloses(u)
    <3>1. UNCHANGED rows
      BY <2>4 DEF Poll, PollInVain, TrackFails, TrackSkipped, TrackBlank, TrackStarts, PassRaises,
                  TrackEnds, Abstains, RetryElapses, CrashRestart, ProxyGoesDown, ProxyComesUp,
                  FaultsCease, WorkerStarts, WorkerEnds, SubmissionOpens, SubmissionCloses, procFrame,
                  poolFrame, trackFrame, vars, backend
    <3>2. QED
      BY <2>1, <3>1
  <2>5. QED
    BY <2>2, <2>3, <2>4 DEF Next, MainThread
<1>3. QED
  BY <1>1, <1>2

\* A round that is done, and stays so, is left alone.
LEMMA DoneRest ==
  ASSUME IInv, [Next]_vars, NEW d \in doneRounds
  PROVE  /\ d[1] \in Tracks /\ d[2] \in Rounds
         /\ rows'[d[1]][d[2]] = rows[d[1]][d[2]] /\ fate'[d[1]][d[2]] = fate[d[1]][d[2]]
<1>1. d[1] \in Tracks /\ d[2] \in Rounds /\ d = <<d[1], d[2]>>
  BY DEF IInv, TypeOK
<1>2. d[2] # roundIds[d[1]]
  BY <1>1 DEF IInv, OpenPass, Rounds
<1>3. QED
  BY <1>1, <1>2, OnlyInPass

\* A round is done only when each of its participants was dealt with.
THEOREM DoneIsEvaluated == Spec => []DoneMeansEvaluated
<1>1. Init => DoneMeansEvaluated
  BY DEF Init, DoneMeansEvaluated
<1>2. IInv /\ DoneMeansEvaluated /\ [Next]_vars => DoneMeansEvaluated'
  <2>1. SUFFICES ASSUME IInv, DoneMeansEvaluated, [Next]_vars, NEW d \in doneRounds', NEW a \in Agents
                 PROVE  fate'[d[1]][d[2]][a] # "none"
    BY DEF DoneMeansEvaluated
  <2>2. CASE d \in doneRounds
    BY <2>1, <2>2, DoneRest DEF DoneMeansEvaluated
  <2>3. CASE d \notin doneRounds
    BY <2>1, <2>3, DoneRounds
  <2>4. QED
    BY <2>2, <2>3
<1>3. QED
  BY <1>1, <1>2, InvAlways, PTL DEF Spec

-----------------------------------------------------------------------------
(* The loop implements the ledger                                           *)

\* Every step of the loop is one of the ledger's, or a stutter.
LEMMA LedgerStep ==
  ASSUME IInv, [Next]_vars
  PROVE  [Ledger!Work \/ Ledger!Close \/ Ledger!Reopen]_(Ledger!ledger)
<1> DEFINE done(t, r) == {a \in Agents : fate[t][r][a] # "none"}
<1>1. Ledger!RowsStand
  BY RowsAreKept DEF Ledger!RowsStand
<1>2. Ledger!ClosedRest
  BY DoneRest DEF Ledger!ClosedRest
<1>3. CASE doneRounds' = doneRounds
  BY <1>1, <1>2, <1>3 DEF Ledger!Work
<1>4. CASE doneRounds' = {} /\ UNCHANGED <<rows, fate>>
  BY <1>4 DEF Ledger!Reopen
<1>5. CASE /\ doneRounds \subseteq doneRounds'
           /\ \A d \in doneRounds' \ doneRounds : \A a \in Agents : fate'[d[1]][d[2]][a] # "none"
  <2>1. TypeOK'
    BY TypeStep DEF IInv
  <2>2. \A d \in doneRounds' : d[1] \in Tracks /\ d[2] \in Rounds
    BY <2>1 DEF TypeOK
  <2>3. QED
    BY <1>1, <1>2, <1>5, <2>2 DEF Ledger!Close
<1>6. QED
  BY <1>3, <1>4, <1>5, DoneRounds

\* Through passes, retries, restarts and repeated submissions an accepted row is
\* never replaced by another (unless it could not be read back), a round closes
\* only when each participant was dealt with, and is then left alone.
THEOREM LoopKeepsLedger == Spec => KeepsLedger
<1>1. Init => Ledger!Init
  <2>1. SUFFICES ASSUME Init PROVE Ledger!Init
    OBVIOUS
  <2>2. rows = [t \in Tracks |-> [r \in Rounds |-> [a \in Agents |-> NoRow]]]
        /\ doneRounds = {} /\ unread = {}
    BY <2>1 DEF Init
  <2>3. \A t \in Tracks, r \in Rounds : {a \in Agents : fate[t][r][a] # "none"} = {}
    BY <2>1 DEF Init
  <2>4. QED
    BY <2>2, <2>3 DEF Ledger!Init
<1>2. IInv /\ [Next]_vars => [Ledger!Work \/ Ledger!Close \/ Ledger!Reopen]_(Ledger!ledger)
  BY LedgerStep
<1>3. QED
  BY <1>1, <1>2, InvAlways, PTL DEF Spec, KeepsLedger, Ledger!Spec
=============================================================================
