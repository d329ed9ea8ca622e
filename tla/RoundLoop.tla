----------------------------- MODULE RoundLoop -----------------------------
(***************************************************************************)
(* The validator's round loop (neurons/validator.py, _begin_round down to  *)
(* _run_track): it polls the backend for the open round of every track,    *)
(* evaluates one track after the other, the agents of a track in a thread  *)
(* pool, submits a track's rows after every agent, resumes from the rows   *)
(* the backend already holds, and comes back later for tracks that failed. *)
(* The backend opens rounds, loses calls and keeps the rows; the inference *)
(* proxy goes down and up; the process crashes and restarts.               *)
(***************************************************************************)
EXTENDS Integers, Sequences, FiniteSets

CONSTANTS Order,        \* TRACK_EVAL_ORDER
          Behavioural,  \* tracks that need inference: all but repositories
          LocalCorpus,  \* tracks with a development corpus in the checkout
          Agents,       \* the frozen participants of a round
          Workers,      \* AGENT_CONCURRENCY
          WallShortage, \* may an agent use up its round wall cap?
          MaxRound,     \* bound: rounds of a track that are served
          WindowsRecur, \* do submission windows go on beyond that bound?
          MaxCrashes    \* bound: crashes

Tracks == {Order[i] : i \in 1..Len(Order)}
Rounds == 1..MaxRound

ASSUME ConstantsAssumption ==
  /\ Order \in Seq(STRING) /\ Len(Order) > 0
  /\ \A i, j \in 1..Len(Order) : Order[i] = Order[j] => i = j
  /\ Behavioural \subseteq Tracks /\ LocalCorpus \subseteq Tracks
  /\ IsFiniteSet(Agents) /\ Workers \in Nat \ {0}
  /\ MaxRound \in Nat /\ MaxCrashes \in Nat
  /\ WallShortage \in BOOLEAN /\ WindowsRecur \in BOOLEAN

VARIABLES
  round, phase,     \* the backend's current round of each track (0: none yet)
  rows,             \* the rows it accepted from this validator
  proxyUp,          \* the inference proxy answers /healthz
  stable,           \* no fault happens any more
  pc, k,            \* main thread: where, and at which track of Order
  roundIds,         \* round_ids of the pass (0: not in it)
  doneRounds, failedTracks, scoredTracks, retryWait,
  roundScores,      \* _round_scores: rows of the pass
  pending, running, tainted, futures,   \* the pool; runs hit by an outage
  attempted, gotVerdict,                \* _track_attempted, _track_scored > 0
  raised,           \* the as_completed loop was left by an InfraFailure
  unread,           \* history: tracks of the pass whose rows were not read back
  crashes,
  fate              \* history: what became of a participant in a round

backend == <<round, phase, rows>>
loop    == <<roundIds, doneRounds, retryWait>>
pool    == <<pending, running, tainted, futures, attempted, gotVerdict, raised>>
pass    == <<k, failedTracks, scoredTracks, roundScores, unread>>
vars == <<backend, proxyUp, stable, pc, loop, pool, pass, crashes, fate>>

track == Order[k]                 \* the track in evaluation
rid   == roundIds[track]          \* and its round

\* A row is worth what the agent earned ("own"), or is the zero an agent gets
\* when the proxy was down under it ("outage"); the program sees two scores.
NoRow   == "none"
Scores  == {"own", "outage"}
NoFuture == "none"

NoScores  == [t \in Tracks |-> [a \in Agents |-> NoRow]]
NoFutures == [a \in Agents |-> NoFuture]
NoRounds  == [t \in Tracks |-> 0]

Init ==
  /\ round = [t \in Tracks |-> 0] /\ phase = [t \in Tracks |-> "open"]
  /\ rows = [t \in Tracks |-> [r \in Rounds |-> [a \in Agents |-> NoRow]]]
  /\ proxyUp = TRUE /\ stable = FALSE /\ crashes = 0
  /\ fate = [t \in Tracks |-> [r \in Rounds |-> [a \in Agents |-> "none"]]]
  /\ pc = "idle" /\ k = 1 /\ roundIds = NoRounds /\ doneRounds = {}
  /\ retryWait = FALSE /\ failedTracks = {} /\ scoredTracks = {}
  /\ roundScores = NoScores /\ unread = {}
  /\ pending = {} /\ running = {} /\ tainted = {} /\ futures = NoFutures
  /\ attempted = FALSE /\ gotVerdict = FALSE /\ raised = FALSE

-----------------------------------------------------------------------------
(* _begin_round                                                             *)

\* Beyond the bound a track has its submission windows, but serves no round.
Unevaluated ==
  {t \in Tracks : round[t] \in Rounds /\ <<t, round[t]>> \notin doneRounds}

\* Mutant: a pass waits until every track has a round.
SomethingToDoEverywhere == Unevaluated = Tracks
SomethingToDo == Unevaluated # {}

\* One poll of all tracks; a submission window on any of them stops it.
Poll ==
  /\ pc = "idle" /\ ~retryWait
  /\ \A t \in Tracks : phase[t] = "open"
  /\ SomethingToDo
  /\ roundIds' = [t \in Tracks |-> IF t \in Unevaluated THEN round[t] ELSE 0]
  /\ pc' = "track"
  /\ UNCHANGED <<backend, proxyUp, stable, doneRounds, retryWait, pool, pass,
                 crashes, fate>>

\* Too early, a call refused or unanswered, a window open, or nothing to do.
PollInVain == pc = "idle" /\ UNCHANGED vars

RetryElapses ==
  /\ retryWait /\ pc = "idle" /\ retryWait' = FALSE
  /\ UNCHANGED <<backend, proxyUp, stable, pc, roundIds, doneRounds, pool, pass,
                 crashes, fate>>

-----------------------------------------------------------------------------
(* _run_track, up to the pool                                               *)

\* Mutant: the loop runs past the last track.
NextTrackUnbounded == k' = k + 1 /\ pc' = "track"
NextTrack == k' = k + 1 /\ pc' = (IF k = Len(Order) THEN "end" ELSE "track")

trackFrame == <<backend, proxyUp, stable, loop, roundScores, unread, crashes>>

\* The track needs the proxy, and it is not ready.
NotReady == track \in Behavioural /\ ~proxyUp

\* The task set or an agent cannot be fetched, or the proxy is not ready.
TrackFails ==
  /\ pc = "track"
  /\ \/ rid > 0 /\ (~stable \/ NotReady)
     \/ rid = 0 /\ track \in LocalCorpus /\ NotReady
  /\ failedTracks' = failedTracks \cup {track} /\ NextTrack
  /\ UNCHANGED <<trackFrame, scoredTracks, pool, fate>>

\* No task set: the track is not in the pass, or the backend served no task.
TrackSkipped ==
  /\ pc = "track" /\ NextTrack
  /\ \/ rid = 0 /\ track \notin LocalCorpus /\ UNCHANGED fate
     \/ /\ rid > 0 /\ ~stable
        /\ fate' = [fate EXCEPT ![track][rid] = [a \in Agents |-> "unserved"]]
  /\ UNCHANGED <<trackFrame, failedTracks, scoredTracks, pool>>

\* Outside the pass but with a local corpus: evaluated with no participants.
TrackBlank ==
  /\ pc = "track" /\ rid = 0 /\ track \in LocalCorpus /\ ~NotReady
  /\ scoredTracks' = scoredTracks \cup {track} /\ NextTrack
  /\ UNCHANGED <<trackFrame, failedTracks, pool, fate>>

\* Mutant: agents scored in an earlier pass are evaluated again.
ToEvaluateAll(runnable, resumed) == runnable
ToEvaluate(runnable, resumed) == runnable \ resumed

\* _fetch_agents: a participant whose code is refused is dropped.
Runnable(refused) == Agents \ refused

\* _prior_round_results: the rows the backend holds, none when it does not answer.
Resumed(runnable, answered) ==
  {a \in runnable : answered /\ rows[track][rid][a] # NoRow}

\* The participants are fetched, the rows the backend holds are resumed, the
\* rest is handed to the pool.
TrackStarts ==
  /\ pc = "track" /\ rid > 0 /\ ~NotReady
  /\ \E refused \in SUBSET Agents, answered \in BOOLEAN :
       /\ stable => refused = {} /\ answered
       /\ LET runnable == Runnable(refused)
              resumed  == Resumed(runnable, answered)
          IN  /\ pending' = ToEvaluate(runnable, resumed)
              /\ unread' = IF answered THEN unread ELSE unread \cup {track}
              /\ roundScores' = [roundScores EXCEPT ![track] =
                   [a \in Agents |-> IF a \in resumed THEN rows[track][rid][a]
                                     ELSE NoRow]]
              /\ fate' = [fate EXCEPT ![track][rid] = [a \in Agents |->
                   IF a \in refused THEN "unfetched"
                   ELSE IF a \in resumed THEN "evaluated" ELSE "none"]]
  /\ pc' = "pool"
  /\ UNCHANGED <<backend, proxyUp, stable, loop, running, tainted, futures,
                 attempted, gotVerdict, raised, k, failedTracks, scoredTracks,
                 crashes>>

\* The pass is over: nothing reads its locals and rows before the next clears them.
PassOver ==
  /\ pc' = "idle" /\ k' = 1 /\ roundIds' = NoRounds
  /\ failedTracks' = {} /\ scoredTracks' = {} /\ roundScores' = NoScores
  /\ unread' = {}

\* Any other exception out of run_round reaches run(), which polls again.
PassRaises ==
  /\ pc = "track" /\ ~stable /\ PassOver
  /\ UNCHANGED <<backend, proxyUp, stable, doneRounds, retryWait, pool, crashes,
                 fate>>

-----------------------------------------------------------------------------
(* The thread pool                                                          *)

poolFrame == <<backend, proxyUp, stable, pc, loop, pass, crashes>>

WorkerStarts(a) ==
  /\ pc = "pool" /\ a \in pending /\ Cardinality(running) < Workers
  /\ pending' = pending \ {a} /\ running' = running \cup {a}
  /\ tainted' = IF proxyUp THEN tainted ELSE tainted \cup {a}
  /\ UNCHANGED <<poolFrame, futures, attempted, gotVerdict, raised, fate>>

\* _score_agent returns a score with or without any verdict behind it, or it
\* raises: InfraFailure, or any other exception.  A used-up wall cap makes it
\* raise as well (see WallCapIsAgentFault in Executor).
WorkerEnds(a, result) ==
  /\ a \in running /\ running' = running \ {a} /\ tainted' = tainted \ {a}
  /\ (result \in {"infra", "error"}) => ~stable \/ WallShortage
  /\ (result = "outage") => a \in tainted /\ track \in Behavioural
  /\ futures' = [futures EXCEPT ![a] = result]
  /\ IF track \in Behavioural /\ result \in {"verdict", "noverdict", "outage"}
       THEN attempted' = TRUE /\ gotVerdict' = (gotVerdict \/ result = "verdict")
       ELSE UNCHANGED <<attempted, gotVerdict>>
  /\ UNCHANGED <<poolFrame, pending, raised, fate>>

Results == {"verdict", "noverdict", "outage", "infra", "error"}

\* What a POST of a track's rows leaves in the backend.
Upsert(t, scores) ==
  [rows EXCEPT ![t][roundIds[t]] = [a \in Agents |->
     IF scores[a] = NoRow THEN rows[t][roundIds[t]][a] ELSE scores[a]]]

Submit(t, scores) == rows' = Upsert(t, scores) \/ (~stable /\ UNCHANGED rows)

\* as_completed yields a future: the score is kept and the track submitted, an
\* InfraFailure leaves the loop, any other exception drops the agent.
TakeFuture(a) ==
  /\ pc = "pool" /\ ~raised /\ futures[a] # NoFuture
  /\ futures' = [futures EXCEPT ![a] = NoFuture]
  /\ \/ /\ futures[a] \in {"verdict", "noverdict", "outage"}
        /\ roundScores' = [roundScores EXCEPT ![track][a] =
             IF futures[a] = "outage" THEN "outage" ELSE "own"]
        /\ Submit(track, roundScores'[track])
        /\ fate' = [fate EXCEPT ![track][rid][a] = "evaluated"]
        /\ UNCHANGED raised
     \/ /\ futures[a] = "infra" /\ raised' = TRUE
        /\ UNCHANGED <<roundScores, rows, fate>>
     \/ /\ futures[a] = "error"
        /\ fate' = [fate EXCEPT ![track][rid][a] = "errored"]
        /\ UNCHANGED <<roundScores, rows, raised>>
  /\ UNCHANGED <<round, phase, proxyUp, stable, pc, loop, pending, running,
                 tainted, attempted, gotVerdict, k, failedTracks, scoredTracks,
                 unread, crashes>>

\* Leaving the with block waits for the pool, also when an exception left it.
PoolDrained ==
  /\ pending = {} /\ running = {}
  /\ raised \/ \A a \in Agents : futures[a] = NoFuture

TrackEnds ==
  /\ pc = "pool" /\ PoolDrained
  /\ IF raised \/ (attempted /\ ~gotVerdict /\ ~proxyUp)
       THEN failedTracks' = failedTracks \cup {track} /\ UNCHANGED scoredTracks
       ELSE scoredTracks' = scoredTracks \cup {track} /\ UNCHANGED failedTracks
  /\ futures' = NoFutures
  /\ attempted' = FALSE /\ gotVerdict' = FALSE /\ raised' = FALSE
  /\ NextTrack /\ UNCHANGED <<trackFrame, pending, running, tainted, fate>>

-----------------------------------------------------------------------------
(* The end of a pass                                                        *)

Finished(t) == roundIds[t] > 0 /\ t \notin failedTracks

\* Mutant: the failed tracks of a pass are done with the others.
NewlyDoneAll == {<<t, roundIds[t]>> : t \in {u \in Tracks : roundIds[u] > 0}}
NewlyDone == {<<t, roundIds[t]>> : t \in {u \in Tracks : Finished(u)}}

Abstains ==
  /\ pc = "end" /\ scoredTracks = {} /\ PassOver /\ retryWait' = TRUE
  /\ UNCHANGED <<backend, proxyUp, stable, doneRounds, pool, crashes, fate>>

\* _submit_results sends the rows of every track once more, failed or not.
RoundEnds ==
  /\ pc = "end" /\ scoredTracks # {}
  /\ \E lost \in SUBSET Tracks :
       /\ stable => lost = {}
       /\ rows' = [t \in Tracks |-> IF roundIds[t] = 0 \/ t \in lost THEN rows[t]
                                    ELSE Upsert(t, roundScores[t])[t]]
  /\ doneRounds' = doneRounds \cup NewlyDone
  /\ retryWait' = (failedTracks # {}) /\ PassOver
  /\ UNCHANGED <<round, phase, proxyUp, stable, pool, crashes, fate>>

-----------------------------------------------------------------------------
(* The environment                                                          *)

CrashRestart ==
  /\ ~stable /\ crashes < MaxCrashes /\ crashes' = crashes + 1
  /\ pc' = "idle" /\ k' = 1 /\ roundIds' = NoRounds /\ doneRounds' = {}
  /\ retryWait' = FALSE /\ failedTracks' = {} /\ scoredTracks' = {}
  /\ roundScores' = NoScores /\ unread' = {}
  /\ pending' = {} /\ running' = {} /\ tainted' = {} /\ futures' = NoFutures
  /\ attempted' = FALSE /\ gotVerdict' = FALSE /\ raised' = FALSE
  /\ UNCHANGED <<backend, proxyUp, stable, fate>>

procFrame == <<rows, pc, loop, pass, crashes, fate>>

\* A window opens and brings the next round, which supersedes the last one.
SubmissionOpens(t) ==
  /\ phase[t] = "open" /\ (round[t] < MaxRound \/ WindowsRecur)
  /\ round' = [round EXCEPT ![t] = IF @ > MaxRound THEN @ ELSE @ + 1]
  /\ phase' = [phase EXCEPT ![t] = "submission"]
  /\ UNCHANGED <<proxyUp, stable, pool, procFrame>>

SubmissionCloses(t) ==
  /\ phase[t] = "submission" /\ phase' = [phase EXCEPT ![t] = "open"]
  /\ UNCHANGED <<round, proxyUp, stable, pool, procFrame>>

ProxyGoesDown ==
  /\ proxyUp /\ ~stable /\ proxyUp' = FALSE /\ tainted' = running
  /\ UNCHANGED <<round, phase, stable, pending, running, futures, attempted,
                 gotVerdict, raised, procFrame>>

ProxyComesUp ==
  /\ ~proxyUp /\ proxyUp' = TRUE
  /\ UNCHANGED <<round, phase, stable, pool, procFrame>>

FaultsCease ==
  /\ ~stable /\ stable' = TRUE
  /\ UNCHANGED <<round, phase, proxyUp, pool, procFrame>>

MainThread == Poll \/ PollInVain \/ TrackFails \/ TrackSkipped \/ TrackBlank
              \/ TrackStarts \/ PassRaises \/ (\E a \in Agents : TakeFuture(a))
              \/ TrackEnds \/ Abstains \/ RoundEnds

Next ==
  \/ MainThread \/ RetryElapses
  \/ \E a \in Agents : WorkerStarts(a) \/ \E res \in Results : WorkerEnds(a, res)
  \/ CrashRestart \/ ProxyGoesDown \/ ProxyComesUp \/ FaultsCease
  \/ \E t \in Tracks : SubmissionOpens(t) \/ SubmissionCloses(t)

\* The loop and the workers go on (evaluations are bounded by wall caps), time
\* passes, submission windows close, and in the end faults cease.
Fairness ==
  /\ WF_vars(MainThread) /\ WF_vars(RetryElapses)
  /\ \A a \in Agents : WF_vars(WorkerStarts(a))
                       /\ WF_vars(\E res \in Results : WorkerEnds(a, res))
  /\ \A t \in Tracks : WF_vars(SubmissionCloses(t))
  /\ WF_vars(ProxyComesUp) /\ WF_vars(FaultsCease)

Spec == Init /\ [][Next]_vars
FairSpec == Spec /\ Fairness
-----------------------------------------------------------------------------
(* What must hold                                                           *)

Rows == [Agents -> Scores \cup {NoRow}]
Fates == {"none", "evaluated", "unfetched", "errored", "unserved"}

\* Every variable stays in its domain.
TypeOK ==
  /\ round \in [Tracks -> 0..MaxRound + 1] /\ phase \in [Tracks -> {"submission", "open"}]
  /\ rows \in [Tracks -> [Rounds -> Rows]]
  /\ proxyUp \in BOOLEAN /\ stable \in BOOLEAN
  /\ pc \in {"idle", "track", "pool", "end"} /\ k \in 1..Len(Order) + 1
  /\ pc # "end" => k \in 1..Len(Order)
  /\ roundIds \in [Tracks -> 0..MaxRound] /\ (pc = "pool" => rid > 0)
  /\ doneRounds \in SUBSET (Tracks \X Rounds) /\ retryWait \in BOOLEAN
  /\ failedTracks \in SUBSET Tracks /\ scoredTracks \in SUBSET Tracks
  /\ roundScores \in [Tracks -> Rows] /\ unread \in SUBSET Tracks
  /\ pending \in SUBSET Agents /\ running \in SUBSET Agents /\ tainted \in SUBSET running
  /\ futures \in [Agents -> Results \cup {NoFuture}]
  /\ attempted \in BOOLEAN /\ gotVerdict \in BOOLEAN /\ raised \in BOOLEAN
  /\ crashes \in 0..MaxCrashes /\ fate \in [Tracks -> [Rounds -> [Agents -> Fates]]]

\* A round is done only when each of its participants was evaluated in it, was
\* not served by the backend, or raised: never after its track failed, whatever
\* passes, retries and resumptions led there.
DoneMeansEvaluated ==
  \A d \in doneRounds : \A a \in Agents : fate[d[1]][d[2]][a] # "none"

\* The ledger of the rounds as a reader sees it: the rows the backend holds, who
\* was dealt with, the rounds this process calls done.
Ledger == INSTANCE RoundLedger WITH
            row    <- rows,
            dealt  <- [t \in Tracks |-> [r \in Rounds |->
                         {a \in Agents : fate[t][r][a] # "none"}]],
            closed <- doneRounds,
            blind  <- unread

\* The loop keeps the ledger: through passes, retries, restarts and repeated
\* submissions an accepted row is never replaced (unless the validator could
\* not read its rows back when it took up the track), a round closes only when
\* each participant was dealt with, and is not touched again before a restart.
KeepsLedger == Ledger!Spec

\* An open round is evaluated or superseded in the end.
RoundsGetDone ==
  \A t \in Tracks, r \in Rounds :
    (round[t] = r /\ phase[t] = "open") ~> (<<t, r>> \in doneRounds \/ round[t] # r)

\* The loop is ready to poll and no track is in its submission window.
Gap == pc = "idle" /\ ~retryWait /\ \A t \in Tracks : phase[t] = "open"

\* The windows leave a gap again and again, and one outlasts the poll interval.
PollsMeetGaps == []<>Gap /\ SF_vars(Poll)

\* Once faults cease an open round is evaluated or superseded, as long as polls
\* meet gaps between the windows: no failed track, retry timer, or superseded
\* or finished round of another track starves it.
OpenRoundDone == PollsMeetGaps => RoundsGetDone

-----------------------------------------------------------------------------
(* What the documentation says and the code does not do                     *)

\* "A partial vector is never submitted": a pass with a failed track sets
\* weights from the others.
NoPartialVector == [][RoundEnds => failedTracks = {}]_doneRounds

\* Zeros of an outage never count: they are submitted before the track fails
\* and resumed as final by the retry.
OutageNeverFinal ==
  \A d \in doneRounds : \A a \in Agents : rows[d[1]][d[2]][a] # "outage"

\* The server persists the results: the last submission of a round that is
\* lost is not sent again.
DoneRowsAccepted ==
  \A d \in doneRounds : \A a \in Agents :
    fate[d[1]][d[2]][a] = "evaluated" => rows[d[1]][d[2]][a] # NoRow

\* A participant whose code cannot be fetched makes the validator abstain: a
\* rejected fetch is taken for an agent that does not exist.
NoParticipantUnfetched ==
  \A d \in doneRounds : \A a \in Agents : fate[d[1]][d[2]][a] # "unfetched"

\* Artifacts that cannot be fetched make the validator abstain: a task set
\* that came back empty ends the round for its track.
NoTrackUnserved ==
  \A d \in doneRounds : \A a \in Agents : fate[d[1]][d[2]][a] # "unserved"

\* An agent that exceeds its round wall cap has its remaining repetitions fail,
\* and is scored: the docker command it expires in fails the whole track, pass
\* after pass, with no fault left in the system and gaps between the windows.
WallCapScores == PollsMeetGaps => RoundsGetDone

\* When the window of a round closes its evaluation begins: a window of any
\* track stops the poll of all, so windows that overlap for ever starve an open
\* round, however often the loop polls.
WindowsStarveNone == SF_vars(Poll) => RoundsGetDone

\* The local corpus is never used when the backend serves the task set: in a
\* retry pass a track already done is "evaluated" on it, with no participant,
\* and its empty score list takes the place of the round's.
LocalCorpusUnused ==
  \A t \in scoredTracks : roundIds[t] = 0 => <<t, round[t]>> \notin doneRounds
=============================================================================
