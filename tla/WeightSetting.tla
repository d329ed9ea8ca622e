--------------------------- MODULE WeightSetting ---------------------------
(***************************************************************************)
(* The validator's carried state and its weight vote (neurons/validator.py *)
(* set_weights and what it calls): three files on disk, the read-back of   *)
(* the validator's own scores from the backend, the operator's pause,      *)
(* reserve and reset switches, and the push to the chain.  One main thread *)
(* runs it; the operator, the backend and crashes interleave with it at    *)
(* every server call and every file operation.                             *)
(*                                                                         *)
(* A track's scores are abstracted to a stamp, the number of the track     *)
(* evaluation that made the oldest of their rows (0: there is no row), the *)
(* weight EMA to the set of stamps its value draws on ({}: no file, or an  *)
(* empty one).                                                             *)
(***************************************************************************)
EXTENDS Integers

CONSTANTS Tracks,      \* the four tracks
          MaxPasses,   \* bound: evaluations of a track
          MaxEpoch,    \* bound: operator resets
          MaxFaults,   \* bound: crashes, and answers that lack a key
          DiskFaults,  \* may unlink and write_text raise OSError?
          None         \* Python's None for scores_by_track

Passes  == 0..MaxPasses
Absent  == -1                             \* the dict has no such key
NoRows  == [t \in Tracks |-> 0]
NoKeys  == [t \in Tracks |-> Absent]

ASSUME ConstantsAssumption ==
  /\ MaxPasses \in Nat /\ MaxEpoch \in Nat /\ MaxFaults \in Nat
  /\ DiskFaults \in BOOLEAN
  /\ None \notin [Tracks -> Int]

VARIABLES
  opEpoch, opPaused, opReserved,  \* the operator's switches in the backend
  srvScores,                      \* the backend's most recent scores per track
  scoresFile, emaFile, epochFile, \* track_scores, weights_ema, scores_epoch
  pc, cause, call,                \* where the main thread is, and why
  running, paused, reserved,      \* _round_running, _emissions_paused, _reserved_*
  arg, carried, newEpoch,         \* locals of set_weights, _scores_from_server
  left, rows, scored,             \* run_round: tracks to come, _round_scores, result
  seeds,                          \* tracks with a seed in _round_seeds
  out, chain,                     \* the vector to push, the vector on chain
  passes, crashes, blanks,
  cutAt, spared,                  \* history of each reset: the stamps made before
                                  \* it, and those of them still in the validator's
                                  \* hand, see InHand
  acked, wipes                    \* history: the last reset acknowledged, and how
                                  \* often the carried files were wiped

opVars   == <<opEpoch, opPaused, opReserved, cutAt, spared>>
files    == <<scoresFile, emaFile, epochFile>>
flags    == <<running, paused, reserved>>
round    == <<left, rows, scored, seeds>>
counters == <<passes, crashes, blanks>>
history  == <<acked, wipes>>
vars == <<opVars, srvScores, files, flags, pc, cause, call, arg, carried,
          newEpoch, round, out, chain, counters, history>>

Vector(src) == [src |-> src, reserved |-> reserved]    \* apply_reserved_share
ReservedOnly == [src |-> {}, reserved |-> TRUE]
NoVector == [src |-> {}, reserved |-> FALSE]

Init ==
  /\ opEpoch = 0
  /\ cutAt = [e \in 0..MaxEpoch |-> 0] /\ spared = [e \in 0..MaxEpoch |-> {}]
  /\ opPaused \in BOOLEAN /\ opReserved \in BOOLEAN
  /\ srvScores = NoRows
  /\ scoresFile = NoRows /\ emaFile = {} /\ epochFile = 0
  /\ pc = "read" /\ cause = "refresh" /\ call = "arg"
  /\ running = FALSE /\ paused = FALSE /\ reserved = FALSE
  /\ arg = None /\ carried = NoKeys /\ newEpoch = 0
  /\ left = {} /\ rows = NoRows /\ scored = {} /\ seeds = {}
  /\ out = NoVector /\ chain = NoVector
  /\ passes = 0 /\ crashes = 0 /\ blanks = 0
  /\ acked = 0 /\ wipes = 0

-----------------------------------------------------------------------------
(* _scores_from_server, called for the argument ("arg") or by set_weights   *)

Answer == [t \in Tracks |-> IF srvScores[t] = 0 THEN Absent ELSE srvScores[t]]

Return ==
  /\ pc' = (IF call = "arg" THEN "read" ELSE "decide") /\ call' = "set"
  /\ newEpoch' = 0

\* The answered epoch is the acknowledged one.
\* Mutant: an epoch counts as seen unless it went down.
EpochSeenUnlessLower(epoch) == epoch >= epochFile
EpochSeen(epoch) == epoch = epochFile

\* get_my_results answers with these values.
Reads(epoch, pause, reserve, scores) ==
  /\ pc = "read"
  /\ paused' = pause /\ reserved' = reserve
  /\ \/ call = "arg" /\ arg' = scores /\ UNCHANGED carried
     \/ call = "set" /\ carried' = scores /\ UNCHANGED arg
  /\ IF EpochSeen(epoch)
       THEN Return
       ELSE pc' = "clear_scores" /\ newEpoch' = epoch /\ UNCHANGED call
  /\ UNCHANGED <<opVars, srvScores, files, running, cause, round, out, chain,
                 passes, crashes, history>>

\* A whole answer is one snapshot of the switches, the epoch and the scores.
ReadServer ==
  Reads(opEpoch, opPaused, opReserved, Answer) /\ UNCHANGED blanks

\* A 2xx answer with an empty body is {}, and any key may be missing: each is
\* read as its default, a missing epoch as epoch 0.
ReadServerBlank ==
  /\ crashes + blanks < MaxFaults /\ blanks' = blanks + 1
  /\ \E epoch \in {opEpoch, 0}, scores \in {Answer, NoKeys},
        pause \in {opPaused, FALSE}, reserve \in {opReserved, FALSE} :
       Reads(epoch, pause, reserve, scores)

\* Mutant: the merge is handed None when the read-back failed.
FailedAnswerNone == None
FailedAnswer == NoKeys

\* Mutant: a failed call is taken for an empty answer.
ReadServerFailsAsEmpty == Reads(0, FALSE, FALSE, NoKeys) /\ UNCHANGED blanks

\* Any failure of the call returns None and leaves the switches as they were.
ReadServerFails ==
  /\ pc = "read"
  /\ \/ call = "arg" /\ arg' = None /\ UNCHANGED carried
     \/ call = "set" /\ carried' = FailedAnswer /\ UNCHANGED arg
  /\ Return
  /\ UNCHANGED <<opVars, srvScores, files, flags, cause, round, out, chain,
                 counters, history>>

\* _reset_carried_state: two unlinks, then the acknowledgement.
resetFrame == <<opVars, srvScores, flags, cause, arg, carried, round, out,
                chain, counters>>

\* Mutant: the epoch is acknowledged before the files are cleared.
ClearScoresAcknowledgedFirst ==
  /\ pc = "clear_scores" /\ pc' = "clear_ema"
  /\ epochFile' = newEpoch /\ acked' = newEpoch
  /\ scoresFile' = NoRows /\ wipes' = wipes + 1
  /\ UNCHANGED <<emaFile, call, newEpoch, resetFrame>>

ClearScores ==
  /\ pc = "clear_scores" /\ pc' = "clear_ema"
  /\ scoresFile' = NoRows \/ (DiskFaults /\ UNCHANGED scoresFile)
  /\ wipes' = wipes + 1
  /\ UNCHANGED <<emaFile, epochFile, call, newEpoch, acked, resetFrame>>

ClearEma ==
  /\ pc = "clear_ema" /\ pc' = "write_epoch"
  /\ emaFile' = {} \/ (DiskFaults /\ UNCHANGED emaFile)
  /\ UNCHANGED <<scoresFile, epochFile, call, newEpoch, history, resetFrame>>

WriteEpoch ==
  /\ pc = "write_epoch" /\ Return
  /\ epochFile' = newEpoch \/ (DiskFaults /\ UNCHANGED epochFile)
  /\ acked' = IF epochFile' > acked THEN epochFile' ELSE acked
  /\ UNCHANGED <<scoresFile, emaFile, wipes, resetFrame>>

-----------------------------------------------------------------------------
(* set_weights                                                              *)

\* set_weights returns and its locals go: to the evaluation, or to the loop.
Finish ==
  /\ pc' = (IF running THEN "evaluate" ELSE "idle") /\ cause' = "none"
  /\ arg' = None /\ carried' = NoKeys /\ out' = NoVector

PushNext(v) == pc' = "push" /\ out' = v /\ UNCHANGED <<cause, arg, carried>>

\* Mutant: the pause is looked at only when nothing is computed.
PausedIfIdle == paused /\ (running \/ arg = None)
Paused == paused

\* The branches in their order: paused, a round in flight, nothing scored, and
\* otherwise the computation, which starts by saving the merged scores.
Decide ==
  /\ pc = "decide"
  /\ \/ Paused /\ reserved /\ PushNext(ReservedOnly)
     \/ Paused /\ ~reserved /\ Finish
     \/ /\ ~Paused /\ (running \/ arg = None)
        /\ IF emaFile # {} THEN PushNext(Vector(emaFile)) ELSE Finish
     \/ /\ ~Paused /\ ~running /\ arg # None /\ pc' = "save_scores"
        /\ UNCHANGED <<cause, arg, carried, out>>
  /\ UNCHANGED <<opVars, srvScores, files, flags, call, newEpoch, round, chain,
                 counters, history>>

\* _all_track_scores: fresh over the server's over the file's.
Merged ==
  [t \in Tracks |-> IF arg[t] # Absent THEN arg[t]
                    ELSE IF carried[t] # Absent THEN carried[t]
                    ELSE scoresFile[t]]

SaveScores ==
  /\ pc = "save_scores" /\ pc' = "save_ema"
  /\ carried' = Merged
  /\ scoresFile' = Merged \/ (DiskFaults /\ UNCHANGED scoresFile)
  /\ UNCHANGED <<opVars, srvScores, emaFile, epochFile, flags, cause, call,
                 arg, newEpoch, round, out, chain, counters, history>>

\* compute_emission_weights over the tracks where some agent clears the
\* threshold, blended with the prior over the hotkeys that now earn.
SaveEma ==
  /\ pc = "save_ema"
  /\ \E cleared \in SUBSET {t \in Tracks : carried[t] > 0} :
       LET blended == {carried[t] : t \in cleared}
                        \cup (IF cleared = {} THEN {} ELSE emaFile)
       IN  /\ emaFile' = blended \/ (DiskFaults /\ UNCHANGED emaFile)
           /\ PushNext(Vector(blended))
  /\ UNCHANGED <<opVars, srvScores, scoresFile, epochFile, flags, call,
                 newEpoch, round, chain, counters, history>>

\* _push_weights: an empty vector is not pushed; no uid may match; the chain
\* may refuse, which only leaves the vector for the next refresh.
pushFrame == <<opVars, srvScores, files, flags, call, newEpoch, round,
               counters, history>>

PushAccepted ==
  /\ pc = "push" /\ out # NoVector /\ chain' = out
  /\ Finish /\ UNCHANGED pushFrame

PushMissed == pc = "push" /\ Finish /\ UNCHANGED <<chain, pushFrame>>

-----------------------------------------------------------------------------
(* run and _execute_round                                                   *)

\* Mutant: a refresh runs only while nothing was ever computed.
RefreshDueIfEmpty == pc = "idle" /\ emaFile = {}
RefreshDue == pc = "idle"

\* set_weights(self._scores_from_server()): any poll may find WEIGHT_REFRESH_S
\* gone since the last vote.
StartRefresh ==
  /\ RefreshDue
  /\ pc' = "read" /\ call' = "arg" /\ cause' = "refresh"
  /\ UNCHANGED <<opVars, srvScores, files, flags, arg, carried, newEpoch, round,
                 out, chain, counters, history>>

\* An open round: hold the prior vector with set_weights(None), then run_round,
\* which forgets the last round first.
StartRound ==
  /\ pc = "idle"
  /\ running' = TRUE
  /\ pc' = "read" /\ call' = "set" /\ cause' = "hold" /\ arg' = None
  /\ left' = Tracks /\ rows' = NoRows /\ scored' = {} /\ seeds' = {}
  /\ UNCHANGED <<opVars, srvScores, files, paused, reserved, carried, newEpoch,
                 out, chain, counters, history>>

evalFrame == <<opVars, files, paused, reserved, carried, newEpoch, out, chain,
               crashes, blanks, history>>

\* The tracks are evaluated one after the other: t is the current one.
Current(t) == t \in left /\ \A u \in left \ {t} : rows[u] = 0

\* The first rows of the current track: agents scored now, or rows that an
\* earlier evaluation has submitted and this one resumes.
TrackScored(t) ==
  /\ pc = "evaluate" /\ Current(t) /\ rows[t] = 0
  /\ \/ /\ passes < MaxPasses /\ passes' = passes + 1
        /\ rows' = [rows EXCEPT ![t] = passes']
     \/ /\ srvScores[t] > 0 /\ rows' = [rows EXCEPT ![t] = srvScores[t]]
        /\ UNCHANGED passes
  /\ UNCHANGED <<srvScores, running, pc, cause, call, arg, left, scored, seeds,
                 evalFrame>>

\* After every scored agent the track's rows are submitted; it may not arrive.
Submits(t) ==
  /\ pc = "evaluate" /\ Current(t) /\ rows[t] > 0
  /\ srvScores' = [srvScores EXCEPT ![t] = rows[t]]
  /\ UNCHANGED <<running, pc, cause, call, arg, round, passes, evalFrame>>

\* A track is scored, with no row if it has no participant; or fails, whatever
\* was scored of it, or has no task set.
TrackEnds(t) ==
  /\ pc = "evaluate" /\ Current(t) /\ left' = left \ {t}
  /\ \/ scored' = scored \cup {t} /\ seeds' = seeds \cup {t}
     \/ UNCHANGED scored /\ rows[t] > 0 /\ seeds' = seeds \cup {t}
     \/ UNCHANGED scored /\ rows[t] = 0 /\ seeds' \in {seeds, seeds \cup {t}}
  /\ UNCHANGED <<srvScores, running, pc, cause, call, arg, rows, passes, evalFrame>>

\* run_round is over, and its locals go once set_weights has the result.
LeaveRound == /\ running' = FALSE /\ left' = {} /\ rows' = NoRows /\ scored' = {}
              /\ UNCHANGED <<seeds, passes, evalFrame>>

\* The rows of every track, also of those that failed, are submitted once more.
EvaluationEnds ==
  /\ pc = "evaluate" /\ left = {} /\ scored # {} /\ LeaveRound
  /\ \E delivered \in SUBSET {t \in Tracks : rows[t] > 0} :
       srvScores' = [t \in Tracks |-> IF t \in delivered THEN rows[t]
                                      ELSE srvScores[t]]
  /\ pc' = "read" /\ call' = "set" /\ cause' = "round"
  /\ arg' = [t \in Tracks |-> IF t \in scored THEN rows[t] ELSE Absent]

\* No track was scored, or block_info failed before the first one: abstain.
EvaluationAbstains ==
  /\ pc = "evaluate" /\ LeaveRound
  /\ (left = {} /\ scored = {}) \/ (left = Tracks /\ rows = NoRows)
  /\ pc' = "read" /\ call' = "set" /\ cause' = "abstain" /\ arg' = None
  /\ UNCHANGED srvScores

\* Any other exception reaches run(), which logs it and polls again.
EvaluationRaises ==
  /\ pc = "evaluate" /\ LeaveRound
  /\ pc' = "idle" /\ UNCHANGED <<srvScores, cause, call, arg>>

-----------------------------------------------------------------------------
(* The environment                                                          *)

\* write_text truncates before it writes: a crash may leave the file being
\* written empty, which every loader reads as no state (epoch 0).
CrashRestart ==
  /\ crashes + blanks < MaxFaults /\ crashes' = crashes + 1
  /\ scoresFile' = scoresFile \/ (pc = "save_scores" /\ scoresFile' = NoRows)
  /\ emaFile' = emaFile \/ (pc = "save_ema" /\ emaFile' = {})
  /\ epochFile' = epochFile \/ (pc = "write_epoch" /\ epochFile' = 0)
  /\ pc' = "read" /\ call' = "arg" /\ cause' = "refresh"
  /\ running' = FALSE /\ paused' = FALSE /\ reserved' = FALSE
  /\ arg' = None /\ carried' = NoKeys /\ newEpoch' = 0
  /\ left' = {} /\ rows' = NoRows /\ scored' = {} /\ seeds' = {}
  /\ out' = NoVector
  /\ UNCHANGED <<opVars, srvScores, chain, passes, blanks, history>>

procFrame == <<files, flags, pc, cause, call, arg, carried, newEpoch, round,
               out, chain, counters, history>>

Clearing == pc \in {"clear_scores", "clear_ema", "write_epoch"}

\* The argument of a set_weights that has yet to read the backend.
ArgAhead ==
  arg # None /\ \/ pc = "read" /\ call = "set"
                \/ Clearing /\ call = "arg"

\* What the validator still carries past a reset: the rows of the round it is
\* evaluating, and the argument of a set_weights that is yet to read.
InHand == {rows[t] : t \in Tracks}
            \cup {p \in Passes : ArgAhead /\ \E t \in Tracks : arg[t] = p}

\* The operator clears the validator's state in the backend.
OperatorResets ==
  /\ opEpoch < MaxEpoch /\ opEpoch' = opEpoch + 1
  /\ cutAt' = [cutAt EXCEPT ![opEpoch + 1] = passes]
  /\ spared' = [spared EXCEPT ![opEpoch + 1] = InHand]
  /\ srvScores' = NoRows
  /\ UNCHANGED <<opPaused, opReserved, procFrame>>

OperatorToggles ==
  /\ \/ opPaused' = ~opPaused /\ UNCHANGED opReserved
     \/ opReserved' = ~opReserved /\ UNCHANGED opPaused
  /\ UNCHANGED <<opEpoch, cutAt, spared, srvScores, procFrame>>

MainThread ==
  \/ ReadServer \/ ReadServerBlank \/ ReadServerFails
  \/ ClearScores \/ ClearEma \/ WriteEpoch
  \/ Decide \/ SaveScores \/ SaveEma \/ PushAccepted \/ PushMissed
  \/ StartRefresh
  \/ \E t \in Tracks : TrackScored(t) \/ Submits(t) \/ TrackEnds(t)
  \/ EvaluationEnds \/ EvaluationAbstains \/ EvaluationRaises

Next == MainThread \/ StartRound \/ CrashRestart \/ OperatorResets \/ OperatorToggles

\* The loop in run() never stops, evaluation is bounded by wall caps and a refresh
\* falls due where no round opens; the backend and the chain answer some of an
\* endless row of calls.
Fairness == /\ WF_vars(MainThread)
            /\ SF_vars(ReadServer) /\ SF_vars(PushAccepted)

Spec == Init /\ [][Next]_vars
FairSpec == Spec /\ Fairness
-----------------------------------------------------------------------------
(* What must hold                                                           *)

Keys == [Tracks -> {Absent} \cup Passes]
Vectors == [src : SUBSET Passes, reserved : BOOLEAN]

\* Every variable stays in its domain; None only ever reaches arg.
TypeOK ==
  /\ opEpoch \in 0..MaxEpoch /\ opPaused \in BOOLEAN /\ opReserved \in BOOLEAN
  /\ cutAt \in [0..MaxEpoch -> Passes] /\ spared \in [0..MaxEpoch -> SUBSET Passes]
  /\ srvScores \in [Tracks -> Passes] /\ scoresFile \in [Tracks -> Passes]
  /\ emaFile \in SUBSET Passes /\ epochFile \in 0..MaxEpoch
  /\ pc \in {"idle", "read", "clear_scores", "clear_ema", "write_epoch", "decide",
             "save_scores", "save_ema", "push", "evaluate"}
  /\ cause \in {"none", "refresh", "hold", "round", "abstain"} /\ call \in {"arg", "set"}
  /\ running \in BOOLEAN /\ paused \in BOOLEAN /\ reserved \in BOOLEAN
  /\ arg \in Keys \cup {None} /\ carried \in Keys
  /\ newEpoch \in 0..MaxEpoch
  /\ left \in SUBSET Tracks /\ rows \in [Tracks -> Passes]
  /\ scored \in SUBSET Tracks /\ seeds \in SUBSET Tracks
  /\ out \in Vectors /\ chain \in Vectors
  /\ passes \in Passes /\ crashes \in 0..MaxFaults /\ blanks \in 0..MaxFaults
  /\ acked \in 0..MaxEpoch /\ wipes \in Nat

\* Stamp p is of before reset e, and nothing carried it past that reset.
Gone(p, e) == 0 < p /\ p <= cutAt[e] /\ p \notin spared[e]

\* Once the validator has acknowledged a reset, neither carried file ever again
\* holds anything scored before it, but what was in its hand when the operator
\* reset: not after a crash on the way, nor after an answer that lacks its
\* epoch has set the acknowledgement back to 0.
ResetHolds ==
  /\ \A t \in Tracks : ~Gone(scoresFile[t], acked)
  /\ \A p \in emaFile : ~Gone(p, acked)

\* The carried files are wiped once for a reset, once more for a crash, and
\* twice for an answer without its epoch (for epoch 0, then for the epoch the
\* next answer gives): a backend that is down or refuses wipes nothing.
WipesAccountedFor == wipes <= opEpoch + crashes + 2 * blanks

\* A lasting pause with a reserved hotkey ends in a vote for that hotkey alone,
\* through rounds, refused pushes and an unreachable backend.
PauseHonoured ==
  <>[](opPaused /\ opReserved) => []<>(chain = ReservedOnly)

\* When the operator stops pausing, the vector computed last is voted again
\* and again until the chain has taken it.
VoteRetried == <>[](~opPaused) => []<>(chain.src = emaFile \/ emaFile = {})

\* Every reset is seen and acknowledged in the end.
ResetSeen == []<>(epochFile = opEpoch)

-----------------------------------------------------------------------------
(* What the documentation says and the code does not do                     *)

\* "Abstaining means setting no weights that round": set_weights(None) pushes
\* the prior vector.
AbstainSetsNoWeights == [][chain' # chain => cause # "abstain"]_chain

\* The EMA is advanced per round, but every refresh blends once more.
BlendOncePerRound == [][pc = "save_ema" => cause = "round"]_emaFile

\* A reset drops every score made before it: those in the validator's hand are
\* saved after the acknowledgement.
ResetDropsScores ==
  \A t \in Tracks : scoresFile[t] > 0 => scoresFile[t] > cutAt[acked]

\* The carried scores are wiped only where the operator has reset: an answer
\* without its epoch wipes them too.
WipedOnlyByReset == wipes <= opEpoch + crashes

\* The acknowledgement is written only over cleared files: an unlink that
\* fails is logged and acknowledged all the same.
AcknowledgedWhenCleared ==
  [][epochFile' # epochFile => scoresFile' = NoRows /\ emaFile' = {}]_epochFile

\* Ties are broken by the round's seeds, on every validator alike: the salt is
\* made of the tracks the last pass of this process evaluated.
TieBreakUsesEverySeed ==
  pc = "save_ema" => \A t \in Tracks : carried[t] > 0 => t \in seeds
=============================================================================
