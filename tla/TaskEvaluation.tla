--------------------------- MODULE TaskEvaluation ---------------------------
(***************************************************************************)
(* How the validator scores one agent (neurons/validator.py _score_agent,  *)
(* _task_verdict, _score_repo_task, _run_rep, _attest), composed with the  *)
(* inference proxy it meters the agent through: task after task it opens a *)
(* session, runs the repetitions, reads the meter, and takes a verdict or  *)
(* refuses the run; a repository's task has neither session nor meter, and *)
(* its repetitions are scored, not counted as votes.  The agent's calls    *)
(* and their answers interleave with it, and outlive the repetition that   *)
(* made them.                                                              *)
(***************************************************************************)
EXTENDS InferenceProxy, Sequences, Functions

CONSTANTS TaskOrder,        \* the task set, each task by its nonce
          Malicious,        \* the tasks labelled malicious
          Repetitions,      \* budgets["repetitions"]
          RequireInference, \* PHYLAX_REQUIRE_INFERENCE
          MaxPasses         \* bound: evaluations of the agent

ASSUME EvaluationAssumption ==
  /\ TaskOrder \in Seq(Nonces) /\ Len(TaskOrder) > 0 /\ Malicious \subseteq Nonces
  /\ Repetitions \in Nat \ {0} /\ RequireInference \in BOOLEAN /\ MaxPasses \in Nat

\* A nonce is made of the task's ref, and a task set is a sample without replacement
\* of a corpus: a directory, or a listing that names each of its sources once.
ASSUME DistinctTasks == IsInjective(TaskOrder)

VARIABLES
  repository,       \* is the agent one of the repositories track?
  wpc, task, reps,  \* the worker: where, at which task, repetitions begun
  wall,             \* TRUE while the agent's round wall cap is not consumed
  ordinals,         \* verdicts (or scores, from 1 for none) of the completed repetitions
  verdicts,         \* per task of the pass: what was tallied
  attested,         \* _round_attestations: <<task, rejected>>
  failureReason,    \* _failure_reasons[hotkey]
  submitted,        \* the row last sent to the backend
  passes

workerVars == <<repository, wpc, task, reps, wall, ordinals, verdicts, attested,
                failureReason, submitted, passes>>
vars == <<proxyVars, workerVars>>

n == TaskOrder[task]
NoVerdict == "none"
Verdicts == {"ALLOW", "WARN", "BLOCK"}
RepoScores == {"PAID", "UNPAID"}             \* the mean is above zero, or zero
Reasons  == {"inference_key_failed", "inference_upstream_error", "no_inference"}

Verdict == <<"ALLOW", "WARN", "BLOCK">>      \* by ordinal, from 1
NoVerdicts == [t \in Nonces |-> NoVerdict]

Init ==
  /\ ProxyInit /\ repository = FALSE
  /\ wpc = "idle" /\ task = 1 /\ reps = 0 /\ wall = TRUE /\ ordinals = <<>>
  /\ verdicts = NoVerdicts /\ attested = {} /\ failureReason = NoVerdict
  /\ submitted = [score |-> "zero", reason |-> NoVerdict] /\ passes = 0

-----------------------------------------------------------------------------
(* The meter                                                                *)

\* GET /metrics?nonce=..., when the token is shared and the proxy answers.
MetricsAnswer == [nonce |-> n, usage |-> metrics[n]]
Unread == [unread |-> TRUE]              \* _proxy_admin's {}

\* _inference_calls looks for the counter beside "usage", not in it.
CallsZeroUnread(answer) ==     \* Mutant: an unreadable meter counts as zero.
  IF "requests" \in DOMAIN answer THEN answer.requests ELSE 0
Calls(answer) ==
  IF answer = Unread THEN -1
  ELSE IF "requests" \in DOMAIN answer THEN answer.requests ELSE 0

Reason(answer) ==
  IF answer # Unread /\ answer.usage.keyFailed THEN "inference_key_failed"
  ELSE IF answer # Unread /\ answer.usage.failed THEN "inference_upstream_error"
  ELSE "no_inference"

\* An admin call is answered, or fails in any way and returns {}.
Answers == {Unread} \cup (IF metered THEN {MetricsAnswer} ELSE {})

-----------------------------------------------------------------------------
(* _score_agent                                                             *)

\* A retry pass, or a round with the same seed, uses the same nonces again.
BeginAgent ==
  /\ wpc = "idle" /\ passes < MaxPasses /\ passes' = passes + 1
  /\ repository' \in BOOLEAN
  /\ wpc' = (IF repository' THEN "rep" ELSE "session") /\ task' = 1 /\ wall' = TRUE
  /\ verdicts' = NoVerdicts /\ attested' = {}
  /\ UNCHANGED <<proxyVars, reps, ordinals, failureReason, submitted>>

TaskStart == IF repository THEN "rep" ELSE "session"

\* Mutant: the votes of one task are kept for the next.
NextTaskKeepingVotes ==
  /\ UNCHANGED <<repository, ordinals>> /\ reps' = 0
  /\ IF task < Len(TaskOrder) THEN wpc' = TaskStart /\ task' = task + 1
                              ELSE wpc' = "end" /\ UNCHANGED task
NextTask ==
  /\ ordinals' = <<>> /\ reps' = 0 /\ UNCHANGED repository
  /\ IF task < Len(TaskOrder) THEN wpc' = TaskStart /\ task' = task + 1
                              ELSE wpc' = "end" /\ UNCHANGED task

\* No key, no token or a proxy that does not answer leaves the task without one.
OpenSession ==
  /\ wpc = "session" /\ wpc' = "rep"
  /\ Register(n) \/ UNCHANGED proxyVars
  /\ UNCHANGED <<repository, task, reps, wall, ordinals, verdicts, attested,
                 failureReason, submitted, passes>>

RepStarts ==
  /\ wpc = "rep" /\ reps < Repetitions /\ wall
  /\ wpc' = "running" /\ reps' = reps + 1
  /\ UNCHANGED <<proxyVars, repository, task, wall, ordinals, verdicts, attested,
                 failureReason, submitted, passes>>

\* A completed repetition votes; one without a result, an observed probe, a
\* trace or an evidence gate (for a repository the gate alone) does not.  Its time counts against the wall cap.
RepEnds ==
  /\ wpc = "running" /\ wpc' = "rep"
  /\ UNCHANGED ordinals \/ \E o \in 1..3 : ordinals' = Append(ordinals, o)
  /\ wall' \in {wall, FALSE}
  /\ UNCHANGED <<proxyVars, repository, task, reps, verdicts, attested, failureReason,
                 submitted, passes>>

\* InfraFailure, or any other exception, takes the agent out of the pass.
RepRaises ==
  /\ wpc = "running" /\ wpc' = "idle" /\ ordinals' = <<>> /\ reps' = 0
  /\ UNCHANGED <<proxyVars, repository, task, wall, verdicts, attested, failureReason,
                 submitted, passes>>

\* The lower median of the votes.
Sorted(s) ==
  LET order == CHOOSE p \in Bijection(DOMAIN s, DOMAIN s) :
                 \A i, j \in DOMAIN s : i < j => s[p[i]] <= s[p[j]]
  IN  [i \in DOMAIN s |-> s[order[i]]]
MedianUpper(s) == Sorted(s)[Len(s) \div 2 + 1]      \* Mutant: the upper one.
Median(s) == Sorted(s)[(Len(s) - 1) \div 2 + 1]

\* Mutant: a consumed wall cap does not end the task.
RepsOverAll == wpc = "rep" /\ reps = Repetitions
RepsOver == wpc = "rep" /\ (reps = Repetitions \/ ~wall)

\* Mutant: the attestation of a refused run is not marked rejected.
AttestUnmarked(rejected) == attested' = attested \cup {<<n, FALSE>>}
Attest(rejected) == attested' = attested \cup {<<n, rejected>>}

Take == verdicts' = [verdicts EXCEPT ![n] = Verdict[Median(ordinals)]] /\ Attest(FALSE)

TaskFails ==
  /\ RepsOver /\ ordinals = <<>> /\ NextTask
  /\ UNCHANGED <<proxyVars, wall, verdicts, attested, failureReason, submitted, passes>>

TaskTaken ==
  /\ ~repository /\ RepsOver /\ ordinals # <<>>
  /\ ~RequireInference \/ \E answer \in Answers : Calls(answer) # 0
  /\ Take /\ NextTask
  /\ UNCHANGED <<proxyVars, wall, failureReason, submitted, passes>>

\* A repository's task is worth the mean of its completed repetitions.
RepoTaskTaken ==
  /\ repository /\ RepsOver /\ ordinals # <<>>
  /\ verdicts' = [verdicts EXCEPT ![n] =
       IF \E i \in DOMAIN ordinals : ordinals[i] > 1 THEN "PAID" ELSE "UNPAID"]
  /\ Attest(FALSE) /\ NextTask
  /\ UNCHANGED <<proxyVars, wall, failureReason, submitted, passes>>

TaskRefused ==
  /\ ~repository /\ RepsOver /\ ordinals # <<>> /\ RequireInference
  /\ \E answer \in Answers : Calls(answer) = 0
  /\ wpc' = "reason"
  /\ UNCHANGED <<proxyVars, repository, task, reps, wall, ordinals, verdicts, attested,
                 failureReason, submitted, passes>>

\* _inference_failure_reason asks the proxy once more.
ReasonNoted ==
  /\ wpc = "reason"
  /\ \E answer \in Answers : failureReason' = Reason(answer)
  /\ Attest(TRUE) /\ NextTask
  /\ UNCHANGED <<proxyVars, wall, verdicts, submitted, passes>>

-----------------------------------------------------------------------------
(* The score, and the row that goes to the backend                          *)

Tallied == {t \in Nonces : verdicts[t] # NoVerdict}
Flagged(t) == verdicts[t] \in {"WARN", "BLOCK"}

TP == Cardinality({t \in Tallied : t \in Malicious /\ Flagged(t)})
FN == Cardinality({t \in Tallied : t \in Malicious /\ ~Flagged(t)})
FP == Cardinality({t \in Tallied : t \notin Malicious /\ Flagged(t)})
TN == Cardinality({t \in Tallied : t \notin Malicious /\ ~Flagged(t)})

\* Whether 0.7 clamped MCC + 0.3 finding quality is above zero; quality is only
\* paid behind a correct verdict, on tasks that expect findings.
\* A repository agent gets the mean over all its tasks.
Positive(quality) ==
  IF repository THEN \E t \in Nonces : verdicts[t] = "PAID"
  ELSE TP * TN > FP * FN \/ (quality /\ TP + TN > 0)

\* The row carries the agent's last failure reason, whenever it was noted.
EndAgent ==
  /\ wpc = "end" /\ wpc' = "idle"
  /\ \E quality \in BOOLEAN :
       submitted' = [score |-> IF Positive(quality) THEN "positive" ELSE "zero",
                     reason |-> failureReason]
  /\ UNCHANGED <<proxyVars, repository, task, reps, wall, ordinals, verdicts, attested,
                 failureReason, passes>>

Worker == BeginAgent \/ OpenSession \/ RepStarts \/ RepEnds \/ RepRaises \/ TaskFails
          \/ TaskTaken \/ RepoTaskTaken \/ TaskRefused \/ ReasonNoted \/ EndAgent

\* The agent of a behavioural task calls the proxy while a repetition runs, under the task's nonce.
AgentInfers ==
  /\ wpc = "running" /\ ~repository /\ \E h \in Threads : Receive(h, n)
  /\ UNCHANGED workerVars

Proxy ==
  /\ ProxyRestarts \/ \E h \in Threads : HandlerStep(h)
  /\ UNCHANGED workerVars

Next == Worker \/ AgentInfers \/ Proxy

\* Every repetition ends by its budgets, every admin call by its timeout.
Spec == Init /\ [][Next]_vars
FairSpec == Spec /\ WF_vars(Worker)
-----------------------------------------------------------------------------
(* What must hold                                                           *)

\* Every variable stays in its domain.
TypeOK ==
  /\ ProxyTypeOK /\ repository \in BOOLEAN
  /\ wpc \in {"idle", "session", "rep", "running", "reason", "end"}
  /\ task \in 1..Len(TaskOrder) /\ reps \in 0..Repetitions /\ wall \in BOOLEAN
  /\ ordinals \in Seq(1..3) /\ Len(ordinals) <= reps
  /\ wpc = "running" => Len(ordinals) < reps
  /\ verdicts \in [Nonces -> (IF repository THEN RepoScores ELSE Verdicts) \cup {NoVerdict}]
  /\ attested \subseteq Nonces \X BOOLEAN
  /\ failureReason \in Reasons \cup {NoVerdict}
  /\ submitted.score \in {"zero", "positive"}
  /\ submitted.reason \in Reasons \cup {NoVerdict} /\ passes \in 0..MaxPasses

\* A refused run leaves evidence, and it is never mistaken for a scored
\* verdict: in a pass a task is tallied exactly when it has an attestation that
\* is not marked rejected, and no task has both kinds.
AttestedIffTallied ==
  \A t \in Nonces : /\ verdicts[t] # NoVerdict <=> <<t, FALSE>> \in attested
                    /\ ~{<<t, FALSE>>, <<t, TRUE>>} \subseteq attested

\* A validator that cannot read the meter refuses no agent for it.
UnreadableNeverRefuses == ~metered => failureReason = NoVerdict

\* Twice the votes for one of the verdicts in S.
Votes(S) == 2 * Cardinality({i \in DOMAIN ordinals : ordinals[i] \in S})

\* The verdict taken is the majority of the completed repetitions, and without
\* a strict majority their median, the lower of two.
TakesMajority ==
  LET v == CHOOSE o \in 1..3 : Verdict[o] = verdicts'[n]
  IN  /\ \A o \in 1..3 : Votes({o}) > Len(ordinals) => v = o
      /\ Votes(1..v) >= Len(ordinals)
      /\ Votes(1..(v - 1)) < Len(ordinals)
VerdictIsMajority == [][TaskTaken => TakesMajority]_vars

\* An evaluation ends, whatever the agent, its calls and the proxy do.
EvaluationEnds == wpc # "idle" ~> wpc = "idle"

-----------------------------------------------------------------------------
(* What the documentation says and the code does not do                     *)

\* An agent is refused for making no inference call only when it made none:
\* _inference_calls looks beside the meter's row and always finds zero.
RefusedOnlyWithoutCalls ==
  [][TaskRefused => metrics[n].requests = 0]_vars

\* "A task with zero completed reps counts as incorrect": it is left out of the
\* tally, so fewer answers score no worse.
FailedTasksCounted ==
  wpc = "end" /\ ~repository => \A t \in Nonces : verdicts[t] # NoVerdict

\* "Findings only count behind a correct verdict", but they are those of the last
\* completed repetition, whose own verdict may be wrong where the median is right.
Correct(t, verdict) == t \in Malicious <=> verdict \in {"WARN", "BLOCK"}
FindingsBehindVerdict ==
  [][TaskTaken /\ Correct(n, verdicts'[n])
       => Correct(n, Verdict[ordinals[Len(ordinals)]])]_vars

\* An agent whose key failed "scores 0 as inference_key_failed": the reason
\* outlives the pass and goes out with a score that is not zero.
ReasonOnlyOnZero == submitted.reason # NoVerdict => submitted.score = "zero"
=============================================================================
