# Phylax subnet: TLA+ specifications

Phylax is a Bittensor subnet in which validators evaluate detection agents that
miners submit. A validator draws tasks for four tracks (repositories, packages,
mcp_servers, skills), runs every agent on them in a container, scores the
verdicts and votes a weight vector on chain. This directory specifies the
validator and the services around it, model-checks the specifications with TLC
and proves the core of them with TLAPS. Sources are named relative to `src/`;
`validator.py` is `neurons/validator.py`, and `executor.py`, `runner.py`,
`detonate.py` and `inference_proxy.py` are in `phylax/harness/`.

## 1. The system

| Component | Code | State it keeps | Operations |
| --- | --- | --- | --- |
| Carried state and vote | `validator.py` `set_weights` and what it calls | `track_scores.json`, `weights_ema.json`, `scores_epoch.json`; `_round_running`, the operator's switches, `_round_seeds`, `_last_weight_set` | read back scores, reset, merge, blend, push |
| Round loop | `validator.py` `_begin_round` to `_run_track` | `_done_rounds`, `_failed_tracks`, `_retry_at`, `_round_scores`, the agent pool | poll, evaluate a track, resume, submit, retry, abstain |
| Task evaluation | `validator.py` `_score_agent`, `_task_verdict`, `_score_repo_task`, `_run_rep`, `_attest` | votes of a task, wall cap used, attestations, `_failure_reasons` | open session, run repetitions, read the meter, take or refuse, attest |
| Inference proxy | `inference_proxy.py` | `_SESSIONS`, `_METRICS` | forward a call, meter it, register, reset |
| Container jail | `executor.py`, `runner.py`, `docker/agent/entrypoint.py` | labelled containers, `_PULLED` | create, copy in, start, await, copy out, remove, sweep, classify |
| Detonation | `detonate.py`, `_detonate_child.py` | events of a child process and the capabilities among them that are the artifact's own; the artifact's tree; `_traces` of the validator | run an artifact's phases under an audit hook, compare snapshots, collect, keep the trace |
| Sandbox service | `neurons/sandbox.py` | pool, event loop | run a champion's agent for a caller |
| Scoring | `phylax/analysis/scoring.py`, `quality.py` | none | MCC, matching of findings, quality, ranking, splits, contributor pool |
| Round parameters, draw | `phylax/rounds.py`, `harness/corpus.py` | none | seeds, nonces, budgets, task draw, corpus fetch |
| Server client | `phylax/server_client.py` | pinned server key | signed calls and which of their errors are swallowed |
| Track evaluators, proof of execution | `phylax/analysis/*.py` | none | gate, evidence and trace checks, repository matching |

The components meet in these places. The main thread of the validator runs the
round loop and every vote, one after the other; a pool of worker threads runs
`_score_agent` for the agents of one track. Each worker talks to the inference
proxy (a separate process with a thread per call) and starts containers through
the docker command line; the agent in the container calls the same proxy. The
backend opens rounds, serves agents and task sets, keeps the submitted rows, and
holds the operator's switches; every call to it may fail or time out. The
sandbox service may share the docker daemon with the validator.

What is hard in it: calls that fail halfway (a poll, a fetch, a submission, a
docker command, two of three file operations); crashes between any two of them,
with half the state in memory and half on disk or in the backend; the operator's
reset racing a vote; an outage of the proxy under agents that are being scored;
calls that outlive the repetition and the session that made them; checks and
counts in separate critical sections; retries of passes that half succeeded; wall
caps and timeouts that run out inside a docker command; artifacts that rewrite
their own tree, leave processes behind or never end while they are recorded;
greedy matching, where one report can take the entry another needs; and liveness
of a loop that lets one track or one slow request hold up the others.

What must be true of each component:

* carried state: an acknowledged reset keeps older scores out; every wipe has its
  cause; votes, pauses and resets get through;
* round loop: a round is done only when each participant was dealt with;
  accepted rows stand and closed rounds rest; every open round is evaluated;
* task evaluation: the verdict is the majority of the completed repetitions; a
  refused run leaves evidence and no score; an unreadable meter refuses nobody;
* proxy: budgets hold up to the calls in flight;
* jail: no path loses a container; blame is founded: where no command failed,
  nobody but the agent or its wall budget decides how a run ends; every run ends; a
  restart cleans up;
* detonation: the answer reports what the artifact itself did, all of it that a
  record could show, and a mark where one is due;
* matching: a report more never takes a hit away, and is paid exactly when it is
  one;
* emission: the whole of it is paid, to agents that qualified, and scoring more
  never pays less;
* sandbox service: a report is of the code that was asked for; every request is
  answered.

## 2. Modules

| Module | What it models | Checked by | Proofs |
| --- | --- | --- | --- |
| `WeightSetting` | carried state and vote, with crashes and the operator | `WeightSetting_*.cfg` | `WeightSetting_proofs` |
| `RoundLedger` | abstract specification: rows, participants dealt with, closed rounds | `KeepsLedger` in `RoundLoop_safety` | |
| `RoundLoop` | round loop, pool, submissions, retries, restarts; implements `RoundLedger` | `RoundLoop_*.cfg` | `RoundLoop_proofs` |
| `InferenceProxy` | the proxy under concurrent handlers | `InferenceProxy_*.cfg` | `TaskEvaluation_proofs` |
| `TaskEvaluation` | one agent's evaluation, behavioural or of repositories; extends and composes `InferenceProxy` | `TaskEvaluation_*.cfg` | `TaskEvaluation_proofs` |
| `Executor` | docker commands of runs and detonations, two processes, sweep | `Executor_*.cfg` | `Executor_proofs` |
| `Detonation` | the phases of an artifact under the audit hook and the answer made of them | `Detonation_safety.cfg` | `Detonation_proofs` |
| `FindingMatch` | the greedy matching of reports against expected findings, and its price | `FindingMatch_safety.cfg` | `FindingMatch_proofs` |
| `EmissionWeights` | `compute_emission_weights`, vote after vote | `EmissionWeights_safety.cfg` | `EmissionWeights_proofs` |
| `SandboxService` | requests, event loop, pool, fetch of the agent's code | `SandboxService_safety.cfg` | `SandboxService_proofs` |

`MCRoundLoop`, `MCTaskEvaluation` and `MCEmissionWeights` give TLC sequences,
operators and symmetries of the small instance; the other modules take numbers and
model values, and their configurations instantiate them directly. Definitions
marked "Mutant" are variants of the definition that follows them with a plausible
bug; no specification uses them, and each property is known to fail when its mutant
takes the definition's place.

### WeightSetting

The main thread's program counter `pc` walks through `set_weights`: `read` (the
call to `get_my_results`, for the argument of `set_weights` or from inside it), the
three file operations of `_reset_carried_state`, `decide` (the branches of
`set_weights`), `save_scores`, `save_ema`, `push`; and through an evaluation:
`TrackScored` (a row is made, or an earlier one resumed), `Submits` (the rows go to
the backend while the track is evaluated), `TrackEnds`, and the three ways out of
`run_round` (`EvaluationEnds`, `EvaluationAbstains`, `EvaluationRaises`). Between
any two steps, and so in the middle of an evaluation that takes hours, the operator
may reset or toggle the pause and the reserved share, and the process may crash. A
refresh may fall due at any poll.

A call to the backend answers with one snapshot of the switches, the epoch and the
scores (`ReadServer`), fails (`ReadServerFails`: `None`, the switches stay), or
answers with a 2xx status and an empty body or a dictionary that lacks some keys
(`ReadServerBlank`). The code gives each missing key its default, so a missing epoch
is epoch 0, which differs from any epoch seen before: the files are wiped, 0 is
acknowledged, a missing switch is off, and the next whole answer wipes once more.
`None` (no scores) and the empty dictionary are told apart, as the code does. A crash
inside `write_text` may leave an empty file.

A track's scores are stamped with the number of the evaluation that made the oldest
of their rows; the EMA is the set of stamps its value draws on. So "this file still
holds something from before the reset" is a comparison of stamps with the history
variable `cutAt`. What the validator carries past a reset whatever it reads
afterwards is recorded by `spared` as the reset happens: the rows of the round it is
evaluating, and the argument of a `set_weights` that has yet to read the backend
(`InHand`). `acked` is the last reset acknowledged, also after an empty answer has
set the acknowledgement itself back to 0, and `wipes` counts how often the files
were cleared.

### RoundLoop

One action per handler: `Poll`/`PollInVain` (`_begin_round`), `TrackStarts` with
its ways out `TrackFails`, `TrackSkipped`, `TrackBlank` (`_run_track` before the
pool), `WorkerStarts`/`WorkerEnds` (the pool's threads), `TakeFuture` (one turn of
the `as_completed` loop with the submission it makes), `TrackEnds` (after the
`with` block), `Abstains`/`RoundEnds`. The backend keeps one row per track, round
and agent. A score is "own", or "outage" for the zero an agent gets when the
proxy was down under it; the program cannot tell the two apart and neither do the
guards. `fate` records what became of each participant of each round. `stable`
says that faults have ceased; it only switches faults off. A track that needs the
proxy fails when it is not ready (`NotReady`), also one that is evaluated on a local
corpus without participants. Submission windows open again and again: each brings
the next round and supersedes the last, and with `WindowsRecur` they go on when the
bound on served rounds is reached, since a window of any track stops the poll for
all of them. The vote at the end of a pass is in `WeightSetting`.

`RoundLedger` is what a reader of the rounds may rely on: `Work` (rows come in,
participants are dealt with), `Close` (rounds whose participants are all dealt
with are closed together with their last rows) and `Reopen` (a restart forgets
which rounds were closed, and changes nothing else). In all of them an accepted
row stands, and the rounds that are closed are not touched. `RoundLoop` implements
it under the refinement mapping `row <- rows`, `closed <- doneRounds`, `dealt <-`
the participants whose `fate` is known, `blind <- unread`. The last one is the
exception that the code makes: where `_prior_round_results` could not read the
rows back (its failure is logged and taken for "no rows"), the participants are
evaluated again and their new rows replace the old ones.

### InferenceProxy and TaskEvaluation

A call to the proxy is received under a nonce, checked against the budget, sent
upstream, answered and recorded: five steps of a handler thread between which
other threads, a new registration of the nonce, a reset or a restart may come.
`TaskEvaluation` adds the worker of the validator that opens the session, runs
the repetitions (each votes ALLOW, WARN, BLOCK or not at all), reads the meter
and takes the lower median or refuses the run. Each reading of the meter may
succeed or not by itself. The meter's answer has the nesting the proxy gives it,
because the code that reads it depends on it. A task of the repositories track
takes another path (`RepoTaskTaken`): its repetitions yield scores, not votes,
which are averaged over those that completed, and neither meter nor session
decides over it.

### Executor

Each slot of `Runs` walks through the docker commands of `run_agent_in_docker` or
`detonate_in_docker`: network, pull, create, copy in, start, await, copy out,
logs, probe, remove. Every command may succeed, fail, or run into its timeout
with or without its effect. A timeout that the code cuts to the agent's
remaining wall budget may expire in front of a healthy daemon once the budget is
`short`; other timeouts need a fault. `fault` remembers the runs in which a
command failed for a reason that is not the agent's, and `leaked` which of three
causes left a container behind: a crash, a failed removal or a create that timed
out. The sweep of a restarted validator removes every labelled container, also one
that a run of the other process is using, whose commands fail from then on. The CPU
reading is abstracted to "over budget" (`hot`).

What a container leaves (`Leavings`) is the agent's choice, and `Reported`,
`Detonated` and `Logs` read it in the order of the code. Four of them are called
`Upsetting`: a failed report whose error text begins with one of the infrastructure
prefixes of `runner.py:18` ("blaming", read as a fault of docker), a report that is
no dictionary ("odd"), a probe file that is not UTF-8 ("garbled") and, where there
is no report, logs that are not ("unlogged"); the last three raise. `file` keeps what
a container left when the container is gone, so that the outcome can be compared
with it.

### Detonation

One detonation of an artifact of the packages, mcp_servers or skills track. The
artifact is a set of files, each the code of one phase of its track (two install
hooks of the five, setup.py, the module, scripts, the server). `track`, `listed`,
`worded`, `broken` and `tools` are what is read before the first phase. A phase is
skipped or starts, acts, and ends: by itself, with or without its output written, at
its timeout, or dead.

What a phase does and what is seen of it are kept apart. Python code commits `Deeds`
under the audit hook, and `Shown` is the hook's conversion of them
(`_detonate_child.py:91-126`): an `open` tells reading from writing by its mode, but
`os.open` and `Path.touch` have none and pass for reading; removals and started
processes show; `os.rename`, `os.replace` and `os.truncate` are no event at all.
`Escapes` are the deeds that change the tree and are not shown as a change. The hook
records up to `MaxEvents` events, the 4000 of `_detonate_child.py:12`, nothing
behind that limit, and attributes to the artifact those whose first frame is its
own: `seen` is the set of capabilities of these, `events` the number of all. Of an
install hook, which runs in a shell, the snapshots of the tree before and after are
compared (`Diff`; a write within the second that keeps the size is not seen), and
the words of its command are read (`Words`: a pipe makes it EXEC_SHELL and "sh",
also in "finished", CREATE_PROCESS, whatever the hook then does). `Mark` adds the
marks of a phase.

A process that a phase started may go on in the next ones (`ran`), where no record
is kept of it, and so may a thread once the child's output is written. Four ways
out leave no answer: a manifest that is no object (`ManifestRaises`), hook output
that is not UTF-8 (`HookUndecodable`), and a container killed for its budgets or at
its deadline (`ContainerKilled`). `acted`, `done` and `missed` are history: what the
artifact's code did where a record was kept, the number of deeds (bounded by
`MaxDeeds`), and whether anything was done where no record was kept or a record was
lost. The properties compare the answer with the history through `Shown`.

Two things are assumed: the artifact's code leaves the recorder itself alone, its
list of events and the file that it writes them to, which the same process holds;
and a tree stays below the 20000 files at which a snapshot stops.

### FindingMatch

`match_findings` and the two loops that are built like it (`quality.py`,
`repositories.py`): each expected entry takes the first report not yet taken that
the matcher accepts. The matcher is any relation between entries and reports, so
what the texts say plays no part. The loops run side by side over two lists of
reports, one with a report more, for each place at which it may stand; the greedy
choice may then go different ways in the two.

### EmissionWeights

`compute_emission_weights` written with sets and exact integers over one unit in
which every division of the algorithm comes out whole; the code's floats agree up to
rounding. `Unit` refines that unit so that any number of contributors divides the
whole, too: a common multiple of the numbers up to that of the authors will do, and
1 is enough for the two of the run. Every action changes one input (a score, the
contributors, the tie-break salt) and votes anew, so that properties can compare two
votes.

### SandboxService

Handlers run one at a time on the event loop, in order; packing and the
synchronous fetch keep the loop, `run_in_executor` gives it away until a thread
of the pool has run the task. The backend may replace or withdraw the agent's
code at any time; agent code is a version number and its hash the same number. An
answer of the backend that has no body or no code is read like one that says the
agent does not exist (`server_client.py:103`, 200).

## 3. Runs

Eleven runs that pass and one that refutes, each for a question of its own.
Bounds were enlarged until every action fires and each mutant is caught, then kept
at what checks in minutes.

| Run | Bounds | What it shows |
| --- | --- | --- |
| `WeightSetting_safety` | 1 track, evaluated once and resumed, 1 reset, 1 fault (a crash or an answer that lacks a key) | `ResetHolds`, `WipesAccountedFor`; with fairness `PauseHonoured`, `VoteRetried`, `ResetSeen` |
| `RoundLoop_safety` | 2 tracks, 2 agents, 2 workers, 1 round, 1 crash | `DoneMeansEvaluated`; `KeepsLedger`, the refinement of `RoundLedger` |
| `RoundLoop_liveness` | 2 tracks, one with a local corpus, 1 agent, 1 round of each served and windows for ever, 1 crash | `OpenRoundDone` once faults cease and as long as polls meet gaps between the windows |
| `RoundLoop_outage` | as safety | refutes: an outage's zero is never final (`validator.py:486-487`) |
| `InferenceProxy_safety` | 2 tasks, 3 threads, budgets 2 and 1 | `OvershootBounded`, `TokenOvershootBounded` |
| `TaskEvaluation_safety` | 2 tasks, 3 repetitions, 1 handler, both kinds of track | `AttestedIffTallied`, `UnreadableNeverRefuses`, `VerdictIsMajority`, `EvaluationEnds` |
| `Executor_safety` | 1 run of each process, 2 containers, 1 crash, all docker faults | `OrphansExplained`, `NothingLeftOver`, `BlameIsFounded` |
| `Executor_recovery` | the same without docker faults | `RunEnds` |
| `Detonation_safety` | 3 tracks, 2 events, 3 deeds, 2 timeouts | `NothingInvented`, `NothingForgotten`, `MarksEarned` |
| `FindingMatch_safety` | every matcher between up to 3 entries and 3 reports | `AddedReportNeverCosts`, `PaidExactlyForMatches`, `HalfOfBest` |
| `EmissionWeights_safety` | 6 agents in 1 track (one more than are paid), 2 of them in a second, 2 idle tracks, scores at and around the thresholds, 2 contributors, 2 salts | `WholeEmissionPaid`, `OnlyActiveEarn`, `AheadEarnsNoLess`, `RaiseNeverCosts` |
| `SandboxService_safety` | 2 requests, 1 thread, 2 versions of the agent, 1 restart | `ReportIsOfAskedCode`, `EveryRequestAnswered` |

Why these bounds are enough. In `WeightSetting` the tracks do not interact (the
merge is per track, the EMA collects stamps), one reset makes a score older or newer
than itself wherever the evaluation stands, and one crash or empty answer can hit
any step; the safety properties were also checked with two evaluations and two
faults (18.7 million states), and the proofs cover every other instance. In
`RoundLoop` two tracks give a finished and a failed one in the same pass, two agents
a scored and an unscored one, and a retry and a restart can each meet both; rounds
of one track replace each other without sharing rows, so one of each is served,
which the windows that go on supersede. In `InferenceProxy` three threads are one
more than the request budget, so that the overshoot is reached. Three repetitions
give majorities, split votes and, with failures, even numbers of votes. In
`Executor` two containers and two slots give a run in progress beside one of the
other process; the runs do not otherwise interact. One pool thread and two requests
are the smallest full pool. In `Detonation` two events fit, and three deeds meet the
limit with something left to record (four were checked too: 5.1 million states); the
container outlives two timeouts (`WALL_BACKSTOP_FACTOR` is three of them) and a
package has four phases to spend them in. With three entries and three reports one
displacement can cause another.

The Executor runs stop deadlock checking because the model may use up its
containers, a bound of the model; a detonation and a matching end. Nothing else
may stop.

### Fairness

* `WeightSetting`: the loop in `run` catches everything and never stops, evaluation
  is bounded by the wall caps, and where no round opens a refresh falls due, hence
  weak fairness of `MainThread`, the steps of an evaluation included. The backend and
  the chain answer some of an endless row of calls: strong fairness of a whole answer
  (`ReadServer`) and of an accepted push.
* `RoundLoop`: the same for the main thread and the workers; the 300 s of
  `_retry_at` pass; each submission window closes; and faults cease in the end,
  since nothing can be promised while the backend refuses every call. A poll is not
  fair by itself: a window of any track stops it for all, and nothing in the code
  keeps the windows of several tracks from overlapping for ever. So `OpenRoundDone`
  has the hypothesis `PollsMeetGaps`, that gaps between the windows recur and that
  one of them outlasts the interval between two polls; `RoundLoop_starved` shows that
  it is needed. It is checked without the wall-cap shortage described below, which
  does prevent it.
* `TaskEvaluation`: a repetition ends by its budgets and an admin call by its
  15 s timeout, hence weak fairness of the worker.
* `Executor`: every docker command has a timeout and the deadline of
  `_await_exit` passes; no container need ever exit. The liveness run has no
  docker faults because a fault only adds ways out of a run.
* `SandboxService`: the event loop and the pool serve first come first served,
  the fetch has its timeout and a run its budgets.

## 4. Proofs

`WeightSetting_proofs` holds for every set of tracks and all bounds, from
`ConstantsAssumption` alone except where said:

* `TypeCorrect`: `Spec => []TypeOK`.
* `WipeSafety`: `Spec => []WipesAccountedFor`, assuming `~DiskFaults`. The carried
  files are cleared once for a reset, once more for a crash, and twice for an answer
  without its epoch; a backend that cannot be reached wipes nothing.
* `ResetSafety`: `Spec => []ResetHolds`, assuming `~DiskFaults` (where an unlink
  may fail, `WeightSetting_reset_fault.cfg` shows that it does not hold in the
  sense meant). Nothing scored before an acknowledged reset is in a file, but what
  was in the validator's hand at the reset; `WeightSetting_reset_race.cfg` shows that
  the exception is needed.

`ResetHolds` is not inductive: it says what the files hold, and the files are
written from the locals of a call that began long before. `IInv` adds

* `TypeInv`: the types, and the control facts they need (`save_scores` is only
  reached with scores);
* `EpochInv`: resets are numbered in order, what one of them has made gone stays gone
  under the later ones, and the acknowledged epoch never runs ahead of the operator's;
* `FreshInv`: what can still reach the backend or a later `set_weights`, the rows of
  an evaluation included, is not gone under any reset;
* `LocalsInv`: what `set_weights` is about to merge is not gone under the reset that
  it acts under;
* `CarriedInv`: the read-back of a `set_weights` call is empty outside of it;
* `ClearedInv`: before the acknowledgement is written both files are clear, which
  is what makes a crash between the unlinks and the acknowledgement harmless: the
  next process sees the old epoch and clears again.

`WipeInv` counts for `WipeSafety` what the causes there have been still owe: a reset
that is not acknowledged yet or an acknowledgement set back to 0 owes one wipe.

Each part has a lemma that it is preserved by every step (`TypeStep`, `EpochStep`,
`FreshStep`, `LocalsStep`, `CarriedStep`, `ClearedStep`, `ResetStep`, `WipeStep`),
with one case per action; the theorems combine them.

`TaskEvaluation_proofs` begins with the proxy on its own, for every finite set of
handler threads, any tasks and any positive budgets (`ConstantsAssumption`):

* `ProxyTypeCorrect`: `ProxySpec => []ProxyTypeOK`.
* `RequestsOvershoot`: `ProxySpec => []OvershootBounded`.
* `TokensOvershoot`: `ProxySpec => []TokenOvershootBounded`, an answer being
  billed at most `MaxAnswer`.

Both bounds are inductive together with the types because they count the calls
that are out beside those that were recorded. `StepKinds` sorts every step, seen
from one task, into four kinds: it sends no call out and counts none (`Quiet`), it
follows a check that found the budgets unspent (`Admitted`), it clears the row
(`Cleared`), or a call that was out comes back and is counted (`Returned`). The
cases `Admitted` and `Cleared` rest on there being at most one call per thread
(`ForwardedFinite`), `Returned` on the set of calls that are out losing one.

It goes on with the evaluation around the proxy, for any tasks, repetitions and
passes, from `ConstantsAssumption` and `DistinctTasks` (no task is in the round
twice: the draw is a sample without replacement, and a list of tasks served by
the backend is trusted to name each source once, as the nonces are made of them):

* `TypeCorrect`: `Spec => []TypeOK`.
* `EvaluationMeters`: `Spec => ProxySpec`. Every step of the composition is a step
  of the proxy or leaves it alone, and so `EvaluationOvershoot` carries its bounds
  over to evaluations.
* `Attestations`: `Spec => []AttestedIffTallied`, with the invariant `Pending`:
  while a task is judged nothing is recorded of it and of those after it. This is
  where `DistinctTasks` is needed; a task that came twice would keep the first
  one's attestation beside the second one's refusal.
* `UnreadableRefusesNone`: `Spec => []UnreadableNeverRefuses`.
* `Majority`: `Spec => VerdictIsMajority`. `SortingExists` shows that votes can be
  sorted (each is put behind those that are smaller or equal and earlier), so that
  `Sorted`, any sorted rearrangement, is one; `MedianHalves` that half of a sorted
  list lies on either side of its middle, and `VotesApart` and `VotesMonotone`
  count the votes of the list itself.

`FindingMatch_proofs` holds for any number of entries and reports and any matcher:

* `TypeCorrect`: `Spec => []TypeOK`.
* `AddedReport`: `Spec => []AddedReportNeverCosts`.
* `PaidForMatches`: `Spec => []PaidExactlyForMatches`.
* `HalfFound`: `Spec => []HalfOfBest`.

None of them follows from the hits alone: the additional report may take an
entry, whose former report is then free for a later entry, and so on. The
invariant `Lockstep` says how far the two loops come apart: either the hits are
equal and the longer list has exactly one report free that the shorter has not
(at first the additional one, later whichever it displaced), or the longer list is
one hit ahead and the same reports are free in both, after which the loops do the
same. For `HalfOfBest` the invariant `Blocked` says that an entry the loop has
passed without a hit has no report left that it could take: each pair of a better
matching then has its entry or its report in a pair of the loop's, and the loop's
pairs have two ends each (`PairsBound`).

`EmissionWeights_proofs` holds for any agents, entrants, scores, salts and
contributors, from `ConstantsAssumption` (a salt gives different hotkeys different
hashes) and `UnitAssumption` (the integers are fine enough, see section 2):

* `TypeCorrect`: `Spec => []TypeOK`.
* `WholePaid`: `Spec => []WholeEmissionPaid`.
* `ActiveEarn`: `Spec => []OnlyActiveEarn`.
* `AheadEarning`: `Spec => []AheadEarnsNoLess`.
* `RaisePaysOff`: `Spec => RaiseNeverCosts`.

The invariant `VoteInv` is simple, since every vote is computed anew: the scores
are the entrants' and the vector is theirs. The work is in what the algorithm
computes, that is in its sums. The library defines them by recursion over a picked
element; `SubsetInduction`, from the well-founded order of the subsets of a finite
set, gives the laws a sum is expected to have: any term may be taken out
(`SumWithout`), terms may be renamed (`SumRenamed`) and compared (`SumMonotone`),
a table may be summed by rows or by columns (`SumExchanged`). With them

* score and salt order the agents of a track strictly (`BeforeOrder`), so that its
  places are a bijection onto 1 to their number (`PlaceBijection`), of which the
  first five at most are paid (`TopPlaces`);
* a track pays exactly its share (`TrackPays`), the shares with the bonus make up
  the whole (`SharesSum`), and therefore the division by `perf_total` in
  `scoring.py:155`, which the module leaves out, divides by one
  (`PerformanceSum`); contributors share the rest without a remainder
  (`BountySum`);
* a better score of one agent keeps everybody else's place or makes it worse, and
  makes parts and bonuses smaller (`Raised`, `RaisePays`), so nobody else gains.
  That its own agent does not lose needs no calculation then: what is paid in all
  stays the same (`RaiseEarns`).

`RoundLoop_proofs` holds for any order of tracks without repetition, any finite
set of participants, and any number of workers, rounds and crashes:

* `TypeCorrect`: `Spec => []TypeOK`.
* `DoneIsEvaluated`: `Spec => []DoneMeansEvaluated`.
* `LoopKeepsLedger`: `Spec => KeepsLedger`, the refinement of `RoundLedger`.

Neither is inductive: a round becomes done at the end of a pass, on the strength
of what happened to its track long before. `IInv` carries that along:
`BehindDealt` (the participants of the tracks behind, if these did not fail, are
dealt with), `PoolDealt` (those of the track in evaluation are, or the pool still
holds them, unless an exception left the loop), `Apart` and `PoolEmpty` (an agent
is in one place of the pool, and in none between tracks), `OpenPass` (the rounds
of a pass are not done). For the rows it adds `PoolUnscored` (who is in the pool
has neither score nor row) and `ScoresAgree` (a score of the pass is the row, or
there is none), both only for tracks whose rows were read back, which is exactly
where the ledger promises that rows stand. One lemma per action shows that it
keeps `IInv`. `OnlyInPass`, `DoneRounds` and `RowsAreKept` then say of every step
which rounds it touches, what it closes and which rows it may change, and each is
one conjunct of the ledger's actions.

`Executor_proofs` holds for any finite set of runs of either process, any number of
containers and crashes, with and without docker faults:

* `TypeCorrect`: `Spec => []TypeOK`.
* `NoPathLoses`: `Spec => []OrphansExplained`.
* `SweepIsComplete`: `Spec => []NothingLeftOver`.
* `AgentDecides`: `Spec => BlameIsFounded`.

Ten commands with up to five outcomes each would make a proof of fifty cases for
every part of the invariant. Instead `Moves(r)` and `Handles(r)` state what all of
them have in common: the other runs stay as they are, and a command keeps the
containers as they were, creates one that the run then owns, creates one that is
lost, removes the run's own, or loses it. Each command is shown to have that shape
(`RunStepShape`), and the shape to keep the invariant (`ShapeKeeps`). `IInv` adds
`OneOwner` (a container is of one run), `LeakedExist` (what is lost exists and is
of none, so that the sweep sees it), `Decided` (a detonation that is removing its
container has an answer to return), `AgentsAsked` (only agents have their logs and
probe fetched), and `Room`, which ties the bound on containers to the runs that have
not created theirs.

`AgentDecides` has a second invariant, `JInv`, because it compares how a run ends with
what its container left some commands earlier: nothing is left before a container
has exited (`Unwritten`), and each run is `Founded`: only an agent's budget is short
(`Short`), a run waits for a container that it started itself (`Unstarted`), and as
long as no command of it failed it reads what an exited container left, and holds a
result while it removes the container that is just by that (`Judges`).

`SandboxService_proofs` holds for any requests, pool size and submissions:

* `TypeCorrect`: `Spec => []TypeOK`.
* `AskedCode`: `Spec => []ReportIsOfAskedCode`.

The type invariant needs the queues: a request is in one of them at most, and once
(`Joins` and `Leaves` say what a queue holds afterwards). For the rest `IInv` adds
that a request in progress has no answer yet (`Unanswered`), that what passed the
check of its hash is what was asked for, though the backend may hold other code by
the time a thread is free (`Checked`), and that a run has one of the four outcomes
a status is sent for (`Ended`).

`Detonation_proofs` holds for any limits on events, deeds and timeouts:

* `TypeCorrect`: `Spec => []TypeOK`.
* `OnlyWhatWasDone`: `Spec => []NothingInvented`.
* `AllThatWasSeen`: `Spec => []NothingForgotten`.
* `MarksAreEarned`: `Spec => []MarksEarned`.

They compare the answer, which is collected phase by phase, with what the artifact
did, so `IInv` says of every moment what is already collected and what is still in
the record of the phase: `SeenDone` (what a child saw, a deed of the artifact in this
phase showed), `HookDone` (what the running hook's snapshot will show, a shell did),
`CapsBased` (each capability collected has a deed that shows it, or the words of a
hook that is behind), `CodeTold` (what Python code showed is reported with its mark,
or still in the record), `TreeTold` (so are the changes of the tree up to the
snapshot, unless a deed escaped the hook), `HooksTold` (the marks of the hooks
behind) and `Earned`. `ShownFacts` is the table of the hook's conversion and
`Records` what a deed adds to the record. `CollectInv` shows for both kinds of phase
that collecting moves what is pending into the answer; `LostInv` that a phase which
loses its record counts as missed.

Every invariant and every action property that a run checks is also proved.
Model-checked only: all liveness (`PauseHonoured`, `VoteRetried`, `ResetSeen`,
`OpenRoundDone`, `EvaluationEnds`, `RunEnds`, `EveryRequestAnswered`), because the
provers installed do not handle fairness and ENABLED, and the counterexample of
`RoundLoop_outage`. The theorems about weights are about exact numbers: what
rounding does to the last digits of a float is in neither.

## 5. Where the code and its documentation disagree

`RoundLoop_outage` ends in a counterexample and stands for the disagreement that
`PROJECT.json` lists. The configurations below are kept for the same purpose:
each checks one sentence of the documentation or a comment, and TLC refutes it.

| Configuration | Sentence | What the code does |
| --- | --- | --- |
| `WeightSetting_reset_race` | `validator.py:533-537` a reset drops the carried scores | an argument read before the reset is merged and saved after it (`validator.py:985`, 1257, 1268), and so are the scores of an evaluation the reset comes in the middle of (1165) |
| `WeightSetting_blank` | `validator.py:533-537` the carried scores are dropped when the operator resets | an empty 2xx answer, or one without `scores_epoch`, is epoch 0 and wipes them (`server_client.py:103`, `validator.py:517`, 529-538) |
| `WeightSetting_abstain` | mechanism.md:250 "Abstaining means setting no weights that round" | `set_weights(None)` pushes the prior vector (`validator.py:1014-1044`, 1160) |
| `WeightSetting_ema` | mechanism.md:260 smoothing "Per round" | every refresh blends once more (`validator.py:1032-1040`, 1268) |
| `WeightSetting_reset_fault` | `validator.py:533` "dropping carried track scores" | an unlink that fails is logged and the epoch acknowledged (`validator.py:209-219`) |
| `WeightSetting_tiebreak` | mechanism.md:264 ties resolved "the same way" by every validator | the salt is made of the seeds of this process's last pass (`validator.py:1028`) |
| `RoundLoop_partial` | mechanism.md:251 "A partial vector is never submitted" | weights are set from the tracks that succeeded (`validator.py:362-376`) |
| `RoundLoop_lost` | `server_client.py:286` results persisted | a lost final submission is logged and the round done (`validator.py:1138`, 1240) |
| `RoundLoop_unfetched` | mechanism.md:243 participant code unfetchable: abstain | a refused fetch skips the participant (`server_client.py:169`) |
| `RoundLoop_unserved` | mechanism.md:242 artifacts unfetchable: abstain | an empty task set skips the track, the round is done (`validator.py:397`) |
| `RoundLoop_localcorpus` | `validator.py:121` local corpus never used with a served task set | a retry pass runs the other tracks on it (`validator.py:336`, 356) |
| `RoundLoop_wallcap`, `Executor_wallcap` | mechanism.md:236 wall cap exceeded: remaining reps fail | a docker timeout cut to the wall cap is an InfraFailure (`executor.py:305`, `runner.py:23`) |
| `RoundLoop_starved` | validator_setup.md:176-177 when the window closes evaluation begins | a window of any track stops the poll for all (`validator.py:1216-1221`): windows that overlap for ever starve an open round |
| `InferenceProxy_budget` | `inference_proxy.py:27` "Budget is enforced here" | check and count are separate critical sections |
| `InferenceProxy_late` | `inference_proxy.py:20` accounting per task | a late answer counts in the session that replaced its own |
| `TaskEvaluation_meter` | `validator.py:758` "Calls recorded for this task, or -1" | the count is read beside the `usage` key it is nested in (`validator.py:769-771`, `inference_proxy.py:134`): a readable meter reads zero, and an agent that did call is refused |
| `TaskEvaluation_findings` | `validator.py:657-660` the findings belong to the verdict | they are those of the last repetition, the verdict is the median of all |
| `TaskEvaluation_failed` | mechanism.md:164 a task without completed reps is incorrect | it is left out of the confusion matrix (`validator.py:643`) |
| `TaskEvaluation_reason` | mechanism.md:248 a failure reason goes with score 0 | reasons are never cleared (`validator.py:812`, 1117) |
| `Executor_inspect` | mechanism.md:228 infrastructure faults abstain | failing inspect, copy-out or probe copy count against the agent (`executor.py:88`, 98, 306) |
| `Executor_blame` | mechanism.md:228-231 only infrastructure faults abstain | an agent's error text, report, probe file or logs end in an InfraFailure or an exception (`runner.py:142-151`, `executor.py:91`, 307) |
| `Executor_untraced` | mechanism.md:230 faults never leak into a vector | the answer of a failed detonation is cached (`validator.py:576`) |
| `Executor_sweep` | `validator.py:1255` containers "left by a previous run" | every labelled container is removed, also those of a sandbox service on the same daemon |
| `SandboxService_missing` | `server_client.py:189-193` only a 404 becomes None | an answer without a body or without code does, too (103, 200), and the caller gets a 404 (`sandbox.py:97`) |

Read in passing and not modelled yet: a predictor that always answers BLOCK has
MCC 0 but quality can pay it up to 0.3 (`validator.py:685-691`), above the 0.20
threshold that mechanism.md:172-176 puts constants below; validator_setup.md:186
calls the draw identical for every validator while `validator_draw_seed` mixes in
the hotkey (`rounds.py:38`); a hotkey missing from the new vector leaves the EMA
at once (`validator.py:1032-1035`).

## 6. What is left out

* Signing, header checks, logging, progress reports, the round record file.
* The track evaluators' matchers and gates and the proof-of-execution checks:
  stateless comparisons of texts. Their outcome is any relation in `FindingMatch`
  and any vote or score in `TaskEvaluation`.
* In `Detonation`: all but four of the capabilities (READ_FILE stands for all that
  counts as noise, EXEC_SHELL for all that Python code shows without touching a file
  and that a hook's words show), the targets of the events, code that tampers with
  its own recorder, and trees above the snapshot's limit.
* An answer of `get_my_results` that is JSON but no dictionary, which raises out of
  `_scores_from_server`.
* A create that the docker daemon finishes only after the sweep of the next start.
* Round parameters and the task draw (`rounds.py`, `corpus.py`): hashes and seeded
  sampling, functions of a seed with no state between calls. What matters of them,
  that a retry of a round draws the same tasks, is the determinism of a hash,
  which a model could only assume.
* `set_weights` raising out of `_execute_round` before its `try`
  (`validator.py:1151`), which leaves `_round_running` set.
* The block window of a validator without a backend (`_out_of_window`).
* A `TimeoutExpired` out of the image pull or the removal drops the agent from
  the pass like any other exception; `Executor` calls it `raised`.
* Reference agents, scripts, deployment files, corpora, the development executor.

## 7. Plan

Done in this order: `WeightSetting` with its proofs, `RoundLoop`,
`InferenceProxy` with its proofs, `TaskEvaluation`, `Executor`, `EmissionWeights`,
`SandboxService`; then `RoundLedger` and the refinement, `FindingMatch` with its
proofs, `Detonation`, the repositories path of `TaskEvaluation`, and
`RoundLoop_proofs`, `Executor_proofs`, `SandboxService_proofs`, `Detonation_proofs`;
then `HalfFound`, `TaskEvaluation_proofs` over the proofs of the proxy, and
`EmissionWeights_proofs`. Next:

1. A composition of `RoundLoop` and `WeightSetting`: the vote at the end of a
   pass and on refresh, with the raising path of `_execute_round`.
2. An abstract resettable store (scores are either from before a reset or after
   it, never both) implemented by `WeightSetting`, with its proof.
3. MCC and quality as operators over small confusion matrices.
