------------------------------ MODULE Executor ------------------------------
(***************************************************************************)
(* The container jail (phylax/harness/executor.py) and the classification  *)
(* of its outcomes (runner.py run_task).  A run is a row of docker         *)
(* commands against one daemon; each of them may fail, time out, or, where *)
(* its timeout is cut to the agent's remaining wall budget, expire in      *)
(* front of a healthy daemon.  A command that timed out may have had its   *)
(* effect.  Runs of the validator's pool, detonations of its main thread   *)
(* and runs of the sandbox service (neurons/sandbox.py) share the daemon   *)
(* and the label; either process may crash, and the validator sweeps the   *)
(* label when it starts.                                                   *)
(***************************************************************************)
EXTENDS Integers, FiniteSets

CONSTANTS Runs,          \* slots of concurrent runs
          Service,       \* those of the sandbox service
          MaxContainers, \* bound: containers created
          MaxCrashes,    \* bound: crashes
          DockerFaults,  \* may docker commands fail and time out?
          NoCid          \* Python's cid = None

Ids == 1..MaxContainers

ASSUME ConstantsAssumption ==
  /\ IsFiniteSet(Runs) /\ Service \subseteq Runs /\ NoCid \notin Ids
  /\ MaxContainers \in Nat /\ MaxCrashes \in Nat /\ DockerFaults \in BOOLEAN

VARIABLES
  step,     \* per run: the docker command it is at
  kind,     \* run_agent_in_docker, or detonate_in_docker
  budget,   \* "short": left() is below what a healthy command may take
  cid, outcome,
  expired,  \* runs whose _await_exit deadline has passed
  hot,      \* runs whose agent is over the CPU budget, by the first reading
  fault,    \* history: runs of which some command failed
  state, file, made,  \* the labelled containers, what each left (also once gone)
  leaked,   \* history: <<cause, container>> lost to a crash of either process,
            \* or to a command: a create or an rm -f, the sweep's included
  trace,    \* _traces of one artifact
  up,       \* the validator has swept and runs
  crashes

run  == <<step, kind, budget, cid, outcome, expired, hot, fault>>
box  == <<state, file, made>>
rest == <<trace, up, crashes>>
vars == <<run, box, leaked, rest>>

Init ==
  /\ step = [r \in Runs |-> "idle"] /\ kind = [r \in Runs |-> "agent"]
  /\ budget = [r \in Runs |-> "ample"] /\ cid = [r \in Runs |-> NoCid]
  /\ outcome = [r \in Runs |-> "none"] /\ expired = {} /\ hot = {} /\ fault = {}
  /\ state = [c \in Ids |-> "absent"] /\ file = [c \in Ids |-> "none"] /\ made = 0
  /\ leaked = {} /\ trace = "absent" /\ up = FALSE /\ crashes = 0

At(r, s)  == step[r] = s
Go(r, s)  == step' = [step EXCEPT ![r] = s]
Active    == {r \in Runs : ~At(r, "idle")}
Existing  == {c \in Ids : state[c] # "absent"}
Agent(r)  == kind[r] = "agent"
Missing(r) == state[cid[r]] = "absent"
Faulty(r) == fault' = fault \cup {r}
Lose(cause, ids) == leaked' = leaked \cup ({cause} \X ids)

-----------------------------------------------------------------------------
(* How a run ends                                                           *)

Idle(r, o) ==
  /\ Go(r, "idle") /\ outcome' = [outcome EXCEPT ![r] = o]
  /\ kind' = [kind EXCEPT ![r] = "agent"] /\ budget' = [budget EXCEPT ![r] = "ample"]
  /\ cid' = [cid EXCEPT ![r] = NoCid] /\ expired' = expired \ {r} /\ hot' = hot \ {r}

\* The call returns; a detonation's answer is kept whatever it is.  An exception
\* leaves it: TimeoutExpired outside the try or in the finally, or any other.
Return(r, o) ==
  Idle(r, o) /\ trace' = IF Agent(r) \/ o = "raised" THEN trace ELSE o
Raise(r) == Return(r, "raised")

\* The finally: rm -f, when there is a container to remove.
Conclude(r, o) ==
  IF cid[r] = NoCid THEN Return(r, o)
  ELSE /\ Go(r, "remove") /\ outcome' = [outcome EXCEPT ![r] = o]
       /\ expired' = expired \ {r} /\ hot' = hot \ {r}
       /\ UNCHANGED <<kind, budget, cid, trace>>

\* Mutant: the return after a failed copy-in is not inside the try.
ConcludeWithoutRemoving(r, o) == Return(r, o)

\* run_task raises InfraFailure on these errors, and takes the others for the
\* agent's; a detonation has the one answer for both.
Infra(r) == IF Agent(r) THEN "infra" ELSE "untraced"
FailedInfra(r) == Infra(r)    \* Mutant: a spent budget is listed with them.
Failed(r) == IF Agent(r) THEN "failed" ELSE "untraced"

\* Read in the order of the code, the agent's own report, its error text, its
\* probe file and its logs may look like a fault of docker, or raise.
Reportless == {"none", "unlogged"}
Upsetting == {"blaming", "odd", "garbled", "unlogged"}

\* The answer of a detonation: a result that is no dictionary raises, and any
\* other value stands for a result that cannot be read.
Detonated(left) ==
  CASE left = "report" -> "traced" [] left = "odd" -> "raised" [] OTHER -> "untraced"

\* run_task on a report, whose probe file was read, could not be copied, or was
\* not asked for.
Reported(left, probe) ==
  CASE left \in {"failed", "malformed"}              -> "failed"
    [] left = "blaming"                              -> "infra"
    [] left = "odd"                                  -> "raised"
    [] left = "garbled" /\ probe = "read"            -> "raised"
    [] left = "garbled" /\ probe = "lost"            -> "unobserved"
    [] left = "unprobed" /\ probe # "unasked"        -> "unobserved"
    [] left = "report" /\ probe = "lost"             -> "unobserved"
    [] OTHER                                         -> "report"

\* A command's timeout expires; the shortened ones also on a healthy daemon.
Expires(r) == DockerFaults /\ Faulty(r)
ExpiresShort(r) == IF budget[r] = "short" THEN UNCHANGED fault ELSE Expires(r)
Errs(r) == (DockerFaults \/ (cid[r] # NoCid /\ Missing(r))) /\ Faulty(r)

stepFrame == <<up, crashes>>
ongoing   == <<kind, budget, cid, outcome, expired, hot, trace>>

-----------------------------------------------------------------------------
(* run_agent_in_docker and detonate_in_docker                               *)

\* Detonations are made by the main thread before the pool starts, once per
\* artifact; ShrinkingBudget may follow at once.
RunStarts(r) ==
  /\ At(r, "idle") /\ made + Cardinality({q \in Active : cid[q] = NoCid}) < MaxContainers
  /\ \/ /\ kind' = kind /\ (r \in Service \/ (up /\ \A q \in Active \ Service : Agent(q)))
     \/ /\ kind' = [kind EXCEPT ![r] = "detonation"]
        /\ r \notin Service /\ up /\ trace = "absent" /\ Active \subseteq Service
  /\ Go(r, "network") /\ outcome' = [outcome EXCEPT ![r] = "none"]
  /\ fault' = fault \ {r}
  /\ UNCHANGED <<budget, cid, expired, hot, box, leaked, rest>>

\* A remaining wall budget under a second ends the run at once.
RunRefused(r) ==
  /\ At(r, "idle") /\ (r \in Service \/ (up /\ \A q \in Active \ Service : Agent(q)))
  /\ outcome' = [outcome EXCEPT ![r] = "failed"] /\ fault' = fault \ {r}
  /\ UNCHANGED <<step, kind, budget, cid, expired, hot, box, leaked, rest>>

\* detonate_artifact_bytes: what is no zip, and anything where no image is set,
\* is not detonated; the answer is kept like any other.
DetonationRefused(r) ==
  /\ At(r, "idle") /\ r \notin Service /\ up /\ trace = "absent" /\ Active \subseteq Service
  /\ outcome' = [outcome EXCEPT ![r] = "untraced"] /\ trace' = "untraced"
  /\ fault' = fault \ {r}
  /\ UNCHANGED <<step, kind, budget, cid, expired, hot, box, leaked, up, crashes>>

\* ensure_jail_network: a network that cannot be created is not noticed here.
EnsureNetwork(r) ==
  /\ At(r, "network")
  /\ \/ Go(r, "pull") /\ (UNCHANGED fault \/ Errs(r))
        /\ UNCHANGED ongoing
     \/ Expires(r) /\ Raise(r)
  /\ UNCHANGED <<stepFrame, box, leaked>>

\* _ensure_image, or its cache.
PullImage(r) ==
  /\ At(r, "pull")
  /\ \/ Go(r, "create") /\ UNCHANGED <<ongoing, fault>>
     \/ Errs(r) /\ Conclude(r, Infra(r))
     \/ ExpiresShort(r) /\ Raise(r)
  /\ UNCHANGED <<stepFrame, box, leaked>>

NewContainer == made' = made + 1 /\ state' = [state EXCEPT ![made + 1] = "created"]

CreateUnchecked(r) ==  \* Mutant: the return code of create is not looked at.
  /\ At(r, "create")
  /\ \/ NewContainer /\ cid' = [cid EXCEPT ![r] = made'] /\ UNCHANGED fault
     \/ Errs(r) /\ UNCHANGED <<state, made, cid>>
  /\ Go(r, "copyin")
  /\ UNCHANGED <<stepFrame, kind, budget, file, outcome, expired, hot, trace, leaked>>

\* A create that timed out may leave a container nobody knows the id of.
Create(r) ==
  /\ At(r, "create")
  /\ \/ /\ NewContainer /\ cid' = [cid EXCEPT ![r] = made'] /\ Go(r, "copyin")
        /\ UNCHANGED <<kind, budget, fault, outcome, expired, hot, trace, leaked>>
     \/ Errs(r) /\ Conclude(r, Infra(r)) /\ UNCHANGED <<state, made, leaked>>
     \/ /\ Expires(r) /\ Conclude(r, Infra(r))
        /\ \/ NewContainer /\ Lose("command", {made'})
           \/ UNCHANGED <<state, made, leaked>>
  /\ UNCHANGED <<stepFrame, file>>

CopyInUnguarded(r) ==  \* Mutant: a failed copy-in returns past the removal.
  /\ At(r, "copyin")
  /\ \/ ~Missing(r) /\ Go(r, "start") /\ UNCHANGED <<ongoing, fault>>
     \/ (Errs(r) \/ ExpiresShort(r)) /\ ConcludeWithoutRemoving(r, Infra(r))
  /\ UNCHANGED <<stepFrame, box, leaked>>

CopyIn(r) ==
  /\ At(r, "copyin")
  /\ \/ ~Missing(r) /\ Go(r, "start") /\ UNCHANGED <<ongoing, fault>>
     \/ (Errs(r) \/ ExpiresShort(r)) /\ Conclude(r, Infra(r))
  /\ UNCHANGED <<stepFrame, box, leaked>>

Started(r) == state' = [state EXCEPT ![cid[r]] = "running"]

Start(r) ==
  /\ At(r, "start")
  /\ \/ /\ ~Missing(r) /\ Started(r) /\ Go(r, "await")
        /\ UNCHANGED <<ongoing, fault>>
     \/ Errs(r) /\ Conclude(r, Infra(r)) /\ UNCHANGED state
     \/ /\ ExpiresShort(r) /\ Conclude(r, Infra(r))
        /\ (~Missing(r) /\ Started(r)) \/ UNCHANGED state
  /\ UNCHANGED <<stepFrame, file, made, leaked>>

SpentCpu(r) == r \in hot       \* Mutant: only the CPU budget ends a run.
Spent(r) == r \in hot \cup expired

\* One turn of _await_exit.  A failing inspect reads as an agent that exited, a
\* failing reading of the CPU as none; the kill may fail unnoticed.
Killed(r) == state' = [state EXCEPT ![cid[r]] = "exited"]

Poll(r) ==
  /\ At(r, "await")
  /\ \/ /\ (state[cid[r]] = "exited" /\ UNCHANGED fault) \/ Errs(r)
        /\ Go(r, "copyout") /\ expired' = expired \ {r} /\ hot' = hot \ {r}
        /\ UNCHANGED <<kind, budget, cid, outcome, trace, state>>
     \/ /\ state[cid[r]] = "running" /\ Spent(r)
        /\ Conclude(r, Failed(r))
        /\ (Killed(r) /\ UNCHANGED fault) \/ (Errs(r) /\ UNCHANGED state)
     \/ Expires(r) /\ Conclude(r, Infra(r)) /\ UNCHANGED state
  /\ UNCHANGED <<stepFrame, file, made, leaked>>

\* A detonation ends here; an agent's report is looked at, in the service
\* without a probe, and without a report the logs are fetched.
CopyOut(r) ==
  /\ At(r, "copyout")
  /\ LET left == file[cid[r]]
         read == ~Missing(r) /\ UNCHANGED fault
     IN  \/ /\ (read /\ left \in Reportless) \/ Errs(r)
            /\ IF Agent(r) THEN Go(r, "logs") /\ UNCHANGED ongoing
                           ELSE Conclude(r, "untraced")
         \/ read /\ left \notin Reportless /\ ~Agent(r) /\ Conclude(r, Detonated(left))
         \/ /\ read /\ left \notin Reportless /\ Agent(r)
            /\ IF left = "malformed" \/ r \in Service
                 THEN Conclude(r, Reported(left, "unasked"))
                 ELSE Go(r, "probe") /\ UNCHANGED ongoing
         \/ ExpiresShort(r) /\ Conclude(r, Infra(r))
  /\ UNCHANGED <<stepFrame, box, leaked>>

\* "no result.json", with the exit code whatever it is and the logs, which raise
\* when they are no text.
Logs(r) ==
  /\ At(r, "logs")
  /\ \/ /\ ~Missing(r) /\ UNCHANGED fault
        /\ \/ file[cid[r]] # "unlogged" /\ Conclude(r, "failed")
           \/ file[cid[r]] # "none" /\ Conclude(r, "raised")
     \/ Errs(r) /\ Conclude(r, "failed")
     \/ ExpiresShort(r) /\ Conclude(r, "infra")
  /\ UNCHANGED <<stepFrame, box, leaked>>

\* _observed_probe; without the observation the validator drops the repetition.
Probe(r) ==
  /\ At(r, "probe")
  /\ LET left == file[cid[r]]
     IN  \/ ~Missing(r) /\ UNCHANGED fault /\ Conclude(r, Reported(left, "read"))
         \/ Errs(r) /\ Conclude(r, Reported(left, "lost"))
         \/ Expires(r) /\ Conclude(r, "infra")
  /\ UNCHANGED <<stepFrame, box, leaked>>

Gone(ids) == state' = [c \in Ids |-> IF c \in ids THEN "absent" ELSE state[c]]

\* An rm -f that fails is not noticed, one that times out replaces the result.
Remove(r) ==
  /\ At(r, "remove")
  /\ \/ Return(r, outcome[r]) /\ Gone({cid[r]}) /\ UNCHANGED <<fault, leaked>>
     \/ /\ Expires(r) /\ (Return(r, outcome[r]) \/ Raise(r))
        /\ Lose("command", {cid[r]} \cap Existing) /\ UNCHANGED state
  /\ UNCHANGED <<stepFrame, file, made>>

-----------------------------------------------------------------------------
(* The environment                                                          *)

ShrinkingBudget(r) ==
  /\ Agent(r) /\ ~At(r, "idle") /\ budget[r] = "ample"
  /\ budget' = [budget EXCEPT ![r] = "short"]
  /\ UNCHANGED <<step, kind, cid, outcome, expired, hot, fault, box, leaked, rest>>

\* Readings start with the first turn, and are differences to the first.
OverCpu(r) ==
  /\ At(r, "await") /\ r \notin hot /\ hot' = hot \cup {r}
  /\ UNCHANGED <<step, kind, budget, cid, outcome, expired, fault, box, leaked, rest>>

DeadlinePasses(r) ==
  /\ At(r, "await") /\ r \notin expired /\ expired' = expired \cup {r}
  /\ UNCHANGED <<step, kind, budget, cid, outcome, hot, fault, box, leaked, rest>>

\* A container that exits by itself leaves a report, none (killed for memory),
\* a failed one, a malformed one, or one without the probe file; a failed one
\* whose error text starts like one of docker's ("blaming"), one whose report is
\* no dictionary ("odd"), a probe file ("garbled") or, without a report, logs
\* ("unlogged") that are not UTF-8.
Leavings == {"none", "report", "failed", "malformed", "unprobed"} \cup Upsetting

ContainerExits(c) ==
  /\ state[c] = "running" /\ state' = [state EXCEPT ![c] = "exited"]
  /\ \E left \in Leavings : file' = [file EXCEPT ![c] = left]
  /\ UNCHANGED <<run, made, leaked, rest>>

\* A process dies with its runs; the daemon may still finish one create.
Crash(process, cause) ==
  /\ crashes < MaxCrashes /\ crashes' = crashes + 1
  /\ step' = [r \in Runs |-> IF r \in process THEN "idle" ELSE step[r]]
  /\ kind' = [r \in Runs |-> IF r \in process THEN "agent" ELSE kind[r]]
  /\ budget' = [r \in Runs |-> IF r \in process THEN "ample" ELSE budget[r]]
  /\ cid' = [r \in Runs |-> IF r \in process THEN NoCid ELSE cid[r]]
  /\ outcome' = [r \in Runs |-> IF r \in process THEN "none" ELSE outcome[r]]
  /\ expired' = expired \ process /\ hot' = hot \ process /\ fault' = fault \ process
  /\ LET lost == {cid[r] : r \in process} \cap Existing
     IN  \E r \in process :
           \/ Lose(cause, lost) /\ UNCHANGED <<state, made>>
           \/ At(r, "create") /\ NewContainer /\ Lose(cause, lost \cup {made'})
  /\ UNCHANGED file

ValidatorCrashes ==
  /\ up /\ up' = FALSE /\ trace' = "absent" /\ Crash(Runs \ Service, "validator")

ServiceCrashes == Service # {} /\ Crash(Service, "service") /\ UNCHANGED <<trace, up>>

\* Mutant: ps without -a lists only the running containers.
SweptRunning == {c \in Ids : state[c] = "running"}
Swept == Existing

\* sweep_stale_sandboxes, at the start of the validator's run().
Sweep ==
  /\ ~up /\ up' = TRUE
  /\ \E removed \in SUBSET Swept :
       /\ removed # Swept => DockerFaults
       /\ Gone(removed)
       /\ leaked' = {<<IF l[2] \in Swept THEN "command" ELSE l[1], l[2]>> :
                       l \in {k \in leaked : k[2] \notin removed}}
  /\ UNCHANGED <<run, file, made, trace, crashes>>

RunStep(r) ==
  \/ EnsureNetwork(r) \/ PullImage(r) \/ Create(r) \/ CopyIn(r) \/ Start(r) \/ Poll(r)
  \/ CopyOut(r) \/ Logs(r) \/ Probe(r) \/ Remove(r)

Next ==
  \/ \E r \in Runs : RunStarts(r) \/ RunRefused(r) \/ DetonationRefused(r)
                   \/ RunStep(r) \/ ShrinkingBudget(r) \/ OverCpu(r) \/ DeadlinePasses(r)
  \/ \E c \in Ids : ContainerExits(c)
  \/ ValidatorCrashes \/ ServiceCrashes \/ Sweep

Spec == Init /\ [][Next]_vars

\* Every docker command returns or times out, and time passes; no container
\* need ever exit, and no budget run short.
FairSpec == Spec /\ \A r \in Runs : WF_vars(RunStep(r)) /\ WF_vars(DeadlinePasses(r))

-----------------------------------------------------------------------------
(* What must hold                                                           *)

Steps == {"idle", "network", "pull", "create", "copyin", "start", "await", "copyout",
          "logs", "probe", "remove"}
Answers == {"traced", "untraced"}
Outcomes == {"none", "report", "unobserved", "failed", "infra", "raised"} \cup Answers

\* Every variable stays in its domain, and a run past its create knows its
\* container, which was created.
TypeOK ==
  /\ step \in [Runs -> Steps] /\ kind \in [Runs -> {"agent", "detonation"}]
  /\ budget \in [Runs -> {"ample", "short"}] /\ outcome \in [Runs -> Outcomes]
  /\ cid \in [Runs -> 1..made \cup {NoCid}]
  /\ \A r \in Runs : cid[r] = NoCid <=> step[r] \in {"idle", "network", "pull", "create"}
  /\ expired \subseteq Runs /\ hot \subseteq Runs /\ fault \subseteq Runs
  /\ state \in [Ids -> {"absent", "created", "running", "exited"}]
  /\ file \in [Ids -> Leavings]
  /\ made \in 0..MaxContainers /\ leaked \subseteq {"command", "validator", "service"} \X (1..made)
  /\ trace \in Answers \cup {"absent"} /\ up \in BOOLEAN /\ crashes \in 0..MaxCrashes

\* No path through a run loses its container: one that exists is that of a run
\* in progress, or was lost to a crash, to an rm -f that failed or timed out, or
\* to a create that timed out.
OrphansExplained ==
  \A c \in Existing : (\E l \in leaked : l[2] = c) \/ (\E r \in Active : cid[r] = c)

\* Once its successor runs, nothing is left of a crashed validator, whatever the
\* crash interrupted, but what the sweep tried and failed to remove.
NothingLeftOver == up => \A l \in leaked : l[1] # "validator"

Ends(r) == ~At(r, "idle") /\ step'[r] = "idle"

Left(r) == IF cid[r] = NoCid THEN "none" ELSE file[cid[r]]

\* With no command failing, blame is founded: a run makes the validator abstain
\* or drop the agent only if its wall budget ran short or its agent left what
\* upsets the reading of its result, and an agent that left a report is not
\* taken for one that failed, nor its artifact for one without a trace.
BlameIsFounded ==
  [][\A r \in Runs : Ends(r) /\ r \notin fault' =>
       /\ outcome'[r] \in {"infra", "raised"} => budget[r] = "short" \/ Left(r) \in Upsetting
       /\ outcome'[r] \in {"failed", "unobserved", "untraced"} => Left(r) # "report"]_vars

\* A run ends, whatever the agent does and whoever removes its container.
RunEnds == \A r \in Runs : ~At(r, "idle") ~> At(r, "idle")

-----------------------------------------------------------------------------
(* What the documentation says and the code does not do                     *)

\* An agent that exceeds its round wall cap fails its repetitions: a command
\* whose timeout is cut to the cap expires and is taken for a docker fault.
WallCapIsAgentFault ==
  [][\A r \in Runs : Ends(r) /\ r \notin fault' /\ Left(r) \notin Upsetting
                    => outcome'[r] \notin {"infra", "raised"}]_vars

\* A fault of the agent scores zero, only one of the infrastructure abstains: an
\* agent's error text, report, probe file or logs make the validator abstain.
AgentFaultScores ==
  [][\A r \in Runs : Ends(r) /\ r \notin fault' /\ budget[r] # "short"
                    => outcome'[r] \notin {"infra", "raised"}]_vars

\* A fault of the infrastructure abstains, it is never the agent's: a failing
\* inspect, copy-out or probe copy reads as an agent that wrote no report.
FaultAbstains ==
  [][\A r \in Runs : step[r] \in {"logs", "probe"} /\ file[cid[r]] = "report"
                    => outcome'[r] \notin {"failed", "unobserved"}]_vars

\* Infrastructure faults never leak into a weight vector: the empty trace of a
\* detonation that docker failed is kept for every later pass.
FaultNotKept ==
  [][\A r \in Runs : ~Agent(r) /\ r \in fault' => trace' # "untraced" \/ trace = trace']_vars

\* The sweep removes what a previous run left: it removes every container with
\* the label, also those another process is running.
SweepsOnlyStale ==
  [][\A r \in Active : cid[r] # NoCid /\ state'[cid[r]] = "absent" => At(r, "remove")]_vars
=============================================================================
