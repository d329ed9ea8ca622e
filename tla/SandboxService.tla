---------------------------- MODULE SandboxService ----------------------------
(***************************************************************************)
(* The execution layer behind the customer engine (neurons/sandbox.py) and *)
(* the way its client fetches champion code (phylax/server_client.py).     *)
(* One event loop runs the handlers of all requests, first come first      *)
(* served; a handler packs the files and fetches the agent without giving  *)
(* the loop away, then waits for one of the pool's threads to run it.      *)
(* Meanwhile miners submit new code, callers ask for the hash of an older  *)
(* one, and the service may restart.                                       *)
(***************************************************************************)
EXTENDS Integers, FiniteSets, SequencesExt

CONSTANTS Requests,    \* requests in progress at a time
          WORKERS,     \* threads of the pool
          MaxVersion,  \* bound: submissions of the champion's miner
          MaxRestarts, \* bound: restarts of the service
          NoOne        \* no request

NoCode == 0            \* the agent is withdrawn; in a request: no agent_hash

ASSUME ConstantsAssumption ==
  /\ IsFiniteSet(Requests) /\ NoOne \notin Requests
  /\ WORKERS \in Nat \ {0} /\ MaxVersion \in Nat /\ MaxRestarts \in Nat

VARIABLES
  pc,       \* per request: where its handler is
  want,     \* agent_hash, by version
  runnable, \* the code fetched for it, by version
  said,     \* history: what the backend answered to the fetch
  result,   \* of run_task
  answer,   \* the HTTP status
  ready,    \* handlers the event loop has to resume, in order
  loop,     \* the handler whose fetch blocks the loop
  queue,    \* the pool's queue
  served, submitted,  \* the backend's code of the agent, and versions so far
  restarts

slot == <<pc, want, runnable, said, result, answer>>
vars == <<slot, ready, loop, queue, served, submitted, restarts>>

Init ==
  /\ pc = [r \in Requests |-> "idle"] /\ answer = [r \in Requests |-> "none"]
  /\ want = [r \in Requests |-> NoCode] /\ runnable = [r \in Requests |-> NoCode]
  /\ said = [r \in Requests |-> "none"] /\ result = [r \in Requests |-> "none"]
  /\ ready = <<>> /\ loop = NoOne /\ queue = <<>>
  /\ served = NoCode /\ submitted = 0 /\ restarts = 0

Go(r, where) == pc' = [pc EXCEPT ![r] = where]
Answers(r, status) == Go(r, "idle") /\ answer' = [answer EXCEPT ![r] = status]
backend == <<served, submitted>>

-----------------------------------------------------------------------------
(* One request                                                              *)

\* The token guard and the request's schema let it in; the hash may be that of
\* any code the backend ever saw, or none.
Arrives(r) ==
  /\ pc[r] = "idle" /\ Go(r, "accepted") /\ ready' = Append(ready, r)
  /\ want' \in {[want EXCEPT ![r] = v] : v \in 0..submitted}
  /\ runnable' = [runnable EXCEPT ![r] = NoCode] /\ said' = [said EXCEPT ![r] = "none"]
  /\ result' = [result EXCEPT ![r] = "none"] /\ answer' = [answer EXCEPT ![r] = "none"]
  /\ UNCHANGED <<loop, queue, backend, restarts>>

\* pack refuses too many, too large or escaping files; otherwise the fetch
\* holds the loop.
HandlerStarts(r) ==
  /\ loop = NoOne /\ ready # <<>> /\ Head(ready) = r /\ pc[r] = "accepted"
  /\ ready' = Tail(ready)
  /\ \/ Answers(r, "bad files") /\ UNCHANGED loop
     \/ Go(r, "fetch") /\ loop' = r /\ UNCHANGED answer
  /\ UNCHANGED <<want, runnable, said, result, queue, backend, restarts>>

\* Where the fetch brings no code: on the sandbox's path a 404 is no agent, and so
\* is an answer without a body or without code; any other error and an outage leave
\* the handler as an exception.
Refused(reason) == IF reason \in {"missing", "blank"} THEN "404" ELSE "500"

AsAskedUnchecked(asked, code) == TRUE  \* Mutant: the hash is not compared.
AsAsked(asked, code) == asked = NoCode \/ asked = code

FetchReturns(r) ==
  /\ loop = r /\ loop' = NoOne
  /\ \E reason \in {"code", "missing", "blank", "rejected", "unreachable"} :
       /\ reason = "code" => served # NoCode
       /\ reason = "missing" => served = NoCode
       /\ said' = [said EXCEPT ![r] = reason]
       /\ IF reason # "code" THEN Answers(r, Refused(reason)) /\ UNCHANGED <<runnable, queue>>
          ELSE /\ runnable' = [runnable EXCEPT ![r] = served]
               /\ IF AsAsked(want[r], served)
                    THEN Go(r, "pool") /\ queue' = Append(queue, r) /\ UNCHANGED answer
                    ELSE Answers(r, "409") /\ UNCHANGED queue
  /\ UNCHANGED <<want, result, ready, backend, restarts>>

Running == {r \in Requests : pc[r] = "running"}

ThreadTakesLast ==     \* Mutant: the queue is a stack.
  /\ queue # <<>> /\ Cardinality(Running) < WORKERS
  /\ Go(Last(queue), "running") /\ queue' = Front(queue)
  /\ UNCHANGED <<want, runnable, said, result, answer, ready, loop, backend, restarts>>

ThreadTakes ==
  /\ queue # <<>> /\ Cardinality(Running) < WORKERS
  /\ Go(Head(queue), "running") /\ queue' = Tail(queue)
  /\ UNCHANGED <<want, runnable, said, result, answer, ready, loop, backend, restarts>>

\* Mutant: an exception other than InfraFailure ends the thread's work unheard.
EndsUnheard(r) ==
  /\ pc[r] = "running"
  /\ \E o \in {"report", "failed", "infra", "raised"} :
       /\ result' = [result EXCEPT ![r] = o]
       /\ ready' = IF o = "raised" THEN ready ELSE Append(ready, r)
  /\ Go(r, "ended")
  /\ UNCHANGED <<want, runnable, said, answer, loop, queue, backend, restarts>>

\* run_task ends, with a report, without one or with an exception; the loop is told.
Ends(r) ==
  /\ pc[r] = "running"
  /\ \E o \in {"report", "failed", "infra", "raised"} : result' = [result EXCEPT ![r] = o]
  /\ ready' = Append(ready, r) /\ Go(r, "ended")
  /\ UNCHANGED <<want, runnable, said, answer, loop, queue, backend, restarts>>

Status == [report |-> "200", failed |-> "422", infra |-> "503", raised |-> "500"]

HandlerResumes(r) ==
  /\ loop = NoOne /\ ready # <<>> /\ Head(ready) = r /\ pc[r] = "ended"
  /\ ready' = Tail(ready) /\ Answers(r, Status[result[r]])
  /\ UNCHANGED <<want, runnable, said, result, loop, queue, backend, restarts>>

-----------------------------------------------------------------------------
(* The environment                                                          *)

Submits ==
  /\ submitted < MaxVersion /\ submitted' = submitted + 1 /\ served' = submitted'
  /\ UNCHANGED <<slot, ready, loop, queue, restarts>>

Withdraws ==
  /\ served # NoCode /\ served' = NoCode
  /\ UNCHANGED <<slot, ready, loop, queue, submitted, restarts>>

\* The process ends with every request in it; their callers see the connection go.
ServiceRestarts ==
  /\ restarts < MaxRestarts /\ restarts' = restarts + 1
  /\ pc' = [r \in Requests |-> "idle"]
  /\ answer' = [r \in Requests |-> IF pc[r] = "idle" THEN answer[r] ELSE "cut off"]
  /\ ready' = <<>> /\ loop' = NoOne /\ queue' = <<>>
  /\ UNCHANGED <<want, runnable, said, result, backend>>

Step(r) == HandlerStarts(r) \/ FetchReturns(r) \/ Ends(r) \/ HandlerResumes(r)

Next ==
  \/ \E r \in Requests : Arrives(r) \/ Step(r)
  \/ ThreadTakes \/ Submits \/ Withdraws \/ ServiceRestarts

Spec == Init /\ [][Next]_vars

\* The loop resumes what is ready, the pool takes what is queued, a fetch has
\* its timeout and a run its budgets.
FairSpec == Spec /\ WF_vars(ThreadTakes) /\ \A r \in Requests : WF_vars(Step(r))

-----------------------------------------------------------------------------
(* What must hold                                                           *)

Versions == 0..submitted

\* The variables stay in their domains; a request is in one place only: ready
\* for the loop, blocking it, queued for the pool, or in a thread.
TypeOK ==
  /\ pc \in [Requests -> {"idle", "accepted", "fetch", "pool", "running", "ended"}]
  /\ want \in [Requests -> Versions] /\ runnable \in [Requests -> Versions]
  /\ said \in [Requests -> {"none", "code", "missing", "blank", "rejected", "unreachable"}]
  /\ result \in [Requests -> {"none"} \cup DOMAIN Status]
  /\ answer \in [Requests -> {"none", "bad files", "200", "404", "409", "422", "500", "503",
                              "cut off"}]
  /\ IsInjective(ready) /\ ToSet(ready) = {r \in Requests : pc[r] \in {"accepted", "ended"}}
  /\ IsInjective(queue) /\ ToSet(queue) = {r \in Requests : pc[r] = "pool"}
  /\ {r \in Requests : pc[r] = "fetch"} = {loop} \ {NoOne}
  /\ served \in Versions /\ submitted \in 0..MaxVersion /\ restarts \in 0..MaxRestarts

\* A report handed to a caller is of the code the caller asked for, though the
\* miner may have submitted other code before the fetch or since.
ReportIsOfAskedCode ==
  \A r \in Requests : answer[r] = "200" /\ want[r] # NoCode => runnable[r] = want[r]

\* Only a 404 becomes None, and "agent not runnable" is what the backend said: an
\* answer without a body or without code reads the same.
MissingMeansMissing == \A r \in Requests : answer[r] = "404" => said[r] = "missing"

\* Every request is answered, whatever the other requests do to loop and pool.
EveryRequestAnswered == \A r \in Requests : pc[r] # "idle" ~> pc[r] = "idle"
=============================================================================
