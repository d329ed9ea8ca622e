--------------------------- MODULE InferenceProxy ---------------------------
(***************************************************************************)
(* The metered inference proxy (phylax/harness/inference_proxy.py): one    *)
(* thread per request, the sessions and the meter in two dictionaries      *)
(* under one lock.  The validator registers a session for a task's nonce,  *)
(* the task's agent sends chat calls under that nonce, the upstream model  *)
(* answers, refuses or does not answer, and the validator reads the meter. *)
(* The proxy keeps nothing on disk.                                        *)
(***************************************************************************)
EXTENDS Integers, FiniteSets

CONSTANTS Nonces,       \* the tasks' nonces
          Threads,      \* handler threads of chat calls
          MaxRequests,  \* PHYLAX_MAX_REQUESTS_PER_TASK
          MaxTokens,    \* PHYLAX_MAX_TOKENS_PER_TASK
          MaxAnswer,    \* the most tokens one answer is billed
          NoNonce       \* what a free thread serves

ASSUME ConstantsAssumption ==
  /\ IsFiniteSet(Threads) /\ NoNonce \notin Nonces
  /\ MaxRequests \in Nat \ {0} /\ MaxTokens \in Nat \ {0} /\ MaxAnswer \in Nat

\* Whether the validator and the proxy share PHYLAX_PROXY_ADMIN_TOKEN: without
\* it no session is ever registered and no meter ever read.
VARIABLES metered,
          sessions,     \* _SESSIONS: the nonces with a registered key
          metrics,      \* _METRICS
          nonce, step,  \* per handler thread: the task it serves, and where it is
          late          \* history: threads whose session was replaced since

proxyVars == <<metered, sessions, metrics, nonce, step, late>>

\* A row that does not exist reads as all zero; failures are kept as flags.
NoUsage == [requests |-> 0, tokens |-> 0, failed |-> FALSE, keyFailed |-> FALSE]
Steps   == {"free", "checking", "upstream", "answered"}

ProxyInit ==
  /\ metered \in BOOLEAN /\ sessions = {} /\ metrics = [n \in Nonces |-> NoUsage]
  /\ nonce = [h \in Threads |-> NoNonce] /\ step = [h \in Threads |-> "free"]
  /\ late = {}

At(h, s) == step[h] = s
Go(h, s) == step' = [step EXCEPT ![h] = s]

\* Mutant: the thread is free before it has let go of its task.
LeaveKeepingNonce(h) == Go(h, "free") /\ UNCHANGED <<nonce, late>>
Leave(h) == /\ Go(h, "free") /\ nonce' = [nonce EXCEPT ![h] = NoNonce]
            /\ late' = late \ {h}

-----------------------------------------------------------------------------
(* The agent's surface: POST /v1/chat/completions                           *)

\* The session is copied under the lock; a call that names none is refused
\* unless the proxy runs unmetered, where the agent brings its own key.
Receive(h, n) ==
  /\ At(h, "free") /\ (metered => n \in sessions)
  /\ Go(h, "checking") /\ nonce' = [nonce EXCEPT ![h] = n]
  /\ UNCHANGED <<metered, sessions, metrics, late>>

\* Mutant: the limit itself is still within the budget.
OverBudgetOffByOne(n) ==
  metrics[n].requests > MaxRequests \/ metrics[n].tokens >= MaxTokens
\* Mutant: the tokens are not looked at.
OverBudgetRequests(n) == metrics[n].requests >= MaxRequests
OverBudget(n) == metrics[n].requests >= MaxRequests \/ metrics[n].tokens >= MaxTokens

\* _over_budget reads the meter under the lock and lets it go.
CheckBudget(h) ==
  /\ At(h, "checking")
  /\ IF OverBudget(nonce[h])
       THEN Leave(h)
       ELSE Go(h, "upstream") /\ UNCHANGED <<nonce, late>>
  /\ UNCHANGED <<metered, sessions, metrics>>

UpstreamAnswers(h) ==
  /\ At(h, "upstream") /\ Go(h, "answered")
  /\ UNCHANGED <<metered, sessions, metrics, nonce, late>>

\* An HTTP error is noted with whether it blames the key, not as a call.
Noted(row, keyFault) ==
  [row EXCEPT !.failed = TRUE, !.keyFailed = row.keyFailed \/ keyFault]

UpstreamRefuses(h, keyFault) ==
  /\ At(h, "upstream")
  /\ metrics' = [metrics EXCEPT ![nonce[h]] = Noted(metrics[nonce[h]], keyFault)]
  /\ Leave(h) /\ UNCHANGED <<metered, sessions>>

\* A transport error or the time limit: 502, and nothing is noted.
UpstreamFails(h) ==
  /\ At(h, "upstream") /\ Leave(h) /\ UNCHANGED <<metered, sessions, metrics>>

\* _record, after the whole answer was read.
Counted(row, spent) ==
  [requests |-> row.requests + 1, tokens |-> row.tokens + spent,
   failed |-> row.failed, keyFailed |-> row.keyFailed]

Record(h) ==
  /\ At(h, "answered")
  /\ \E spent \in 0..MaxAnswer :
       metrics' = [metrics EXCEPT ![nonce[h]] = Counted(metrics[nonce[h]], spent)]
  /\ Leave(h) /\ UNCHANGED <<metered, sessions>>

-----------------------------------------------------------------------------
(* The admin surface, and the process                                       *)

Serving(ns) == {h \in Threads : nonce[h] \in ns}

\* POST /session, also for a nonce whose session is replaced.
Register(n) ==
  /\ metered /\ sessions' = sessions \cup {n}
  /\ metrics' = [metrics EXCEPT ![n] = NoUsage]
  /\ late' = late \cup Serving({n})
  /\ UNCHANGED <<metered, nonce, step>>

\* POST /metrics/reset, for the nonces ns.
Reset(ns) ==
  /\ metered /\ sessions' = sessions \ ns
  /\ metrics' = [n \in Nonces |-> IF n \in ns THEN NoUsage ELSE metrics[n]]
  /\ late' = late \cup Serving(ns)
  /\ UNCHANGED <<metered, nonce, step>>

ProxyRestarts ==
  /\ sessions' = {} /\ metrics' = [n \in Nonces |-> NoUsage]
  /\ nonce' = [h \in Threads |-> NoNonce] /\ step' = [h \in Threads |-> "free"]
  /\ late' = {} /\ UNCHANGED metered

HandlerStep(h) ==
  \/ CheckBudget(h) \/ UpstreamAnswers(h) \/ UpstreamFails(h) \/ Record(h)
  \/ \E keyFault \in BOOLEAN : UpstreamRefuses(h, keyFault)

AgentCalls == \E h \in Threads, n \in Nonces : Receive(h, n)

ProxyNext ==
  \/ AgentCalls \/ \E h \in Threads : HandlerStep(h)
  \/ \E n \in Nonces : Register(n)
  \/ \E ns \in {Nonces} \cup {{n} : n \in Nonces} : Reset(ns)
  \/ ProxyRestarts

ProxySpec == ProxyInit /\ [][ProxyNext]_proxyVars

-----------------------------------------------------------------------------
(* What must hold                                                           *)

Forwarded(n) == {h \in Threads : nonce[h] = n /\ step[h] \in {"upstream", "answered"}}

Usages == [requests : Nat, tokens : Nat, failed : BOOLEAN, keyFailed : BOOLEAN]

\* Every variable stays in its domain, and a thread serves a task until it ends.
ProxyTypeOK ==
  /\ metered \in BOOLEAN /\ sessions \in SUBSET Nonces
  /\ metrics \in [Nonces -> Usages]
  /\ nonce \in [Threads -> Nonces \cup {NoNonce}] /\ step \in [Threads -> Steps]
  /\ \A h \in Threads : nonce[h] = NoNonce <=> step[h] = "free"
  /\ late \in SUBSET Threads

\* A task never draws more answers than its request budget and one call less
\* than the threads it can occupy: the check and the count are two separate
\* critical sections, and every thread may pass the first before any counts,
\* also across a session that is replaced while calls are out.
OvershootBounded ==
  \A n \in Nonces :
    metrics[n].requests + Cardinality(Forwarded(n))
      <= MaxRequests - 1 + Cardinality(Threads)

\* The same of the token budget, an answer never being billed above MaxAnswer.
TokenOvershootBounded ==
  \A n \in Nonces :
    metrics[n].tokens + MaxAnswer * Cardinality(Forwarded(n))
      <= MaxTokens - 1 + MaxAnswer * Cardinality(Threads)

-----------------------------------------------------------------------------
(* What the source says and the code does not do                            *)

\* "Budget is enforced here": concurrent calls of one task pass it together.
BudgetEnforced == \A n \in Nonces : metrics[n].requests <= MaxRequests

\* The meter is "the liveness signal the validator reads to confirm an agent
\* really did work": a call of the run before the session was replaced counts
\* for the run after it.
CountsThisSession ==
  [][\A h \in Threads : At(h, "answered") /\ step'[h] = "free" /\ h \in late =>
       metrics'[nonce[h]] = metrics[nonce[h]] \/ metrics'[nonce[h]] = NoUsage]_proxyVars
=============================================================================
