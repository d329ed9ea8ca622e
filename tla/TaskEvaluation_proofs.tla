------------------------ MODULE TaskEvaluation_proofs ------------------------
(***************************************************************************)
(* What an evaluation and the proxy it is metered through guarantee for    *)
(* any task set, any number of repetitions and handler threads and any     *)
(* budgets: how far concurrent calls overshoot a task's budgets, that the  *)
(* evaluation is an execution of the proxy's specification, that what is   *)
(* attested is what is tallied, and that a verdict is the voters' median.  *)
(***************************************************************************)
EXTENDS TaskEvaluation, FiniteSetTheorems, FunctionTheorems, TLAPS

-----------------------------------------------------------------------------
(* The proxy by itself: types                                               *)

\* An unused row of the meter is a row.
LEMMA NoUsageType == NoUsage \in Usages
BY DEF NoUsage, Usages

\* _record_upstream_error and _record turn a row into a row.
LEMMA NotedType ==
  ASSUME NEW row \in Usages, NEW keyFault \in BOOLEAN
  PROVE  Noted(row, keyFault) \in Usages
BY DEF Noted, Usages

LEMMA CountedType ==
  ASSUME NEW row \in Usages, NEW spent \in 0..MaxAnswer
  PROVE  Counted(row, spent) \in Usages
BY ConstantsAssumption DEF Counted, Usages

\* The proxy starts with every variable in its domain.
LEMMA ProxyTypeInit == ProxyInit => ProxyTypeOK
BY NoUsageType, ConstantsAssumption DEF ProxyInit, ProxyTypeOK, Steps

\* Steps of the handlers, the admin surface and restarts keep the domains.
LEMMA ProxyTypeStep == ASSUME ProxyTypeOK, [ProxyNext]_proxyVars PROVE ProxyTypeOK'
<1> USE ConstantsAssumption DEF ProxyTypeOK, Steps
<1>1. ASSUME NEW h \in Threads, NEW t \in Nonces, Receive(h, t) PROVE ProxyTypeOK'
  BY <1>1 DEF Receive, At, Go
<1>2. ASSUME NEW h \in Threads, Leave(h) PROVE
        /\ nonce' \in [Threads -> Nonces \cup {NoNonce}] /\ step' \in [Threads -> Steps]
        /\ \A g \in Threads : nonce'[g] = NoNonce <=> step'[g] = "free"
        /\ late' \in SUBSET Threads
  BY <1>2 DEF Leave, Go
<1>3. ASSUME NEW h \in Threads, CheckBudget(h) PROVE ProxyTypeOK'
  <2>1. CASE OverBudget(nonce[h])
    BY <1>2, <1>3, <2>1 DEF CheckBudget
  <2>2. CASE ~OverBudget(nonce[h])
    BY <1>3, <2>2 DEF CheckBudget, At, Go
  <2>3. QED
    BY <2>1, <2>2
<1>4. ASSUME NEW h \in Threads, UpstreamAnswers(h) PROVE ProxyTypeOK'
  BY <1>4 DEF UpstreamAnswers, At, Go
<1>5. ASSUME NEW h \in Threads, NEW keyFault \in BOOLEAN, UpstreamRefuses(h, keyFault)
      PROVE  ProxyTypeOK'
  <2>1. nonce[h] \in Nonces
    BY <1>5 DEF UpstreamRefuses, At
  <2>2. metrics' \in [Nonces -> Usages]
    BY <1>5, <2>1, NotedType DEF UpstreamRefuses
  <2>3. QED
    BY <1>2, <1>5, <2>2 DEF UpstreamRefuses
<1>6. ASSUME NEW h \in Threads, UpstreamFails(h) PROVE ProxyTypeOK'
  BY <1>2, <1>6 DEF UpstreamFails
<1>7. ASSUME NEW h \in Threads, Record(h) PROVE ProxyTypeOK'
  <2>1. nonce[h] \in Nonces
    BY <1>7 DEF Record, At
  <2>2. metrics' \in [Nonces -> Usages]
    BY <1>7, <2>1, CountedType DEF Record
  <2>3. QED
    BY <1>2, <1>7, <2>2 DEF Record
<1>8. ASSUME NEW t \in Nonces, Register(t) PROVE ProxyTypeOK'
  BY <1>8, NoUsageType DEF Register, Serving
<1>9. ASSUME NEW ns \in {Nonces} \cup {{t} : t \in Nonces}, Reset(ns) PROVE ProxyTypeOK'
  BY <1>9, NoUsageType DEF Reset, Serving
<1>10. CASE ProxyRestarts
  BY <1>10, NoUsageType DEF ProxyRestarts
<1>11. CASE UNCHANGED proxyVars
  BY <1>11 DEF proxyVars
<1>12. QED
  BY <1>1, <1>3, <1>4, <1>5, <1>6, <1>7, <1>8, <1>9, <1>10, <1>11
     DEF ProxyNext, AgentCalls, HandlerStep

-----------------------------------------------------------------------------
(* Calls that are out, and the budgets                                      *)

\* The calls of a task that are out are finitely many, at most one per thread.
LEMMA ForwardedFinite ==
  ASSUME NEW t
  PROVE  /\ IsFiniteSet(Forwarded(t)) /\ Cardinality(Forwarded(t)) \in Nat
         /\ Cardinality(Threads) \in Nat
         /\ Cardinality(Forwarded(t)) <= Cardinality(Threads)
<1>1. Forwarded(t) \in SUBSET Threads
  BY DEF Forwarded
<1>2. QED
  BY <1>1, ConstantsAssumption, FS_Subset, FS_CardinalityType

\* The same in the next state.
LEMMA ForwardedFiniteNext ==
  ASSUME NEW t
  PROVE  /\ IsFiniteSet(Forwarded(t)') /\ Cardinality(Forwarded(t)') \in Nat
         /\ Cardinality(Forwarded(t)') <= Cardinality(Threads)
<1>1. Forwarded(t)' \in SUBSET Threads
  BY DEF Forwarded
<1>2. QED
  BY <1>1, ConstantsAssumption, FS_Subset, FS_CardinalityType

\* What a step does to the row of a task and to its calls that are out: the row
\* counts the same and no call goes out; a call goes out within the budgets; the
\* row is cleared; or a call comes back and is counted.
Quiet(t) ==
  /\ metrics'[t].requests = metrics[t].requests /\ metrics'[t].tokens = metrics[t].tokens
  /\ Forwarded(t)' \subseteq Forwarded(t)
Admitted(t) == ~OverBudget(t) /\ metrics'[t] = metrics[t]
Cleared(t) == metrics'[t] = NoUsage
Returned(t) ==
  \E h \in Forwarded(t), spent \in 0..MaxAnswer :
    Forwarded(t)' = Forwarded(t) \ {h} /\ metrics'[t] = Counted(metrics[t], spent)

\* Each step does one of the four to each task.
LEMMA StepKinds ==
  ASSUME ProxyTypeOK, [ProxyNext]_proxyVars, NEW t \in Nonces
  PROVE  Quiet(t) \/ Admitted(t) \/ Cleared(t) \/ Returned(t)
<1> USE ConstantsAssumption DEF ProxyTypeOK
<1> DEFINE Kinds == Quiet(t) \/ Admitted(t) \/ Cleared(t) \/ Returned(t)
<1>1. ASSUME NEW h \in Threads, NEW m \in Nonces, Receive(h, m) PROVE Kinds
  BY <1>1 DEF Receive, At, Go, Quiet, Forwarded
<1>2. ASSUME NEW h \in Threads, Leave(h) PROVE Forwarded(t)' \subseteq Forwarded(t)
  BY <1>2 DEF Leave, Go, Forwarded
<1>3. ASSUME NEW h \in Threads, CheckBudget(h) PROVE Kinds
  <2>1. CASE OverBudget(nonce[h])
    BY <1>2, <1>3, <2>1 DEF CheckBudget, Quiet
  <2>2. CASE ~OverBudget(nonce[h]) /\ nonce[h] = t
    BY <1>3, <2>2 DEF CheckBudget, Admitted
  <2>3. CASE ~OverBudget(nonce[h]) /\ nonce[h] # t
    BY <1>3, <2>3 DEF CheckBudget, At, Go, Quiet, Forwarded
  <2>4. QED
    BY <2>1, <2>2, <2>3
<1>4. ASSUME NEW h \in Threads, UpstreamAnswers(h) PROVE Kinds
  BY <1>4 DEF UpstreamAnswers, At, Go, Quiet, Forwarded
<1>5. ASSUME NEW h \in Threads, NEW keyFault \in BOOLEAN, UpstreamRefuses(h, keyFault)
      PROVE  Kinds
  <2>1. /\ metrics'[t].requests = metrics[t].requests
        /\ metrics'[t].tokens = metrics[t].tokens
    BY <1>5 DEF UpstreamRefuses, Noted, Usages
  <2>2. QED
    BY <1>2, <1>5, <2>1 DEF UpstreamRefuses, Quiet
<1>6. ASSUME NEW h \in Threads, UpstreamFails(h) PROVE Kinds
  BY <1>2, <1>6 DEF UpstreamFails, Quiet
<1>7. ASSUME NEW h \in Threads, Record(h) PROVE Kinds
  <2>1. PICK spent \in 0..MaxAnswer :
          metrics' = [metrics EXCEPT ![nonce[h]] = Counted(metrics[nonce[h]], spent)]
    BY <1>7 DEF Record
  <2>2. CASE nonce[h] = t
    <3>1. h \in Forwarded(t) /\ Forwarded(t)' = Forwarded(t) \ {h}
      BY <1>7, <2>2 DEF Record, At, Leave, Go, Forwarded
    <3>2. metrics'[t] = Counted(metrics[t], spent)
      BY <2>1, <2>2
    <3>3. QED
      BY <3>1, <3>2 DEF Returned
  <2>3. CASE nonce[h] # t
    BY <1>2, <1>7, <2>1, <2>3 DEF Record, Quiet
  <2>4. QED
    BY <2>2, <2>3
<1>8. ASSUME NEW m \in Nonces, Register(m) PROVE Kinds
  <2>1. Forwarded(t)' = Forwarded(t)
    BY <1>8 DEF Register, Forwarded
  <2>2. QED
    BY <1>8, <2>1 DEF Register, Quiet, Cleared
<1>9. ASSUME NEW ns, Reset(ns) PROVE Kinds
  <2>1. Forwarded(t)' = Forwarded(t)
    BY <1>9 DEF Reset, Forwarded
  <2>2. QED
    BY <1>9, <2>1 DEF Reset, Quiet, Cleared
<1>10. CASE ProxyRestarts
  BY <1>10 DEF ProxyRestarts, Cleared
<1>11. CASE UNCHANGED proxyVars
  BY <1>11 DEF proxyVars, Quiet, Forwarded
<1>12. QED
  BY <1>1, <1>3, <1>4, <1>5, <1>6, <1>7, <1>8, <1>9, <1>10, <1>11
     DEF ProxyNext, AgentCalls, HandlerStep

\* The request budget is overshot by less than the threads.
LEMMA RequestsStep ==
  ASSUME ProxyTypeOK, OvershootBounded, [ProxyNext]_proxyVars
  PROVE  OvershootBounded'
<1> SUFFICES ASSUME NEW t \in Nonces
             PROVE  (metrics[t].requests + Cardinality(Forwarded(t)))'
                      <= MaxRequests - 1 + Cardinality(Threads)
  BY DEF OvershootBounded
<1> DEFINE before == Cardinality(Forwarded(t))
<1> DEFINE after == Cardinality(Forwarded(t)')
<1> DEFINE threads == Cardinality(Threads)
<1>1. /\ before \in Nat /\ after \in Nat /\ threads \in Nat
      /\ before <= threads /\ after <= threads
  BY ForwardedFinite, ForwardedFiniteNext
<1>2. metrics[t].requests \in Nat /\ MaxRequests \in Nat \ {0}
  BY ConstantsAssumption DEF ProxyTypeOK, Usages
<1>3. metrics[t].requests + before <= MaxRequests - 1 + threads
  BY DEF OvershootBounded
<1>4. Quiet(t) \/ Admitted(t) \/ Cleared(t) \/ Returned(t)
  BY StepKinds
<1>5. CASE Quiet(t)
  <2>1. after <= before
    BY <1>5, ForwardedFinite, FS_Subset DEF Quiet
  <2>2. metrics'[t].requests = metrics[t].requests
    BY <1>5 DEF Quiet
  <2> HIDE DEF before, after, threads
  <2>3. metrics'[t].requests + after <= MaxRequests - 1 + threads
    BY <1>1, <1>2, <1>3, <2>1, <2>2
  <2>4. QED
    BY <2>3 DEF after, threads
<1>6. CASE Admitted(t)
  <2>1. metrics'[t].requests = metrics[t].requests /\ ~(metrics[t].requests >= MaxRequests)
    BY <1>6 DEF Admitted, OverBudget
  <2> HIDE DEF before, after, threads
  <2>2. metrics'[t].requests + after <= MaxRequests - 1 + threads
    BY <1>1, <1>2, <2>1
  <2>3. QED
    BY <2>2 DEF after, threads
<1>7. CASE Cleared(t)
  <2>1. metrics'[t].requests = 0
    BY <1>7 DEF Cleared, NoUsage
  <2> HIDE DEF before, after, threads
  <2>2. metrics'[t].requests + after <= MaxRequests - 1 + threads
    BY <1>1, <1>2, <2>1
  <2>3. QED
    BY <2>2 DEF after, threads
<1>8. CASE Returned(t)
  <2>1. PICK h \in Forwarded(t), spent \in 0..MaxAnswer :
          Forwarded(t)' = Forwarded(t) \ {h} /\ metrics'[t] = Counted(metrics[t], spent)
    BY <1>8 DEF Returned
  <2>2. after = before - 1
    BY <2>1, ForwardedFinite, FS_RemoveElement
  <2>3. metrics'[t].requests = metrics[t].requests + 1
    BY <2>1 DEF Counted
  <2> HIDE DEF before, after, threads
  <2>4. metrics'[t].requests + after <= MaxRequests - 1 + threads
    BY <1>1, <1>2, <1>3, <2>2, <2>3
  <2>5. QED
    BY <2>4 DEF after, threads
<1>9. QED
  BY <1>4, <1>5, <1>6, <1>7, <1>8

\* What the token bound needs of products.
LEMMA TimesMonotone ==
  ASSUME NEW c \in Nat, NEW a \in Nat, NEW b \in Nat, a <= b
  PROVE  c * a \in Nat /\ c * b \in Nat /\ c * a <= c * b
<1>1. PICK d \in Nat : b = a + d
  <2>1. b - a \in Nat /\ b = a + (b - a)
    OBVIOUS
  <2>2. QED
    BY <2>1
<1>2. c * b = c * a + c * d /\ c * a \in Nat /\ c * d \in Nat
  BY <1>1
<1> DEFINE x == c * a
<1> DEFINE y == c * b
<1> DEFINE z == c * d
<1>3. x \in Nat /\ z \in Nat /\ y = x + z
  BY <1>2
<1> HIDE DEF x, y, z
<1>4. y \in Nat /\ x <= y
  BY <1>3
<1>5. QED
  BY <1>3, <1>4 DEF x, y

LEMMA TimesLess == ASSUME NEW c \in Nat, NEW b \in Nat PROVE c * (b - 1) = c * b - c
OBVIOUS

\* The token budget is overshot by less than an answer of every thread.
LEMMA TokensStep ==
  ASSUME ProxyTypeOK, TokenOvershootBounded, [ProxyNext]_proxyVars
  PROVE  TokenOvershootBounded'
<1> SUFFICES ASSUME NEW t \in Nonces
             PROVE  metrics'[t].tokens + MaxAnswer * Cardinality(Forwarded(t)')
                      <= MaxTokens - 1 + MaxAnswer * Cardinality(Threads)
  BY DEF TokenOvershootBounded
<1> DEFINE before == Cardinality(Forwarded(t))
<1> DEFINE after == Cardinality(Forwarded(t)')
<1> DEFINE owed == MaxAnswer * before
<1> DEFINE owing == MaxAnswer * after
<1> DEFINE most == MaxAnswer * Cardinality(Threads)
<1>1. /\ before \in Nat /\ after \in Nat /\ Cardinality(Threads) \in Nat
      /\ after <= Cardinality(Threads)
  BY ForwardedFinite, ForwardedFiniteNext
<1>2. MaxAnswer \in Nat /\ MaxTokens \in Nat \ {0} /\ metrics[t].tokens \in Nat
  BY ConstantsAssumption DEF ProxyTypeOK, Usages
<1>3. owed \in Nat /\ owing \in Nat /\ most \in Nat /\ owing <= most
  BY <1>1, <1>2, TimesMonotone
<1>4. metrics[t].tokens + owed <= MaxTokens - 1 + most
  BY DEF TokenOvershootBounded
<1>5. Quiet(t) \/ Admitted(t) \/ Cleared(t) \/ Returned(t)
  BY StepKinds
<1>6. CASE Quiet(t)
  <2>1. after <= before
    BY <1>6, ForwardedFinite, FS_Subset DEF Quiet
  <2>2. owing <= owed
    BY <1>1, <1>2, <2>1, TimesMonotone
  <2>3. metrics'[t].tokens = metrics[t].tokens
    BY <1>6 DEF Quiet
  <2> HIDE DEF owed, owing, most
  <2>4. metrics'[t].tokens + owing <= MaxTokens - 1 + most
    BY <1>2, <1>3, <1>4, <2>2, <2>3
  <2>5. QED
    BY <2>4 DEF owing, most
<1>7. CASE Admitted(t)
  <2>1. metrics'[t].tokens = metrics[t].tokens /\ ~(metrics[t].tokens >= MaxTokens)
    BY <1>7 DEF Admitted, OverBudget
  <2> HIDE DEF owed, owing, most
  <2>2. metrics'[t].tokens + owing <= MaxTokens - 1 + most
    BY <1>2, <1>3, <2>1
  <2>3. QED
    BY <2>2 DEF owing, most
<1>8. CASE Cleared(t)
  <2>1. metrics'[t].tokens = 0
    BY <1>8 DEF Cleared, NoUsage
  <2> HIDE DEF owed, owing, most
  <2>2. metrics'[t].tokens + owing <= MaxTokens - 1 + most
    BY <1>2, <1>3, <2>1
  <2>3. QED
    BY <2>2 DEF owing, most
<1>9. CASE Returned(t)
  <2>1. PICK h \in Forwarded(t), spent \in 0..MaxAnswer :
          Forwarded(t)' = Forwarded(t) \ {h} /\ metrics'[t] = Counted(metrics[t], spent)
    BY <1>9 DEF Returned
  <2>2. after = before - 1
    BY <2>1, ForwardedFinite, FS_RemoveElement
  <2>3. owing = owed - MaxAnswer
    BY <1>1, <1>2, <2>2, TimesLess
  <2>4. metrics'[t].tokens = metrics[t].tokens + spent
    BY <2>1 DEF Counted
  <2> HIDE DEF owed, owing, most
  <2>5. metrics'[t].tokens + owing <= MaxTokens - 1 + most
    BY <1>2, <1>3, <1>4, <2>3, <2>4
  <2>6. QED
    BY <2>5 DEF owing, most
<1>10. QED
  BY <1>5, <1>6, <1>7, <1>8, <1>9

\* Every variable of the proxy keeps its domain, for any threads and tasks.
THEOREM ProxyTypeCorrect == ProxySpec => []ProxyTypeOK
BY ProxyTypeInit, ProxyTypeStep, PTL DEF ProxySpec

\* A task never draws more answers than its request budget and one call less
\* than the handler threads (_over_budget and _record are two critical sections).
THEOREM RequestsOvershoot == ProxySpec => []OvershootBounded
<1>1. ProxyInit => OvershootBounded
  <2> SUFFICES ASSUME ProxyInit, NEW t \in Nonces
               PROVE  metrics[t].requests + Cardinality(Forwarded(t))
                        <= MaxRequests - 1 + Cardinality(Threads)
    BY DEF OvershootBounded
  <2>1. metrics[t].requests = 0 /\ Forwarded(t) = {}
    BY DEF ProxyInit, NoUsage, Forwarded
  <2>2. Cardinality(Forwarded(t)) = 0 /\ Cardinality(Threads) \in Nat
    BY <2>1, FS_EmptySet, ForwardedFinite
  <2>3. QED
    BY <2>1, <2>2, ConstantsAssumption
<1>2. ProxyTypeOK /\ OvershootBounded /\ [ProxyNext]_proxyVars
        => ProxyTypeOK' /\ OvershootBounded'
  BY ProxyTypeStep, RequestsStep
<1>3. QED
  BY ProxyTypeInit, <1>1, <1>2, PTL DEF ProxySpec

\* It is billed fewer tokens than its budget and one answer of every thread
\* together, an answer never being billed above MaxAnswer.
THEOREM TokensOvershoot == ProxySpec => []TokenOvershootBounded
<1>1. ProxyInit => TokenOvershootBounded
  <2> SUFFICES ASSUME ProxyInit, NEW t \in Nonces
               PROVE  metrics[t].tokens + MaxAnswer * Cardinality(Forwarded(t))
                        <= MaxTokens - 1 + MaxAnswer * Cardinality(Threads)
    BY DEF TokenOvershootBounded
  <2>1. metrics[t].tokens = 0 /\ Forwarded(t) = {}
    BY DEF ProxyInit, NoUsage, Forwarded
  <2>2. Cardinality(Forwarded(t)) = 0 /\ Cardinality(Threads) \in Nat
    BY <2>1, FS_EmptySet, ForwardedFinite
  <2>3. /\ MaxAnswer * Cardinality(Forwarded(t)) = 0
        /\ MaxAnswer * Cardinality(Threads) \in Nat
    BY <2>2, ConstantsAssumption
  <2>4. QED
    BY <2>1, <2>3, ConstantsAssumption
<1>2. ProxyTypeOK /\ TokenOvershootBounded /\ [ProxyNext]_proxyVars
        => ProxyTypeOK' /\ TokenOvershootBounded'
  BY ProxyTypeStep, TokensStep
<1>3. QED
  BY ProxyTypeInit, <1>1, <1>2, PTL DEF ProxySpec

-----------------------------------------------------------------------------
(* The sorted votes and their median                                        *)

\* The places of a list of votes are finitely many.
LEMMA PlacesFinite ==
  ASSUME NEW s \in Seq(Nat), NEW A \in SUBSET DOMAIN s
  PROVE  /\ DOMAIN s = 1..Len(s) /\ Len(s) \in Nat
         /\ IsFiniteSet(A) /\ Cardinality(A) \in Nat
         /\ IsFiniteSet(DOMAIN s) /\ Cardinality(DOMAIN s) = Len(s)
<1>1. DOMAIN s = 1..Len(s) /\ Len(s) \in Nat
  OBVIOUS
<1>2. IsFiniteSet(1..Len(s)) /\ Cardinality(1..Len(s)) = Len(s)
  <2>1. /\ IsFiniteSet(1..Len(s))
        /\ Cardinality(1..Len(s)) = IF 1 > Len(s) THEN 0 ELSE Len(s) - 1 + 1
    <3>1. 1 \in Int /\ Len(s) \in Int
      BY <1>1
    <3>2. QED
      BY <3>1, FS_Interval, Zenon
  <2>2. (1 > Len(s) => Len(s) = 0) /\ Len(s) - 1 + 1 = Len(s)
    BY <1>1
  <2>3. QED
    BY <2>1, <2>2
<1>3. QED
  BY <1>1, <1>2, FS_Subset, FS_CardinalityType

\* The places that come before a place when a list is sorted without exchanging
\* equal votes.
Earlier(s, i) == {j \in DOMAIN s : s[j] < s[i] \/ (s[j] = s[i] /\ j < i)}

\* What is earlier than an earlier place is earlier, too.
LEMMA EarlierLess ==
  ASSUME NEW s \in Seq(Nat), NEW i \in DOMAIN s, NEW j \in DOMAIN s, i \in Earlier(s, j)
  PROVE  Cardinality(Earlier(s, i)) < Cardinality(Earlier(s, j))
<1>1. s[i] \in Nat /\ s[j] \in Nat /\ i \in Nat /\ j \in Nat
  BY PlacesFinite
<1>2. \A k \in DOMAIN s : s[k] \in Nat /\ k \in Nat
  BY PlacesFinite
<1>3. i \notin Earlier(s, i)
  BY <1>1 DEF Earlier
<1>4. Earlier(s, i) \cup {i} \subseteq Earlier(s, j)
  BY <1>1, <1>2 DEF Earlier
<1>5. Earlier(s, i) \in SUBSET DOMAIN s /\ Earlier(s, j) \in SUBSET DOMAIN s
  BY DEF Earlier
<1>6. /\ IsFiniteSet(Earlier(s, i)) /\ IsFiniteSet(Earlier(s, j))
      /\ Cardinality(Earlier(s, i)) \in Nat /\ Cardinality(Earlier(s, j)) \in Nat
  BY <1>5, PlacesFinite
<1>7. Cardinality(Earlier(s, i) \cup {i}) = Cardinality(Earlier(s, i)) + 1
  BY <1>3, <1>6, FS_AddElement
<1>8. Cardinality(Earlier(s, i) \cup {i}) <= Cardinality(Earlier(s, j))
  BY <1>4, <1>6, FS_Subset
<1>9. QED
  BY <1>6, <1>7, <1>8

\* Of two places one is earlier than the other.
LEMMA EarlierTotal ==
  ASSUME NEW s \in Seq(Nat), NEW i \in DOMAIN s, NEW j \in DOMAIN s, i # j
  PROVE  i \in Earlier(s, j) \/ j \in Earlier(s, i)
<1>1. s[i] \in Nat /\ s[j] \in Nat /\ i \in Nat /\ j \in Nat
  BY PlacesFinite
<1>2. QED
  BY <1>1 DEF Earlier

Sorts(p, s) == \A i, j \in DOMAIN s : i < j => s[p[i]] <= s[p[j]]

\* Every list of votes can be sorted: each place goes behind the earlier ones.
LEMMA SortingExists ==
  ASSUME NEW s \in Seq(Nat)
  PROVE  \E p \in Bijection(DOMAIN s, DOMAIN s) : Sorts(p, s)
<1> DEFINE D == DOMAIN s
<1> DEFINE rank == [i \in D |-> Cardinality(Earlier(s, i)) + 1]
<1>1. D = 1..Len(s) /\ Len(s) \in Nat /\ IsFiniteSet(D)
  BY PlacesFinite
<1>2. ASSUME NEW i \in D PROVE Cardinality(Earlier(s, i)) \in Nat /\ rank[i] \in D
  <2>1. i \notin Earlier(s, i)
    <3>1. i \in Nat /\ s[i] \in Nat
      BY <1>1
    <3>2. QED
      BY <3>1 DEF Earlier
  <2>2. Earlier(s, i) \in SUBSET D /\ Earlier(s, i) \in SUBSET (D \ {i})
    BY <2>1 DEF Earlier
  <2>3. Cardinality(Earlier(s, i)) \in Nat /\ Cardinality(D) = Len(s)
    BY <2>2, PlacesFinite
  <2>4. IsFiniteSet(D \ {i}) /\ Cardinality(D \ {i}) = Len(s) - 1
    BY <1>1, <2>3, FS_RemoveElement
  <2>5. Cardinality(Earlier(s, i)) <= Len(s) - 1
    BY <2>2, <2>4, FS_Subset
  <2>6. QED
    BY <1>1, <2>3, <2>5
<1>3. \A i, j \in D : rank[i] < rank[j] <=> i \in Earlier(s, j)
  <2>1. SUFFICES ASSUME NEW i \in D, NEW j \in D
                 PROVE  rank[i] < rank[j] <=> i \in Earlier(s, j)
    OBVIOUS
  <2>2. /\ rank[i] = Cardinality(Earlier(s, i)) + 1 /\ rank[j] = Cardinality(Earlier(s, j)) + 1
        /\ Cardinality(Earlier(s, i)) \in Nat /\ Cardinality(Earlier(s, j)) \in Nat
    BY <1>2
  <2> HIDE DEF rank
  <2>3. CASE i \in Earlier(s, j)
    <3>1. Cardinality(Earlier(s, i)) < Cardinality(Earlier(s, j))
      BY <2>3, EarlierLess
    <3>2. QED
      BY <2>2, <2>3, <3>1
  <2>4. CASE i = j
    <3>1. i \in Nat /\ s[i] \in Nat
      BY <1>1
    <3>2. QED
      BY <2>2, <2>4, <3>1 DEF Earlier
  <2>5. CASE i # j /\ i \notin Earlier(s, j)
    <3>1. j \in Earlier(s, i)
      BY <2>5, EarlierTotal
    <3>2. Cardinality(Earlier(s, j)) < Cardinality(Earlier(s, i))
      BY <3>1, EarlierLess
    <3>3. QED
      BY <2>2, <2>5, <3>2
  <2>6. QED
    BY <2>3, <2>4, <2>5
<1>4. \A i, j \in D : rank[i] = rank[j] => i = j
  <2>1. SUFFICES ASSUME NEW i \in D, NEW j \in D, rank[i] = rank[j], i # j PROVE FALSE
    OBVIOUS
  <2>2. rank[i] < rank[j] \/ rank[j] < rank[i]
    BY <1>3, <2>1, EarlierTotal
  <2>3. rank[i] \in Nat /\ rank[j] \in Nat
    BY <1>1, <1>2
  <2> HIDE DEF rank
  <2>4. QED
    BY <2>1, <2>2, <2>3
<1>5. rank \in [D -> D]
  BY <1>2
<1> HIDE DEF rank
<1>6. rank \in Bijection(D, D)
  <2>1. rank \in Injection(D, D)
    BY <1>4, <1>5, Fun_IsInj
  <2>2. rank \in Surjection(D, D)
    BY <1>1, <2>1, FS_Injection
  <2>3. QED
    BY <2>1, <2>2, Fun_IsBij
<1>7. PICK p \in Bijection(D, D) : \A i \in D : rank[p[i]] = i
  <2> DEFINE q == Inverse(rank, D, D)
  <2>1. q \in Bijection(D, D)
    BY <1>6, Fun_BijInverse
  <2>2. Range(rank) = D
    BY <1>6, Fun_BijectionProperties, Fun_SurjectionProperties
  <2>3. \A i \in D : rank[q[i]] = i
    BY <1>5, <2>2, Fun_InverseProperties
  <2> HIDE DEF q
  <2>4. QED
    BY <2>1, <2>3
<1>8. Sorts(p, s)
  <2> SUFFICES ASSUME NEW i \in D, NEW j \in D, i < j PROVE s[p[i]] <= s[p[j]]
    BY DEF Sorts
  <2>1. p[i] \in D /\ p[j] \in D
    <3>1. p \in [D -> D]
      BY <1>7, Fun_BijectionProperties
    <3>2. QED
      BY <3>1
  <2>2. p[i] \in Earlier(s, p[j])
    BY <1>3, <1>7, <2>1
  <2>3. s[p[i]] \in Nat /\ s[p[j]] \in Nat
    BY <2>1
  <2>4. QED
    BY <2>2, <2>3 DEF Earlier
<1>9. QED
  BY <1>8

\* The sorted list is the list in an order that sorts it.
LEMMA SortedOrder ==
  ASSUME NEW s \in Seq(Nat)
  PROVE  \E p \in Bijection(DOMAIN s, DOMAIN s) :
           Sorts(p, s) /\ Sorted(s) = [i \in DOMAIN s |-> s[p[i]]]
<1> DEFINE order == CHOOSE p \in Bijection(DOMAIN s, DOMAIN s) : Sorts(p, s)
<1>1. order \in Bijection(DOMAIN s, DOMAIN s) /\ Sorts(order, s)
  BY SortingExists
<1>2. Sorted(s) = [i \in DOMAIN s |-> s[order[i]]]
  BY DEF Sorted, Sorts
<1> HIDE DEF order
<1>3. QED
  BY <1>1, <1>2

\* The median is one of the votes; at least half of them are not above it and
\* less than half of them are below it.
LEMMA MedianHalves ==
  ASSUME NEW s \in Seq(Nat), s # <<>>
  PROVE  /\ \E k \in DOMAIN s : Median(s) = s[k]
         /\ 2 * Cardinality({i \in DOMAIN s : s[i] <= Median(s)}) >= Len(s)
         /\ 2 * Cardinality({i \in DOMAIN s : s[i] < Median(s)}) < Len(s)
<1> DEFINE D == DOMAIN s
<1> DEFINE m == (Len(s) - 1) \div 2 + 1
<1>1. D = 1..Len(s) /\ Len(s) \in Nat \ {0}
  BY PlacesFinite
<1>2. m \in D /\ m \in Nat /\ 2 * m >= Len(s) /\ 2 * (m - 1) < Len(s) /\ m - 1 \in Nat
  BY <1>1
<1>3. PICK p \in Bijection(D, D) : Sorts(p, s) /\ Sorted(s) = [i \in D |-> s[p[i]]]
  BY SortedOrder
<1>4. (\A i \in D : p[i] \in D) /\ (\A i, j \in D : p[i] = p[j] => i = j)
  <2>1. p \in [D -> D] /\ \A i, j \in D : p[i] = p[j] => i = j
    BY <1>3, Fun_BijectionProperties
  <2>2. QED
    BY <2>1
<1>5. Median(s) = s[p[m]]
  BY <1>2, <1>3 DEF Median
<1> HIDE DEF m
<1> DEFINE v == s[p[m]]
<1> DEFINE Upto == {i \in D : s[i] <= v}
<1> DEFINE Below == {i \in D : s[i] < v}
<1>6. v \in Nat /\ \A i \in D : s[i] \in Nat
  <2>1. \A i \in D : s[i] \in Nat
    OBVIOUS
  <2>2. QED
    BY <1>2, <1>4, <2>1
<1>7. m <= Cardinality(Upto) /\ Cardinality(Upto) \in Nat
  <2> DEFINE f == [i \in 1..m |-> p[i]]
  <2>1. ASSUME NEW i \in 1..m PROVE i \in D /\ p[i] \in Upto
    <3>1. i \in D /\ (i < m \/ i = m)
      BY <1>1, <1>2
    <3>2. s[p[i]] <= v
      <4>1. CASE i < m
        BY <1>2, <1>3, <3>1, <4>1 DEF Sorts
      <4>2. CASE i = m
        <5>1. s[p[i]] = v
          BY <4>2
        <5> HIDE DEF v
        <5>2. QED
          BY <1>6, <5>1
      <4>3. QED
        BY <3>1, <4>1, <4>2
    <3>3. QED
      BY <1>4, <3>1, <3>2
  <2>2. Upto \in SUBSET D
    OBVIOUS
  <2> HIDE DEF Upto
  <2>3. f \in Injection(1..m, Upto)
    <3>1. f \in [1..m -> Upto]
      BY <2>1
    <3>2. \A i, j \in 1..m : f[i] = f[j] => i = j
      BY <1>4, <2>1
    <3>3. QED
      BY <3>1, <3>2, Fun_IsInj
  <2> HIDE DEF f
  <2>4. IsFiniteSet(Upto) /\ Cardinality(Upto) \in Nat
    BY <2>2, PlacesFinite
  <2>5. Cardinality(1..m) <= Cardinality(Upto)
    BY <2>3, <2>4, FS_Injection
  <2>6. Cardinality(1..m) = m
    BY <1>1, <1>2, FS_Interval
  <2>7. QED
    BY <2>4, <2>5, <2>6
<1>8. Cardinality(Below) <= m - 1 /\ Cardinality(Below) \in Nat
  <2>1. \A i \in D : \E k \in D : p[k] = i
    BY Fun_BijectionProperties
  <2> DEFINE f == [i \in Below |-> CHOOSE k \in D : p[k] = i]
  <2>2. ASSUME NEW i \in Below PROVE f[i] \in D /\ p[f[i]] = i
    BY <2>1
  <2>3. ASSUME NEW i \in Below PROVE f[i] \in 1..(m - 1)
    <3>1. f[i] \in D /\ p[f[i]] = i /\ s[i] < v
      BY <2>2
    <3> HIDE DEF f
    <3>2. ASSUME f[i] > m \/ f[i] = m PROVE FALSE
      <4>1. v <= s[p[f[i]]]
        <5>1. CASE f[i] > m
          <6>1. m < f[i]
            BY <1>1, <1>2, <3>1, <5>1
          <6>2. QED
            BY <1>2, <1>3, <3>1, <6>1 DEF Sorts
        <5>2. CASE f[i] = m
          <6>1. s[p[f[i]]] = v
            BY <5>2
          <6> HIDE DEF v
          <6>2. QED
            BY <1>6, <6>1
        <5>3. QED
          BY <3>2, <5>1, <5>2
      <4>2. v <= s[i] /\ s[i] \in Nat
        BY <1>6, <3>1, <4>1
      <4> HIDE DEF v
      <4>3. QED
        BY <1>6, <3>1, <4>2
    <3>3. QED
      BY <1>1, <1>2, <3>1, <3>2
  <2>4. Below \in SUBSET D
    OBVIOUS
  <2>5. f \in [Below -> 1..(m - 1)]
    <3> HIDE DEF Below
    <3>1. QED
      BY <2>3
  <2>6. f \in Injection(Below, 1..(m - 1))
    <3>1. \A i, j \in Below : f[i] = f[j] => i = j
      BY <2>2
    <3> HIDE DEF f, Below
    <3>2. QED
      BY <2>5, <3>1, Fun_IsInj
  <2> HIDE DEF f, Below
  <2>7. IsFiniteSet(1..(m - 1)) /\ Cardinality(1..(m - 1)) = m - 1
    <3>1. m - 1 \in Int /\ (1 > m - 1 => m - 1 = 0)
      BY <1>2
    <3>2. IsFiniteSet(1..(m - 1)) /\ Cardinality(1..(m - 1)) = IF 1 > m - 1 THEN 0 ELSE (m - 1) - 1 + 1
      BY <3>1, FS_Interval
    <3>3. QED
      BY <1>2, <3>1, <3>2
  <2>8. Cardinality(Below) <= Cardinality(1..(m - 1))
    BY <2>6, <2>7, FS_Injection
  <2>9. QED
    BY <2>4, <2>7, <2>8, PlacesFinite
<1> HIDE DEF Upto, Below
<1>9. 2 * Cardinality(Upto) >= Len(s) /\ 2 * Cardinality(Below) < Len(s)
  BY <1>1, <1>2, <1>7, <1>8
<1>10. p[m] \in D
  BY <1>2, <1>4
<1>11. QED
  BY <1>5, <1>9, <1>10 DEF Upto, Below

-----------------------------------------------------------------------------
(* The types of the evaluation                                              *)

\* The worker's place, and what it has recorded, keep their domains.
PlaceOK ==
  /\ repository \in BOOLEAN /\ wpc \in {"idle", "session", "rep", "running", "reason", "end"}
  /\ task \in 1..Len(TaskOrder) /\ reps \in 0..Repetitions /\ wall \in BOOLEAN
  /\ ordinals \in Seq(1..3) /\ Len(ordinals) <= reps
  /\ wpc = "running" => Len(ordinals) < reps
  /\ passes \in 0..MaxPasses

Tally == (IF repository THEN RepoScores ELSE Verdicts) \cup {NoVerdict}
RecordOK ==
  /\ verdicts \in [Nonces -> Tally] /\ attested \subseteq Nonces \X BOOLEAN
  /\ failureReason \in Reasons \cup {NoVerdict}
  /\ submitted.score \in {"zero", "positive"} /\ submitted.reason \in Reasons \cup {NoVerdict}

\* The type invariant is that of the proxy and these two.
LEMMA TypeParts == TypeOK <=> ProxyTypeOK /\ PlaceOK /\ RecordOK
BY DEF TypeOK, PlaceOK, RecordOK, Tally

\* The task at hand has one of the nonces.
LEMMA NonceKnown == ASSUME PlaceOK PROVE n \in Nonces
BY EvaluationAssumption DEF PlaceOK, n

\* A step of the evaluation is a step of the proxy, or leaves it alone: its
\* sessions are opened for the task at hand, its calls made under that nonce.
LEMMA ComposedStep == ASSUME PlaceOK, [Next]_vars PROVE [ProxyNext]_proxyVars
<1>1. CASE Worker
  <2>1. CASE OpenSession
    BY <2>1, NonceKnown DEF OpenSession, ProxyNext
  <2>2. CASE ~OpenSession
    BY <1>1, <2>2 DEF Worker, BeginAgent, RepStarts, RepEnds, RepRaises, TaskFails, TaskTaken,
                      RepoTaskTaken, TaskRefused, ReasonNoted, EndAgent
  <2>3. QED
    BY <2>1, <2>2
<1>2. CASE AgentInfers
  BY <1>2, NonceKnown DEF AgentInfers, ProxyNext, AgentCalls
<1>3. CASE Proxy
  BY <1>3 DEF Proxy, ProxyNext
<1>4. CASE UNCHANGED vars
  BY <1>4 DEF vars
<1>5. QED
  BY <1>1, <1>2, <1>3, <1>4 DEF Next

\* The evaluation starts before its first task, with nothing recorded.
LEMMA TypeInit == Init => TypeOK
<1> SUFFICES ASSUME Init PROVE TypeOK
  OBVIOUS
<1>1. ProxyTypeOK
  BY ProxyTypeInit DEF Init
<1>2. PlaceOK
  <2>1. <<>> \in Seq(1..3) /\ Len(<<>>) = 0
    OBVIOUS
  <2>2. 1 \in 1..Len(TaskOrder) /\ 0 \in 0..Repetitions /\ 0 \in 0..MaxPasses
    BY EvaluationAssumption
  <2>3. repository \in BOOLEAN /\ wall \in BOOLEAN
    BY Zenon DEF Init
  <2>4. Len(ordinals) <= reps /\ wpc = "idle"
    BY <2>1 DEF Init
  <2>5. QED
    BY <2>1, <2>2, <2>3, <2>4 DEF Init, PlaceOK
<1>3. RecordOK
  BY DEF Init, RecordOK, Tally, NoVerdicts
<1>4. QED
  BY <1>1, <1>2, <1>3, TypeParts

\* Going on to the next task, or to the end, stays within the task set.
LEMMA NextTaskPlace ==
  ASSUME PlaceOK, NextTask, UNCHANGED <<wall, passes>>
  PROVE  PlaceOK'
<1>1. Len(TaskOrder) \in Nat /\ Repetitions \in Nat
  BY EvaluationAssumption
<1>2. ordinals' = <<>> /\ ordinals' \in Seq(1..3) /\ Len(ordinals') = 0
  BY DEF NextTask
<1>3. QED
  BY <1>1, <1>2 DEF PlaceOK, NextTask, TaskStart

\* Every step keeps the worker in its place's domain.
LEMMA PlaceStep == ASSUME PlaceOK, [Next]_vars PROVE PlaceOK'
<1> USE EvaluationAssumption
<1>1. CASE BeginAgent
  <2>1. 1 \in 1..Len(TaskOrder)
    OBVIOUS
  <2>2. QED
    BY <1>1, <2>1 DEF BeginAgent, PlaceOK
<1>2. CASE OpenSession
  BY <1>2 DEF OpenSession, PlaceOK
<1>3. CASE RepStarts
  BY <1>3 DEF RepStarts, PlaceOK
<1>4. CASE RepEnds
  <2>1. ordinals' = ordinals
        \/ \E o \in 1..3 : ordinals' = Append(ordinals, o)
    BY <1>4 DEF RepEnds
  <2>2. CASE ordinals' = ordinals
    BY <1>4, <2>2 DEF RepEnds, PlaceOK
  <2>3. CASE \E o \in 1..3 : ordinals' = Append(ordinals, o)
    <3>1. PICK o \in 1..3 : ordinals' = Append(ordinals, o)
      BY <2>3
    <3>2. ordinals' \in Seq(1..3) /\ Len(ordinals') = Len(ordinals) + 1
      BY <3>1 DEF PlaceOK
    <3>3. /\ Len(ordinals) \in Nat /\ reps \in Nat /\ Len(ordinals) < reps
          /\ reps' = reps /\ wpc' = "rep"
      BY <1>4 DEF RepEnds, PlaceOK
    <3>4. Len(ordinals') <= reps'
      BY <3>2, <3>3
    <3>5. repository' \in BOOLEAN /\ wall' \in BOOLEAN
      BY <1>4 DEF RepEnds, PlaceOK
    <3>6. QED
      BY <1>4, <3>2, <3>3, <3>4, <3>5 DEF RepEnds, PlaceOK
  <2>4. QED
    BY <2>1, <2>2, <2>3
<1>5. CASE RepRaises
  BY <1>5 DEF RepRaises, PlaceOK
<1>6. CASE TaskFails
  BY <1>6, NextTaskPlace DEF TaskFails
<1>7. CASE TaskTaken
  BY <1>7, NextTaskPlace DEF TaskTaken
<1>8. CASE RepoTaskTaken
  BY <1>8, NextTaskPlace DEF RepoTaskTaken
<1>9. CASE TaskRefused
  BY <1>9 DEF TaskRefused, PlaceOK
<1>10. CASE ReasonNoted
  BY <1>10, NextTaskPlace DEF ReasonNoted
<1>11. CASE EndAgent
  BY <1>11 DEF EndAgent, PlaceOK
<1>12. CASE AgentInfers \/ Proxy \/ UNCHANGED vars
  BY <1>12 DEF AgentInfers, Proxy, vars, workerVars, PlaceOK
<1>13. QED
  BY <1>1, <1>2, <1>3, <1>4, <1>5, <1>6, <1>7, <1>8, <1>9, <1>10, <1>11, <1>12 DEF Next, Worker

\* The median of the votes is a vote.
LEMMA MedianType == ASSUME PlaceOK, ordinals # <<>> PROVE ordinals \in Seq(Nat) /\ Median(ordinals) \in 1..3
<1>1. ordinals \in Seq(1..3) /\ Len(ordinals) \in Nat /\ DOMAIN ordinals = 1..Len(ordinals)
      /\ \A i \in 1..Len(ordinals) : ordinals[i] \in 1..3
  BY DEF PlaceOK
<1>2. ordinals \in Seq(Nat)
  BY <1>1
<1>3. QED
  BY <1>1, <1>2, MedianHalves

\* An attestation is of the task at hand.
LEMMA AttestType ==
  ASSUME PlaceOK, RecordOK, NEW rejected \in BOOLEAN, Attest(rejected)
  PROVE  attested' \subseteq Nonces \X BOOLEAN
<1>1. <<n, rejected>> \in Nonces \X BOOLEAN
  BY NonceKnown
<1>2. attested \subseteq Nonces \X BOOLEAN /\ attested' = attested \cup {<<n, rejected>>}
  BY DEF RecordOK, Attest
<1>3. QED
  BY <1>1, <1>2, Zenon

\* Every step records what may be recorded.
LEMMA RecordStep == ASSUME PlaceOK, RecordOK, [Next]_vars PROVE RecordOK'
<1> USE DEF RecordOK, Tally
<1>2. CASE BeginAgent
  BY <1>2 DEF BeginAgent, NoVerdicts
<1>3. CASE OpenSession \/ RepStarts \/ RepEnds \/ RepRaises \/ TaskRefused
  <2>1. UNCHANGED <<repository, verdicts, attested, failureReason, submitted>>
    BY <1>3 DEF OpenSession, RepStarts, RepEnds, RepRaises, TaskRefused
  <2>2. QED
    BY <2>1
<1>4. CASE TaskFails
  BY <1>4 DEF TaskFails, NextTask
<1>5. CASE TaskTaken
  <2>1. Verdict[Median(ordinals)] \in Verdicts
    BY <1>5, MedianType DEF TaskTaken, Verdict, Verdicts
  <2>2. verdicts' \in [Nonces -> Tally']
    BY <1>5, <2>1 DEF TaskTaken, Take, NextTask
  <2>3. attested' \subseteq Nonces \X BOOLEAN
    BY <1>5, AttestType DEF TaskTaken, Take
  <2>4. QED
    BY <1>5, <2>2, <2>3 DEF TaskTaken
<1>6. CASE RepoTaskTaken
  <2>1. verdicts' \in [Nonces -> Tally']
    BY <1>6 DEF RepoTaskTaken, NextTask, RepoScores
  <2>2. attested' \subseteq Nonces \X BOOLEAN
    BY <1>6, AttestType DEF RepoTaskTaken
  <2>3. QED
    BY <1>6, <2>1, <2>2 DEF RepoTaskTaken
<1>7. CASE ReasonNoted
  <2>1. failureReason' \in Reasons
    BY <1>7 DEF ReasonNoted, Reason, Reasons
  <2>2. attested' \subseteq Nonces \X BOOLEAN
    BY <1>7, AttestType DEF ReasonNoted
  <2>3. QED
    BY <1>7, <2>1, <2>2 DEF ReasonNoted, NextTask
<1>8. CASE EndAgent
  BY <1>8 DEF EndAgent
<1>9. CASE AgentInfers \/ Proxy \/ UNCHANGED vars
  BY <1>9 DEF AgentInfers, Proxy, vars, workerVars
<1>10. QED
  BY <1>2, <1>3, <1>4, <1>5, <1>6, <1>7, <1>8, <1>9 DEF Next, Worker

\* Each part of the type invariant is kept by every step.
LEMMA TypeStep == ASSUME TypeOK, [Next]_vars PROVE TypeOK'
<1>1. ProxyTypeOK /\ PlaceOK /\ RecordOK
  BY TypeParts
<1>2. ProxyTypeOK'
  BY <1>1, ComposedStep, ProxyTypeStep
<1>3. PlaceOK' /\ RecordOK'
  BY <1>1, PlaceStep, RecordStep
<1>4. QED
  BY <1>2, <1>3 DEF TypeOK, PlaceOK, RecordOK, Tally

\* The evaluation and its proxy keep every variable in its domain, for any task
\* set, budgets and threads.
THEOREM TypeCorrect == Spec => []TypeOK
BY TypeInit, TypeStep, PTL DEF Spec

\* An evaluation uses the proxy as it is meant to be used: it implements the
\* proxy's own specification, so that all the proxy guarantees holds of it.
THEOREM EvaluationMeters == Spec => ProxySpec
<1>1. Init => ProxyInit
  BY DEF Init
<1>2. TypeOK /\ [Next]_vars => [ProxyNext]_proxyVars
  BY TypeParts, ComposedStep
<1>3. QED
  BY <1>1, <1>2, TypeCorrect, PTL DEF Spec, ProxySpec

\* Whatever an agent does with its calls, across sessions, refusals and restarts,
\* no task draws more answers than its budget and one call less than the threads.
THEOREM EvaluationOvershoot == Spec => [](OvershootBounded /\ TokenOvershootBounded)
BY EvaluationMeters, RequestsOvershoot, TokensOvershoot, PTL

-----------------------------------------------------------------------------
(* Attestations and verdicts                                                *)

\* During a pass nothing is recorded yet of the task at hand and those after it.
Judging == wpc \in {"session", "rep", "running", "reason"}
Untouched(t) == verdicts[t] = NoVerdict /\ <<t, TRUE>> \notin attested /\ <<t, FALSE>> \notin attested
Pending == Judging => \A i \in task..Len(TaskOrder) : Untouched(TaskOrder[i])

\* The task at hand is untouched while the worker judges it.
LEMMA NowUntouched == ASSUME PlaceOK, Pending, Judging PROVE Untouched(n)
<1>1. task \in task..Len(TaskOrder)
  BY EvaluationAssumption DEF PlaceOK
<1>2. QED
  BY <1>1 DEF Pending, n

\* The two kinds of attestation of a task, and its verdict.
Settled(t) ==
  /\ verdicts[t] # NoVerdict <=> <<t, FALSE>> \in attested
  /\ ~{<<t, FALSE>>, <<t, TRUE>>} \subseteq attested

\* A judgement records of the task at hand, and of no other.
Judged(rejected) ==
  /\ NextTask /\ Attest(rejected)
  /\ \A t \in Nonces : t # n => verdicts'[t] = verdicts[t]
  /\ verdicts'[n] # NoVerdict <=> ~rejected

\* One judgement settles the task at hand and leaves those after it untouched.
LEMMA JudgedSettles ==
  ASSUME PlaceOK, Pending, AttestedIffTallied, Judging,
         NEW rejected \in BOOLEAN, Judged(rejected)
  PROVE  Pending' /\ AttestedIffTallied'
<1>1. n \in Nonces /\ Untouched(n)
  BY NonceKnown, NowUntouched
<1>2. attested' = attested \cup {<<n, rejected>>}
  BY DEF Judged, Attest
<1>3. ASSUME NEW t \in Nonces PROVE Settled(t)'
  <2>1. CASE t = n
    BY <1>1, <1>2, <2>1 DEF Settled, Untouched, Judged
  <2>2. CASE t # n
    <3>1. Settled(t)
      BY DEF AttestedIffTallied, Settled
    <3>2. /\ verdicts'[t] = verdicts[t]
          /\ \A b \in BOOLEAN : <<t, b>> \in attested' <=> <<t, b>> \in attested
      BY <1>2, <2>2 DEF Judged
    <3>3. QED
      BY <3>1, <3>2 DEF Settled
  <2>3. QED
    BY <2>1, <2>2
<1>4. ASSUME Judging', NEW i \in task'..Len(TaskOrder) PROVE Untouched(TaskOrder[i])'
  <2>1. task' = task + 1 /\ task \in 1..Len(TaskOrder) /\ Len(TaskOrder) \in Nat
    BY <1>4, EvaluationAssumption DEF Judged, NextTask, Judging, PlaceOK
  <2>2. i \in task..Len(TaskOrder) /\ i \in 1..Len(TaskOrder) /\ i # task
    BY <1>4, <2>1
  <2>3. TaskOrder[i] # n /\ TaskOrder[i] \in Nonces
    BY <2>1, <2>2, DistinctTasks, EvaluationAssumption DEF IsInjective, n
  <2>4. Untouched(TaskOrder[i])
    BY <2>2 DEF Pending
  <2>5. QED
    BY <1>2, <2>3, <2>4 DEF Untouched, Judged
<1>5. QED
  BY <1>3, <1>4 DEF Pending, AttestedIffTallied, Settled

\* What neither records nor moves to another task disturbs neither.
LEMMA NothingRecorded ==
  ASSUME Pending, AttestedIffTallied, UNCHANGED <<verdicts, attested>>,
         Judging' => Judging /\ task' >= task, PlaceOK, PlaceOK'
  PROVE  Pending' /\ AttestedIffTallied'
<1>1. \A i \in task'..Len(TaskOrder) : Judging' => i \in task..Len(TaskOrder)
  BY EvaluationAssumption DEF PlaceOK
<1>2. QED
  BY <1>1 DEF Pending, AttestedIffTallied, Untouched

\* At first, and when a pass begins, nothing is recorded.
LEMMA RecordsInit == Init => Pending /\ AttestedIffTallied
BY EvaluationAssumption DEF Init, Pending, Judging, AttestedIffTallied, NoVerdicts

\* Every step settles a task or leaves the records as they are.
LEMMA RecordsStep ==
  ASSUME PlaceOK, RecordOK, Pending, AttestedIffTallied, [Next]_vars
  PROVE  Pending' /\ AttestedIffTallied'
<1>1. PlaceOK' /\ n \in Nonces
  BY PlaceStep, NonceKnown
<1>2. CASE BeginAgent
  <2>1. verdicts' = NoVerdicts /\ attested' = {} /\ task' = 1
    BY <1>2 DEF BeginAgent
  <2>2. \A i \in 1..Len(TaskOrder) : TaskOrder[i] \in Nonces
    BY EvaluationAssumption
  <2>3. QED
    BY <2>1, <2>2 DEF Pending, Untouched, AttestedIffTallied, NoVerdicts
<1>3. CASE OpenSession \/ RepStarts \/ RepEnds \/ RepRaises \/ TaskRefused \/ EndAgent
  <2>1. UNCHANGED <<verdicts, attested, task>> /\ (Judging' => Judging)
    BY <1>3 DEF OpenSession, RepStarts, RepEnds, RepRaises, TaskRefused, EndAgent, Judging, RepsOver
  <2>2. task' >= task
    BY <2>1 DEF PlaceOK
  <2>3. QED
    BY <1>1, <2>1, <2>2, NothingRecorded
<1>4. CASE TaskFails
  <2>1. UNCHANGED <<verdicts, attested>> /\ Judging
    BY <1>4 DEF TaskFails, RepsOver, Judging
  <2>2. Judging' => task' >= task
    BY <1>4 DEF TaskFails, NextTask, Judging, PlaceOK
  <2>3. QED
    BY <1>1, <2>1, <2>2, NothingRecorded
<1>5. CASE TaskTaken
  <2>1. Verdict[Median(ordinals)] # NoVerdict
    BY <1>5, MedianType DEF TaskTaken, Verdict, NoVerdict
  <2>2. Judging
    BY <1>5 DEF TaskTaken, RepsOver, Judging
  <2>3. verdicts' = [verdicts EXCEPT ![n] = Verdict[Median(ordinals)]]
    BY <1>5 DEF TaskTaken, Take
  <2>4. DOMAIN verdicts = Nonces
    BY DEF RecordOK
  <2>5. Judged(FALSE)
    BY <1>1, <1>5, <2>1, <2>3, <2>4 DEF TaskTaken, Take, Judged
  <2>6. QED
    BY <2>2, <2>5, JudgedSettles
<1>6. CASE RepoTaskTaken
  <2>1. Judging
    BY <1>6 DEF RepoTaskTaken, RepsOver, Judging
  <2>2. DOMAIN verdicts = Nonces
    BY DEF RecordOK
  <2>3. Judged(FALSE)
    BY <1>1, <1>6, <2>2 DEF RepoTaskTaken, Judged, NoVerdict
  <2>4. QED
    BY <2>1, <2>3, JudgedSettles
<1>7. CASE ReasonNoted
  <2>1. Judging
    BY <1>7 DEF ReasonNoted, Judging
  <2>2. verdicts[n] = NoVerdict
    BY <2>1, NowUntouched DEF Untouched
  <2>3. Judged(TRUE)
    BY <1>7, <2>2 DEF ReasonNoted, Judged
  <2>4. QED
    BY <2>1, <2>3, JudgedSettles
<1>8. CASE AgentInfers \/ Proxy \/ UNCHANGED vars
  <2>1. UNCHANGED <<verdicts, attested, task, wpc>>
    BY <1>8 DEF AgentInfers, Proxy, vars, workerVars
  <2>2. task' >= task
    BY <2>1 DEF PlaceOK
  <2>3. QED
    BY <1>1, <2>1, <2>2, NothingRecorded DEF Judging
<1>9. QED
  BY <1>2, <1>3, <1>4, <1>5, <1>6, <1>7, <1>8 DEF Next, Worker

\* In a pass a task is tallied exactly when it has an attestation that is not
\* marked rejected, and none has both kinds, however runs are refused, fail or
\* break off.
THEOREM Attestations == Spec => []AttestedIffTallied
<1>1. Init => Pending /\ AttestedIffTallied
  BY RecordsInit
<1>2. TypeOK /\ TypeOK' /\ Pending /\ AttestedIffTallied /\ [Next]_vars
        => (Pending /\ AttestedIffTallied)'
  BY TypeParts, RecordsStep
<1>3. QED
  BY <1>1, <1>2, TypeCorrect, PTL DEF Spec

-----------------------------------------------------------------------------
(* The unreadable meter, and the majority                                   *)

\* Without a shared token no refusal is ever begun.
Unmetered == ~metered => wpc # "reason" /\ failureReason = NoVerdict

\* A meter that cannot be read answers neither zero nor anything else.
LEMMA UnmeteredStep ==
  ASSUME PlaceOK, Unmetered, [Next]_vars
  PROVE  Unmetered'
<1> SUFFICES ASSUME ~metered' PROVE wpc' # "reason" /\ failureReason' = NoVerdict
  BY DEF Unmetered
<1>1. ~metered
  BY ComposedStep DEF ProxyNext, AgentCalls, HandlerStep, Receive, CheckBudget, UpstreamAnswers,
     UpstreamFails, UpstreamRefuses, Record, Register, Reset, ProxyRestarts, proxyVars
<1>2. wpc # "reason" /\ failureReason = NoVerdict
  BY <1>1 DEF Unmetered
<1>3. ~TaskRefused
  BY <1>1 DEF TaskRefused, Answers, Calls
<1>4. ~ReasonNoted
  BY <1>2 DEF ReasonNoted
<1>5. CASE TaskFails \/ TaskTaken \/ RepoTaskTaken
  BY <1>2, <1>5 DEF TaskFails, TaskTaken, RepoTaskTaken, NextTask, TaskStart
<1>6. CASE BeginAgent \/ OpenSession \/ RepStarts \/ RepEnds \/ RepRaises \/ EndAgent
  BY <1>2, <1>6 DEF BeginAgent, OpenSession, RepStarts, RepEnds, RepRaises, EndAgent
<1>7. CASE AgentInfers \/ Proxy \/ UNCHANGED vars
  BY <1>2, <1>7 DEF AgentInfers, Proxy, vars, workerVars
<1>8. QED
  BY <1>3, <1>4, <1>5, <1>6, <1>7 DEF Next, Worker

\* A validator that cannot read the meter refuses no agent for it.
THEOREM UnreadableRefusesNone == Spec => []UnreadableNeverRefuses
<1>1. Init => Unmetered
  BY DEF Init, Unmetered
<1>2. TypeOK /\ Unmetered /\ [Next]_vars => Unmetered'
  BY TypeParts, UnmeteredStep
<1>3. Unmetered => UnreadableNeverRefuses
  BY DEF Unmetered, UnreadableNeverRefuses
<1>4. QED
  BY <1>1, <1>2, <1>3, TypeCorrect, PTL DEF Spec

\* The votes for two sets of verdicts that have none in common are at most all.
LEMMA VotesApart ==
  ASSUME PlaceOK, NEW S, NEW T, S \cap T = {}
  PROVE  /\ Votes(S) \in Nat /\ Votes(T) \in Nat /\ Len(ordinals) \in Nat
         /\ Votes(S) + Votes(T) <= 2 * Len(ordinals)
<1> DEFINE A == {i \in DOMAIN ordinals : ordinals[i] \in S}
<1> DEFINE B == {i \in DOMAIN ordinals : ordinals[i] \in T}
<1>1. ordinals \in Seq(Nat)
  BY DEF PlaceOK
<1>2. A \in SUBSET DOMAIN ordinals /\ B \in SUBSET DOMAIN ordinals /\ A \cap B = {}
  OBVIOUS
<1>3. Votes(S) = 2 * Cardinality(A) /\ Votes(T) = 2 * Cardinality(B)
  BY DEF Votes
<1> HIDE DEF A, B
<1>4. /\ IsFiniteSet(A) /\ Cardinality(A) \in Nat /\ IsFiniteSet(B) /\ Cardinality(B) \in Nat
      /\ IsFiniteSet(DOMAIN ordinals) /\ Cardinality(DOMAIN ordinals) = Len(ordinals)
      /\ Len(ordinals) \in Nat
  BY <1>1, <1>2, PlacesFinite
<1>5. Cardinality(A \cup B) = Cardinality(A) + Cardinality(B) - Cardinality(A \cap B)
  BY <1>4, FS_Union
<1>6. Cardinality(A \cap B) = 0
  BY <1>2, FS_EmptySet
<1>7. Cardinality(A \cup B) <= Len(ordinals)
  <2>1. A \cup B \in SUBSET DOMAIN ordinals
    BY <1>2
  <2>2. QED
    BY <1>4, <2>1, FS_Subset
<1>8. QED
  BY <1>3, <1>4, <1>5, <1>6, <1>7

\* Fewer verdicts draw no more votes.
LEMMA VotesMonotone ==
  ASSUME PlaceOK, NEW S, NEW T, S \subseteq T
  PROVE  Votes(S) <= Votes(T)
<1> DEFINE A == {i \in DOMAIN ordinals : ordinals[i] \in S}
<1> DEFINE B == {i \in DOMAIN ordinals : ordinals[i] \in T}
<1>1. ordinals \in Seq(Nat)
  BY DEF PlaceOK
<1>2. A \in SUBSET B /\ A \in SUBSET DOMAIN ordinals /\ B \in SUBSET DOMAIN ordinals
  OBVIOUS
<1>3. Votes(S) = 2 * Cardinality(A) /\ Votes(T) = 2 * Cardinality(B)
  BY DEF Votes
<1> HIDE DEF A, B
<1>4. Cardinality(A) \in Nat /\ IsFiniteSet(B) /\ Cardinality(B) \in Nat
  BY <1>1, <1>2, PlacesFinite
<1>5. Cardinality(A) <= Cardinality(B)
  BY <1>2, <1>4, FS_Subset
<1>6. QED
  BY <1>3, <1>4, <1>5

\* The verdict that is taken is the lower median, so a strict majority wins.
LEMMA TakenByMajority == ASSUME PlaceOK, RecordOK, TaskTaken PROVE TakesMajority
<1> DEFINE v == CHOOSE o \in 1..3 : Verdict[o] = verdicts'[n]
<1>1. ordinals \in Seq(Nat) /\ ordinals # <<>> /\ Median(ordinals) \in 1..3
  BY MedianType DEF TaskTaken
<1>2. verdicts'[n] = Verdict[Median(ordinals)]
  BY NonceKnown DEF TaskTaken, Take, RecordOK
<1>3. v = Median(ordinals)
  <2>1. \A o \in 1..3 : Verdict[o] = Verdict[Median(ordinals)] => o = Median(ordinals)
    BY <1>1 DEF Verdict
  <2>2. QED
    BY <1>1, <1>2, <2>1
<1> HIDE DEF v
<1>4. \A i \in DOMAIN ordinals : ordinals[i] \in 1..3
  BY DEF PlaceOK
<1>5. /\ {i \in DOMAIN ordinals : ordinals[i] \in 1..v} = {i \in DOMAIN ordinals : ordinals[i] <= v}
      /\ {i \in DOMAIN ordinals : ordinals[i] \in 1..(v - 1)} = {i \in DOMAIN ordinals : ordinals[i] < v}
  BY <1>1, <1>3, <1>4
<1>6. Votes(1..v) >= Len(ordinals) /\ Votes(1..(v - 1)) < Len(ordinals)
  BY <1>1, <1>3, <1>5, MedianHalves DEF Votes
<1>7. ASSUME NEW o \in 1..3, Votes({o}) > Len(ordinals) PROVE v = o
  <2>1. Len(ordinals) \in Nat /\ Votes({o}) \in Nat /\ Votes(1..(v - 1)) \in Nat /\ Votes(1..v) \in Nat
    BY VotesApart
  <2>2. CASE o < v
    <3>1. {o} \subseteq 1..(v - 1)
      BY <1>1, <1>3, <2>2
    <3>2. Votes({o}) <= Votes(1..(v - 1))
      BY <3>1, VotesMonotone
    <3>3. QED
      BY <1>6, <1>7, <2>1, <3>2
  <2>3. CASE o > v
    <3>1. {o} \cap (1..v) = {}
      BY <1>1, <1>3, <2>3
    <3>2. Votes({o}) + Votes(1..v) <= 2 * Len(ordinals)
      BY <3>1, VotesApart
    <3>3. QED
      BY <1>6, <1>7, <2>1, <3>2
  <2>4. QED
    BY <1>1, <1>3, <2>2, <2>3
<1>8. QED
  BY <1>6, <1>7 DEF TakesMajority, v

\* Whatever the number of repetitions, the verdict taken is their strict majority,
\* and without one the lower median.
THEOREM Majority == Spec => VerdictIsMajority
<1>1. TypeOK /\ [Next]_vars => [TaskTaken => TakesMajority]_vars
  BY TypeParts, TakenByMajority
<1>2. QED
  BY <1>1, TypeCorrect, PTL DEF Spec, VerdictIsMajority
=============================================================================
