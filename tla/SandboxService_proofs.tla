----------------------- MODULE SandboxService_proofs -----------------------
(***************************************************************************)
(* For any requests, threads and submissions: a request is in one place    *)
(* only, and a report is of the code that was asked for.                   *)
(***************************************************************************)
EXTENDS SandboxService, TLAPS

-----------------------------------------------------------------------------
(* Queues                                                                   *)

\* Who joins a queue that it is not in is the one more in it.
LEMMA Joins ==
  ASSUME NEW S, NEW s \in Seq(S), NEW x \in S, IsInjective(s), x \notin ToSet(s)
  PROVE  /\ Append(s, x) \in Seq(S) /\ IsInjective(Append(s, x))
         /\ ToSet(Append(s, x)) = ToSet(s) \cup {x}
<1> DEFINE t == Append(s, x)
<1>1. /\ t \in Seq(S) /\ Len(s) \in Nat /\ Len(t) = Len(s) + 1
      /\ DOMAIN s = 1..Len(s) /\ DOMAIN t = 1..Len(t)
      /\ \A i \in 1..Len(s) : t[i] = s[i]
      /\ t[Len(s) + 1] = x
  OBVIOUS
<1>2. \A i \in 1..Len(s) : s[i] \in ToSet(s) /\ s[i] # x
  BY <1>1 DEF ToSet
<1> HIDE DEF t
<1>3. \A i \in DOMAIN t : i \in 1..Len(s) \/ i = Len(s) + 1
  BY <1>1
<1>4. IsInjective(t)
  BY <1>1, <1>2, <1>3 DEF IsInjective
<1>5. ToSet(t) = ToSet(s) \cup {x}
  BY <1>1, <1>3 DEF ToSet
<1>6. QED
  BY <1>1, <1>4, <1>5 DEF t

\* The head that leaves a queue is the one less in it.
LEMMA Leaves ==
  ASSUME NEW S, NEW s \in Seq(S), IsInjective(s), s # <<>>
  PROVE  /\ Tail(s) \in Seq(S) /\ IsInjective(Tail(s))
         /\ Head(s) \in ToSet(s) /\ Head(s) \in S
         /\ ToSet(Tail(s)) = ToSet(s) \ {Head(s)}
<1> DEFINE t == Tail(s)
<1>1. /\ t \in Seq(S) /\ Len(s) \in Nat /\ Len(s) > 0 /\ Len(t) = Len(s) - 1
      /\ DOMAIN s = 1..Len(s) /\ DOMAIN t = 1..Len(t)
      /\ \A i \in 1..Len(t) : t[i] = s[i + 1]
      /\ Head(s) = s[1] /\ s[1] \in S
  OBVIOUS
<1> HIDE DEF t
<1>2. \A i \in DOMAIN t : i + 1 \in DOMAIN s /\ i + 1 # 1
  BY <1>1
<1>3. \A j \in DOMAIN s : j # 1 => j - 1 \in DOMAIN t /\ t[j - 1] = s[j]
  BY <1>1
<1>4. 1 \in DOMAIN s
  BY <1>1
<1>5. IsInjective(t)
  BY <1>1, <1>2 DEF IsInjective
<1>6. ToSet(t) = ToSet(s) \ {s[1]}
  <2>1. \A i \in DOMAIN t : t[i] \in ToSet(s) /\ t[i] # s[1]
    BY <1>1, <1>2, <1>4 DEF ToSet, IsInjective
  <2>2. \A j \in DOMAIN s : s[j] = s[1] \/ s[j] \in ToSet(t)
    BY <1>3 DEF ToSet
  <2>3. QED
    BY <2>1, <2>2 DEF ToSet
<1>7. QED
  BY <1>1, <1>4, <1>5, <1>6 DEF t, ToSet

-----------------------------------------------------------------------------
(* The inductive invariant                                                  *)

\* The type invariant in parts: the domains of the variables, and that a request
\* is in one place only.
PcOK == pc \in [Requests -> {"idle", "accepted", "fetch", "pool", "running", "ended"}]
CodeOK == want \in [Requests -> Versions] /\ runnable \in [Requests -> Versions]
SaidOK == said \in [Requests -> {"none", "code", "missing", "blank", "rejected", "unreachable"}]
ResultOK == result \in [Requests -> {"none"} \cup DOMAIN Status]
AnswerOK == answer \in [Requests -> {"none", "bad files", "200", "404", "409", "422", "500", "503",
                                     "cut off"}]
BackendOK == served \in Versions /\ submitted \in 0..MaxVersion /\ restarts \in 0..MaxRestarts
ReadyOK == /\ ready \in Seq(Requests) /\ IsInjective(ready)
           /\ ToSet(ready) = {r \in Requests : pc[r] \in {"accepted", "ended"}}
QueueOK == /\ queue \in Seq(Requests) /\ IsInjective(queue)
           /\ ToSet(queue) = {r \in Requests : pc[r] = "pool"}
LoopOK == {r \in Requests : pc[r] = "fetch"} = {loop} \ {NoOne}

\* A request in progress has no answer yet.
Unanswered == \A r \in Requests : pc[r] # "idle" => answer[r] = "none"

\* What got past the check of the hash is what was asked for.
Checked ==
  \A r \in Requests : pc[r] \in {"pool", "running", "ended"} => AsAsked(want[r], runnable[r])

\* A run that has ended has an outcome.
Ended == \A r \in Requests : pc[r] = "ended" => result[r] \in DOMAIN Status

IInv ==
  /\ PcOK /\ CodeOK /\ SaidOK /\ ResultOK /\ AnswerOK /\ BackendOK /\ ReadyOK /\ QueueOK /\ LoopOK
  /\ Unanswered /\ Checked /\ Ended /\ ReportIsOfAskedCode

\* The outcomes of a run.
LEMMA Outcomes == DOMAIN Status = {"report", "failed", "infra", "raised"}
BY DEF Status

\* It holds at the start.
LEMMA InvInit == Init => IInv
<1>1. SUFFICES ASSUME Init PROVE IInv
  OBVIOUS
<1>2. IsInjective(<<>>) /\ ToSet(<<>>) = {} /\ <<>> \in Seq(Requests)
  BY DEF IsInjective, ToSet
<1>3. PcOK /\ SaidOK /\ AnswerOK /\ ResultOK /\ ReadyOK /\ QueueOK /\ LoopOK
  BY <1>1, <1>2 DEF Init, PcOK, SaidOK, AnswerOK, ResultOK, ReadyOK, QueueOK, LoopOK
<1>4. CodeOK /\ BackendOK
  BY <1>1, ConstantsAssumption DEF Init, CodeOK, BackendOK, Versions, NoCode
<1>5. Unanswered /\ Checked /\ Ended /\ ReportIsOfAskedCode
  BY <1>1 DEF Init, Unanswered, Checked, Ended, ReportIsOfAskedCode
<1>6. QED
  BY <1>3, <1>4, <1>5 DEF IInv

\* A request arrives.
LEMMA ArrivesInv == ASSUME IInv, NEW r \in Requests, Arrives(r) PROVE IInv'
<1>1. /\ pc[r] = "idle" /\ pc' = [pc EXCEPT ![r] = "accepted"] /\ ready' = Append(ready, r)
      /\ runnable' = [runnable EXCEPT ![r] = NoCode] /\ said' = [said EXCEPT ![r] = "none"]
      /\ result' = [result EXCEPT ![r] = "none"] /\ answer' = [answer EXCEPT ![r] = "none"]
      /\ UNCHANGED <<loop, queue, served, submitted, restarts>>
  BY DEF Arrives, Go, backend
<1>2. PICK v \in Versions : want' = [want EXCEPT ![r] = v]
  BY DEF Arrives, Versions
<1>3. /\ PcOK' /\ SaidOK' /\ ResultOK' /\ AnswerOK'
      /\ pc'[r] = "accepted" /\ \A q \in Requests \ {r} : pc'[q] = pc[q]
  BY <1>1 DEF IInv, PcOK, SaidOK, ResultOK, AnswerOK
<1>4. CodeOK' /\ BackendOK'
  <2>1. NoCode \in Versions /\ Versions' = Versions
    BY <1>1, ConstantsAssumption DEF IInv, BackendOK, Versions, NoCode
  <2>2. QED
    BY <1>1, <1>2, <2>1 DEF IInv, CodeOK, BackendOK
<1>5. ReadyOK'
  <2>1. r \notin ToSet(ready)
    BY <1>1 DEF IInv, ReadyOK
  <2>2. ready' \in Seq(Requests) /\ IsInjective(ready') /\ ToSet(ready') = ToSet(ready) \cup {r}
    BY <1>1, <2>1, Joins DEF IInv, ReadyOK
  <2>3. QED
    BY <1>3, <2>2 DEF IInv, ReadyOK
<1>6. QueueOK' /\ LoopOK'
  BY <1>1, <1>3 DEF IInv, QueueOK, LoopOK
<1>7. Unanswered' /\ Ended'
  BY <1>1, <1>3 DEF IInv, AnswerOK, ResultOK, Unanswered, Ended
<1>8. Checked' /\ ReportIsOfAskedCode'
  BY <1>1, <1>2, <1>3
     DEF IInv, AnswerOK, CodeOK, SaidOK, Checked, ReportIsOfAskedCode
<1>9. QED
  BY <1>3, <1>4, <1>5, <1>6, <1>7, <1>8 DEF IInv

\* The handler refuses the files, or goes on to the fetch.
LEMMA HandlerStartsInv == ASSUME IInv, NEW r \in Requests, HandlerStarts(r) PROVE IInv'
<1>1. /\ loop = NoOne /\ ready # <<>> /\ Head(ready) = r /\ pc[r] = "accepted"
      /\ ready' = Tail(ready)
      /\ UNCHANGED <<want, runnable, said, result, queue, served, submitted, restarts>>
  BY DEF HandlerStarts, backend
<1>2. PICK next \in {"idle", "fetch"} :
        /\ pc' = [pc EXCEPT ![r] = next]
        /\ next = "idle" => answer' = [answer EXCEPT ![r] = "bad files"] /\ loop' = loop
        /\ next = "fetch" => answer' = answer /\ loop' = r
  BY DEF HandlerStarts, Answers, Go
<1>3. PcOK' /\ pc'[r] = next /\ \A q \in Requests \ {r} : pc'[q] = pc[q]
  BY <1>2 DEF IInv, PcOK
<1>4. /\ AnswerOK' /\ answer'[r] \in {answer[r], "bad files"}
      /\ \A q \in Requests \ {r} : answer'[q] = answer[q]
  BY <1>2 DEF IInv, AnswerOK
<1>5. ReadyOK'
  <2>1. /\ ready' \in Seq(Requests) /\ IsInjective(ready') /\ ToSet(ready') = ToSet(ready) \ {r}
    BY <1>1, Leaves DEF IInv, ReadyOK
  <2>2. QED
    BY <1>3, <2>1 DEF IInv, ReadyOK
<1>6. QueueOK' /\ LoopOK'
  <2>1. QueueOK'
    BY <1>1, <1>3 DEF IInv, QueueOK
  <2>2. \A q \in Requests : pc[q] # "fetch"
    BY <1>1 DEF IInv, LoopOK
  <2>3. CASE next = "idle"
    <3>1. loop' = NoOne /\ \A q \in Requests : pc'[q] # "fetch"
      BY <1>1, <1>2, <1>3, <2>2, <2>3
    <3>2. QED
      BY <2>1, <3>1 DEF LoopOK
  <2>4. CASE next = "fetch"
    <3>1. loop' = r /\ \A q \in Requests : pc'[q] = "fetch" <=> q = r
      BY <1>2, <1>3, <2>2, <2>4
    <3>2. r # NoOne
      BY ConstantsAssumption
    <3>3. QED
      BY <2>1, <3>1, <3>2 DEF LoopOK
  <2>5. QED
    BY <2>3, <2>4
<1>7. CodeOK' /\ SaidOK' /\ ResultOK' /\ BackendOK'
  BY <1>1 DEF IInv, CodeOK, SaidOK, ResultOK, BackendOK, Versions
<1>8. Unanswered' /\ Ended' /\ Checked'
  BY <1>1, <1>2, <1>3, <1>4 DEF IInv, Unanswered, Ended, Checked
<1>9. ReportIsOfAskedCode'
  BY <1>1, <1>4 DEF IInv, ReportIsOfAskedCode
<1>10. QED
  BY <1>3, <1>4, <1>5, <1>6, <1>7, <1>8, <1>9 DEF IInv

\* The fetch returns code, which is checked, or an answer for the caller.
LEMMA FetchReturnsInv == ASSUME IInv, NEW r \in Requests, FetchReturns(r) PROVE IInv'
<1>1. PICK reason \in {"code", "missing", "blank", "rejected", "unreachable"} :
        /\ said' = [said EXCEPT ![r] = reason]
        /\ IF reason # "code" THEN Answers(r, Refused(reason)) /\ UNCHANGED <<runnable, queue>>
           ELSE /\ runnable' = [runnable EXCEPT ![r] = served]
                /\ IF AsAsked(want[r], served)
                     THEN Go(r, "pool") /\ queue' = Append(queue, r) /\ UNCHANGED answer
                     ELSE Answers(r, "409") /\ UNCHANGED queue
  BY Zenon DEF FetchReturns
<1>2. /\ loop = r /\ loop' = NoOne
      /\ UNCHANGED <<want, result, ready, served, submitted, restarts>>
  BY DEF FetchReturns, backend
<1>3. pc[r] = "fetch" /\ answer[r] = "none"
  BY <1>2, ConstantsAssumption DEF IInv, LoopOK, Unanswered
<1>4. /\ SaidOK' /\ said'[r] = reason /\ \A q \in Requests \ {r} : said'[q] = said[q]
  BY <1>1 DEF IInv, SaidOK
<1>5. CodeOK' /\ BackendOK' /\ ResultOK' /\ \A q \in Requests \ {r} : runnable'[q] = runnable[q]
  <2>1. runnable' = runnable \/ runnable' = [runnable EXCEPT ![r] = served]
    BY <1>1
  <2>2. Versions' = Versions /\ served \in Versions
    BY <1>2 DEF IInv, BackendOK, Versions
  <2>3. QED
    BY <1>2, <2>1, <2>2 DEF IInv, CodeOK, BackendOK, ResultOK
<1>6. CASE reason = "code" /\ AsAsked(want[r], served)
  <2>1. /\ runnable' = [runnable EXCEPT ![r] = served] /\ pc' = [pc EXCEPT ![r] = "pool"]
        /\ queue' = Append(queue, r) /\ answer' = answer
    BY <1>1, <1>6 DEF Go
  <2>2. PcOK' /\ AnswerOK' /\ pc'[r] = "pool" /\ \A q \in Requests \ {r} : pc'[q] = pc[q]
    BY <2>1 DEF IInv, PcOK, AnswerOK
  <2>3. runnable'[r] = served
    BY <2>1 DEF IInv, CodeOK
  <2>4. QueueOK'
    <3>1. r \notin ToSet(queue)
      BY <1>3 DEF IInv, QueueOK
    <3>2. queue' \in Seq(Requests) /\ IsInjective(queue') /\ ToSet(queue') = ToSet(queue) \cup {r}
      BY <2>1, <3>1, Joins DEF IInv, QueueOK
    <3>3. QED
      BY <2>2, <3>2 DEF IInv, QueueOK
  <2>5. ReadyOK' /\ LoopOK'
    BY <1>2, <1>3, <2>2 DEF IInv, ReadyOK, LoopOK
  <2>6. Unanswered' /\ Checked' /\ Ended'
    BY <1>2, <1>3, <1>5, <1>6, <2>1, <2>2, <2>3 DEF IInv, Unanswered, Checked, Ended
  <2>7. ReportIsOfAskedCode'
    BY <1>2, <1>3, <1>4, <1>5, <2>1 DEF IInv, ReportIsOfAskedCode
  <2>8. QED
    BY <1>4, <1>5, <2>2, <2>4, <2>5, <2>6, <2>7 DEF IInv
<1>7. CASE ~(reason = "code" /\ AsAsked(want[r], served))
  <2>1. pc' = [pc EXCEPT ![r] = "idle"] /\ queue' = queue
    BY <1>1, <1>7 DEF Answers, Go
  <2>2. PICK status \in {"404", "409", "500"} : answer' = [answer EXCEPT ![r] = status]
    BY <1>1, <1>7 DEF Answers, Refused
  <2>3. PcOK' /\ pc'[r] = "idle" /\ \A q \in Requests \ {r} : pc'[q] = pc[q]
    BY <2>1 DEF IInv, PcOK
  <2>4. AnswerOK' /\ answer'[r] = status /\ \A q \in Requests \ {r} : answer'[q] = answer[q]
    BY <2>2 DEF IInv, AnswerOK
  <2>5. ReadyOK' /\ QueueOK' /\ LoopOK'
    BY <1>2, <1>3, <2>1, <2>3 DEF IInv, ReadyOK, QueueOK, LoopOK
  <2>6. Unanswered' /\ Checked' /\ Ended'
    BY <1>2, <1>5, <2>3, <2>4 DEF IInv, Unanswered, Checked, Ended
  <2>7. ReportIsOfAskedCode'
    BY <1>2, <1>4, <1>5, <2>2, <2>4 DEF IInv, ReportIsOfAskedCode
  <2>8. QED
    BY <1>4, <1>5, <2>3, <2>4, <2>5, <2>6, <2>7 DEF IInv
<1>8. QED
  BY <1>6, <1>7

\* A thread of the pool takes the request that waits longest.
LEMMA ThreadTakesInv == ASSUME IInv, ThreadTakes PROVE IInv'
<1> DEFINE r == Head(queue)
<1>1. /\ queue # <<>> /\ pc' = [pc EXCEPT ![r] = "running"] /\ queue' = Tail(queue)
      /\ UNCHANGED <<want, runnable, said, result, answer, ready, loop, served, submitted, restarts>>
  BY DEF ThreadTakes, Go, backend
<1>2. /\ queue' \in Seq(Requests) /\ IsInjective(queue') /\ r \in Requests
      /\ r \in ToSet(queue) /\ ToSet(queue') = ToSet(queue) \ {r}
  BY <1>1, Leaves DEF IInv, QueueOK
<1> HIDE DEF r
<1>3. pc[r] = "pool"
  BY <1>2 DEF IInv, QueueOK
<1>4. PcOK' /\ pc'[r] = "running" /\ \A q \in Requests \ {r} : pc'[q] = pc[q]
  BY <1>1, <1>2 DEF IInv, PcOK
<1>5. ReadyOK' /\ QueueOK' /\ LoopOK'
  BY <1>1, <1>2, <1>3, <1>4 DEF IInv, ReadyOK, QueueOK, LoopOK
<1>6. CodeOK' /\ SaidOK' /\ ResultOK' /\ AnswerOK' /\ BackendOK'
  BY <1>1 DEF IInv, CodeOK, SaidOK, ResultOK, AnswerOK, BackendOK, Versions
<1>7. Unanswered' /\ Checked' /\ Ended' /\ ReportIsOfAskedCode'
  BY <1>1, <1>2, <1>3, <1>4
     DEF IInv, Unanswered, Checked, Ended, ReportIsOfAskedCode
<1>8. QED
  BY <1>4, <1>5, <1>6, <1>7 DEF IInv

\* The run ends, and its handler queues for the loop.
LEMMA EndsInv == ASSUME IInv, NEW r \in Requests, Ends(r) PROVE IInv'
<1>1. /\ pc[r] = "running" /\ pc' = [pc EXCEPT ![r] = "ended"] /\ ready' = Append(ready, r)
      /\ UNCHANGED <<want, runnable, said, answer, loop, queue, served, submitted, restarts>>
  BY DEF Ends, Go, backend
<1>2. PICK o \in DOMAIN Status : result' = [result EXCEPT ![r] = o]
  BY Outcomes DEF Ends
<1>3. PcOK' /\ pc'[r] = "ended" /\ \A q \in Requests \ {r} : pc'[q] = pc[q]
  BY <1>1 DEF IInv, PcOK
<1>4. ResultOK' /\ result'[r] = o /\ \A q \in Requests \ {r} : result'[q] = result[q]
  BY <1>2 DEF IInv, ResultOK
<1>5. ReadyOK'
  <2>1. r \notin ToSet(ready)
    BY <1>1 DEF IInv, ReadyOK
  <2>2. ready' \in Seq(Requests) /\ IsInjective(ready') /\ ToSet(ready') = ToSet(ready) \cup {r}
    BY <1>1, <2>1, Joins DEF IInv, ReadyOK
  <2>3. QED
    BY <1>3, <2>2 DEF IInv, ReadyOK
<1>6. QueueOK' /\ LoopOK'
  BY <1>1, <1>3 DEF IInv, QueueOK, LoopOK
<1>7. CodeOK' /\ SaidOK' /\ AnswerOK' /\ BackendOK'
  BY <1>1 DEF IInv, CodeOK, SaidOK, AnswerOK, BackendOK, Versions
<1>8. Unanswered' /\ Checked' /\ Ended' /\ ReportIsOfAskedCode'
  BY <1>1, <1>3, <1>4
     DEF IInv, Unanswered, Checked, Ended, ReportIsOfAskedCode
<1>9. QED
  BY <1>3, <1>4, <1>5, <1>6, <1>7, <1>8 DEF IInv

\* The caller gets the outcome of the run.
LEMMA HandlerResumesInv == ASSUME IInv, NEW r \in Requests, HandlerResumes(r) PROVE IInv'
<1>1. /\ loop = NoOne /\ ready # <<>> /\ Head(ready) = r /\ pc[r] = "ended"
      /\ ready' = Tail(ready) /\ pc' = [pc EXCEPT ![r] = "idle"]
      /\ answer' = [answer EXCEPT ![r] = Status[result[r]]]
      /\ UNCHANGED <<want, runnable, said, result, loop, queue, served, submitted, restarts>>
  BY DEF HandlerResumes, Answers, Go, backend
<1>2. Status[result[r]] \in {"200", "422", "503", "500"} /\ AsAsked(want[r], runnable[r])
  <2>1. result[r] \in {"report", "failed", "infra", "raised"}
    BY <1>1, Outcomes DEF IInv, Ended
  <2>2. QED
    BY <1>1, <2>1 DEF IInv, Checked, Status
<1>3. PcOK' /\ pc'[r] = "idle" /\ \A q \in Requests \ {r} : pc'[q] = pc[q]
  BY <1>1 DEF IInv, PcOK
<1>4. /\ AnswerOK' /\ answer'[r] \in {"200", "422", "503", "500"}
      /\ \A q \in Requests \ {r} : answer'[q] = answer[q]
  BY <1>1, <1>2 DEF IInv, AnswerOK
<1>5. ReadyOK'
  <2>1. /\ ready' \in Seq(Requests) /\ IsInjective(ready') /\ ToSet(ready') = ToSet(ready) \ {r}
    BY <1>1, Leaves DEF IInv, ReadyOK
  <2>2. QED
    BY <1>3, <2>1 DEF IInv, ReadyOK
<1>6. QueueOK' /\ LoopOK'
  BY <1>1, <1>3 DEF IInv, QueueOK, LoopOK
<1>7. CodeOK' /\ SaidOK' /\ ResultOK' /\ BackendOK'
  BY <1>1 DEF IInv, CodeOK, SaidOK, ResultOK, BackendOK, Versions
<1>8. Unanswered' /\ Checked' /\ Ended'
  BY <1>1, <1>3, <1>4 DEF IInv, Unanswered, Checked, Ended
<1>9. ReportIsOfAskedCode'
  BY <1>1, <1>2, <1>4 DEF IInv, ReportIsOfAskedCode, AsAsked
<1>10. QED
  BY <1>3, <1>4, <1>5, <1>6, <1>7, <1>8, <1>9 DEF IInv

\* The miner submits or withdraws the agent's code.
LEMMA BackendInv == ASSUME IInv, Submits \/ Withdraws PROVE IInv'
<1>1. UNCHANGED <<pc, want, runnable, said, result, answer, ready, loop, queue, restarts>>
  BY DEF Submits, Withdraws, slot
<1>2. Versions \subseteq Versions' /\ BackendOK'
  BY <1>1, ConstantsAssumption DEF Submits, Withdraws, IInv, BackendOK, Versions, NoCode
<1>3. CodeOK'
  BY <1>1, <1>2 DEF IInv, CodeOK
<1>4. QED
  BY <1>1, <1>2, <1>3
     DEF IInv, PcOK, SaidOK, ResultOK, AnswerOK, ReadyOK, QueueOK, LoopOK, Unanswered, Checked,
         Ended, ReportIsOfAskedCode

\* A restart cuts off every request in progress.
LEMMA ServiceRestartsInv == ASSUME IInv, ServiceRestarts PROVE IInv'
<1>1. /\ pc' = [r \in Requests |-> "idle"]
      /\ answer' = [r \in Requests |-> IF pc[r] = "idle" THEN answer[r] ELSE "cut off"]
      /\ ready' = <<>> /\ loop' = NoOne /\ queue' = <<>>
      /\ UNCHANGED <<want, runnable, said, result, served, submitted>>
  BY DEF ServiceRestarts, backend
<1>2. IsInjective(<<>>) /\ ToSet(<<>>) = {} /\ <<>> \in Seq(Requests)
  BY DEF IsInjective, ToSet
<1>3. PcOK' /\ AnswerOK'
  BY <1>1 DEF IInv, PcOK, AnswerOK
<1>4. ReadyOK' /\ QueueOK' /\ LoopOK'
  BY <1>1, <1>2 DEF ReadyOK, QueueOK, LoopOK
<1>5. BackendOK'
  <2>1. restarts' \in 0..MaxRestarts
    <3>1. restarts < MaxRestarts /\ restarts' = restarts + 1
      BY DEF ServiceRestarts
    <3>2. restarts \in 0..MaxRestarts /\ MaxRestarts \in Nat
      BY ConstantsAssumption DEF IInv, BackendOK
    <3>3. QED
      BY <3>1, <3>2
  <2>2. QED
    BY <1>1, <2>1 DEF IInv, BackendOK, Versions
<1>6. CodeOK' /\ SaidOK' /\ ResultOK'
  BY <1>1 DEF IInv, CodeOK, SaidOK, ResultOK, Versions
<1>7. Unanswered' /\ Checked' /\ Ended' /\ ReportIsOfAskedCode'
  BY <1>1 DEF IInv, Unanswered, Checked, Ended, ReportIsOfAskedCode
<1>8. QED
  BY <1>3, <1>4, <1>5, <1>6, <1>7 DEF IInv

\* Every step keeps the invariant.
LEMMA InvStep == ASSUME IInv, [Next]_vars PROVE IInv'
<1>1. ASSUME NEW r \in Requests, Arrives(r) \/ Step(r) PROVE IInv'
  BY <1>1, ArrivesInv, HandlerStartsInv, FetchReturnsInv, EndsInv, HandlerResumesInv DEF Step
<1>2. CASE ThreadTakes \/ Submits \/ Withdraws \/ ServiceRestarts
  BY <1>2, ThreadTakesInv, BackendInv, ServiceRestartsInv
<1>3. CASE UNCHANGED vars
  BY <1>3 DEF vars, slot, IInv, PcOK, CodeOK, SaidOK, ResultOK, AnswerOK, BackendOK, ReadyOK, QueueOK,
              LoopOK, Versions, Unanswered, Checked, Ended, ReportIsOfAskedCode
<1>4. QED
  BY <1>1, <1>2, <1>3 DEF Next

\* In every behaviour of the service.
LEMMA InvAlways == Spec => []IInv
BY InvInit, InvStep, PTL DEF Spec

\* Every variable stays in its domain, and a request is in one place only.
THEOREM TypeCorrect == Spec => []TypeOK
<1>1. IInv => TypeOK
  BY DEF IInv, TypeOK, PcOK, CodeOK, SaidOK, ResultOK, AnswerOK, BackendOK, ReadyOK, QueueOK, LoopOK
<1>2. QED
  BY <1>1, InvAlways, PTL

\* A report is of the code that was asked for.
THEOREM AskedCode == Spec => []ReportIsOfAskedCode
<1>1. IInv => ReportIsOfAskedCode
  BY DEF IInv
<1>2. QED
  BY <1>1, InvAlways, PTL
=============================================================================
