--------------------------- MODULE Executor_proofs ---------------------------
(***************************************************************************)
(* For any runs of both processes, containers, crashes and docker faults:  *)
(* no path loses a container, a restarted validator leaves nothing of the  *)
(* last one, and a run no command of which failed is blamed on nobody but  *)
(* its wall budget or what its agent left.                                 *)
(***************************************************************************)
EXTENDS Executor, FiniteSetTheorems, TLAPS

-----------------------------------------------------------------------------
(* The inductive invariant                                                  *)

\* The type invariant in parts.
Early == {"idle", "network", "pull", "create"}
RunsOK == /\ step \in [Runs -> Steps] /\ kind \in [Runs -> {"agent", "detonation"}]
          /\ budget \in [Runs -> {"ample", "short"}] /\ outcome \in [Runs -> Outcomes]
          /\ expired \subseteq Runs /\ hot \subseteq Runs /\ fault \subseteq Runs
CidOK == /\ cid \in [Runs -> 1..made \cup {NoCid}]
         /\ \A r \in Runs : cid[r] = NoCid <=> step[r] \in Early
BoxOK == /\ state \in [Ids -> {"absent", "created", "running", "exited"}]
         /\ file \in [Ids -> Leavings]
         /\ made \in 0..MaxContainers
LeakedOK == leaked \subseteq {"command", "validator", "service"} \X (1..made)
RestOK == trace \in Answers \cup {"absent"} /\ up \in BOOLEAN /\ crashes \in 0..MaxCrashes

\* There is room for the containers of the runs that have none yet.
Waiting == {q \in Active : cid[q] = NoCid}
Room == made + Cardinality(Waiting) <= MaxContainers

\* What a detonation will return, while it removes its container.
Kept == Answers \cup {"raised"}
Decided == \A r \in Runs : step[r] = "remove" /\ ~Agent(r) => outcome[r] \in Kept

\* Only an agent has logs to read and a probe to look at.
AgentsAsked == \A r \in Runs : step[r] \in {"logs", "probe"} => Agent(r)

\* A container is of one run, and a lost one of none; a lost one exists.
OneOwner == \A q, r \in Runs : cid[q] = cid[r] /\ cid[q] # NoCid => q = r
LeakedExist == \A l \in leaked : l[2] \in Existing /\ \A r \in Runs : cid[r] # l[2]

IInv ==
  /\ RunsOK /\ CidOK /\ BoxOK /\ LeakedOK /\ RestOK
  /\ Room /\ Decided /\ AgentsAsked /\ OneOwner /\ LeakedExist /\ OrphansExplained /\ NothingLeftOver

\* The parts make the type invariant.
LEMMA TypeParts == RunsOK /\ CidOK /\ BoxOK /\ LeakedOK /\ RestOK => TypeOK
BY DEF RunsOK, CidOK, BoxOK, LeakedOK, RestOK, TypeOK, Early

\* Before the validator's first sweep nothing runs and nothing exists.
LEMMA InvInit == Init => IInv
<1>1. SUFFICES ASSUME Init PROVE IInv
  OBVIOUS
<1>2. RunsOK /\ BoxOK /\ RestOK
  <2>1. RunsOK
    BY <1>1 DEF Init, RunsOK, Steps, Outcomes
  <2>2. 0 \in 0..MaxContainers /\ 0 \in 0..MaxCrashes
    BY ConstantsAssumption
  <2>3. BoxOK /\ RestOK
    BY <1>1, <2>2 DEF Init, BoxOK, RestOK, Leavings
  <2>4. QED
    BY <2>1, <2>3
<1>3. CidOK /\ OneOwner
  BY <1>1, ConstantsAssumption DEF Init, CidOK, OneOwner, Early
<1>4. LeakedOK /\ LeakedExist /\ NothingLeftOver
  BY <1>1 DEF Init, LeakedOK, LeakedExist, NothingLeftOver
<1>5. Waiting = {} /\ Existing = {}
  BY <1>1 DEF Init, Waiting, Active, At, Existing
<1>6. Room
  BY <1>1, <1>5, ConstantsAssumption, FS_EmptySet DEF Init, Room
<1>7. Decided /\ AgentsAsked /\ OrphansExplained
  BY <1>1, <1>5 DEF Init, Decided, AgentsAsked, OrphansExplained
<1>8. QED
  BY <1>2, <1>3, <1>4, <1>6, <1>7 DEF IInv

-----------------------------------------------------------------------------
(* The shape of a step of a run                                             *)

\* The other runs stay as they are; the run goes on, or decides what it will
\* return, or returns.
Moves(r) ==
  /\ RunsOK' /\ \E n : cid' = [cid EXCEPT ![r] = n]
  /\ \A q \in Runs \ {r} : /\ step'[q] = step[q] /\ kind'[q] = kind[q]
                           /\ budget'[q] = budget[q] /\ outcome'[q] = outcome[q]
  /\ step'[r] = "remove" /\ kind'[r] # "agent" => outcome'[r] \in Kept
  /\ step'[r] \in {"logs", "probe"} => kind'[r] = "agent"
  /\ fault \subseteq fault'
  /\ trace' \in Answers \cup {"absent"} /\ UNCHANGED <<up, crashes>>

\* What it does to containers: nothing, or it creates one for itself, or one that
\* is lost, or it removes its own, or loses it.
Keeps(r) ==
  /\ UNCHANGED <<made, leaked>> /\ Existing' = Existing /\ cid'[r] = cid[r]
  /\ cid'[r] = NoCid <=> step'[r] \in Early
Creates(r) ==
  /\ step[r] = "create" /\ step'[r] \notin Early
  /\ made' = made + 1 /\ cid'[r] = made' /\ Existing' = Existing \cup {made'} /\ leaked' = leaked
CreatesLost(r) ==
  /\ step[r] = "create" /\ step'[r] = "idle" /\ cid'[r] = NoCid
  /\ made' = made + 1 /\ Existing' = Existing \cup {made'}
  /\ leaked' = leaked \cup {<<"command", made'>>}
Removes(r) ==
  /\ step'[r] = "idle" /\ cid[r] # NoCid /\ cid'[r] = NoCid
  /\ Existing' = Existing \ {cid[r]} /\ UNCHANGED <<made, leaked>>
Loses(r) ==
  /\ step'[r] = "idle" /\ cid[r] # NoCid /\ cid'[r] = NoCid
  /\ Existing' = Existing /\ made' = made
  /\ leaked' = leaked \cup ({"command"} \X ({cid[r]} \cap Existing))
Handles(r) == Keeps(r) \/ Creates(r) \/ CreatesLost(r) \/ Removes(r) \/ Loses(r)

\* There is room for a container while a run has none.
LEMMA RoomToCreate ==
  ASSUME IInv, NEW r \in Runs, step[r] = "create"
  PROVE  /\ r \in Waiting /\ IsFiniteSet(Waiting) /\ Cardinality(Waiting) \in Nat
         /\ made + 1 \in Ids /\ made \in Nat
         /\ made + 1 + Cardinality(Waiting \ {r}) <= MaxContainers
<1>1. r \in Waiting
  BY DEF IInv, CidOK, Early, Waiting, Active, At
<1>2. IsFiniteSet(Waiting) /\ Cardinality(Waiting) \in Nat
  <2>1. Waiting \subseteq Runs
    BY DEF Waiting, Active
  <2>2. QED
    BY <2>1, ConstantsAssumption, FS_Subset, FS_CardinalityType
<1>3. Cardinality(Waiting \ {r}) = Cardinality(Waiting) - 1 /\ Cardinality(Waiting \ {r}) \in Nat
  BY <1>1, <1>2, FS_RemoveElement, FS_CardinalityType
<1>4. made \in Nat /\ MaxContainers \in Nat /\ made + Cardinality(Waiting) <= MaxContainers
  BY ConstantsAssumption DEF IInv, BoxOK, Room
<1>5. QED
  BY <1>1, <1>2, <1>3, <1>4 DEF Ids

\* Fewer runs that wait, and no more containers, take no more room.
LEMMA RoomKept ==
  ASSUME IInv, made' = made, Waiting' \subseteq Waiting PROVE Room'
<1>1. Waiting \subseteq Runs
  BY DEF Waiting, Active
<1>2. /\ IsFiniteSet(Waiting) /\ Cardinality(Waiting) \in Nat
      /\ Cardinality(Waiting') \in Nat /\ Cardinality(Waiting') <= Cardinality(Waiting)
  BY <1>1, ConstantsAssumption, FS_Subset, FS_CardinalityType
<1>3. QED
  BY <1>2, ConstantsAssumption DEF IInv, BoxOK, Room

\* A step of that shape keeps the invariant, if the containers stay in their domain.
LEMMA ShapeKeeps ==
  ASSUME IInv, NEW r \in Runs, step[r] # "idle", Moves(r), Handles(r), BoxOK'
  PROVE  IInv'
<1>1. /\ \A q \in Runs \ {r} : cid'[q] = cid[q]
      /\ cid' = [cid EXCEPT ![r] = cid'[r]] /\ cid' \in [Runs -> {cid'[q] : q \in Runs}]
  BY DEF Moves, IInv, CidOK
<1>2. \A q \in Runs : cid[q] \in 1..made \cup {NoCid} /\ (cid[q] = NoCid <=> step[q] \in Early)
  BY DEF IInv, CidOK
<1>3. NoCid \notin Ids /\ MaxContainers \in Nat /\ made \in 0..MaxContainers /\ made' \in 0..MaxContainers
  BY ConstantsAssumption DEF IInv, BoxOK
<1>4. /\ made' \in {made, made + 1}
      /\ cid'[r] \in 1..made' \cup {NoCid} /\ (cid'[r] = NoCid <=> step'[r] \in Early)
  <2>1. CASE Keeps(r)
    BY <1>2, <2>1 DEF Keeps
  <2>2. CASE Creates(r)
    <3>1. cid'[r] \in Ids /\ cid'[r] \in 1..made' /\ step'[r] \notin Early
      BY <1>3, <2>2 DEF Creates, Ids
    <3>2. QED
      BY <1>3, <2>2, <3>1 DEF Creates
  <2>3. CASE CreatesLost(r) \/ Removes(r) \/ Loses(r)
    BY <2>3 DEF CreatesLost, Removes, Loses, Early
  <2>4. QED
    BY <2>1, <2>2, <2>3 DEF Handles
<1>5. CidOK'
  <2>1. \A q \in Runs : cid'[q] \in 1..made' \cup {NoCid} /\ (cid'[q] = NoCid <=> step'[q] \in Early)
    <3>1. \A q \in Runs \ {r} : step'[q] = step[q]
      BY DEF Moves
    <3>2. 1..made \subseteq 1..made'
      BY <1>3, <1>4
    <3>3. QED
      BY <1>1, <1>2, <1>4, <3>1, <3>2
  <2>2. QED
    BY <1>1, <2>1 DEF CidOK
<1>6. LeakedOK'
  <2>1. leaked \subseteq {"command", "validator", "service"} \X (1..made)
    BY DEF IInv, LeakedOK
  <2>2. 1..made \subseteq 1..made'
    BY <1>3, <1>4
  <2>3. CASE leaked' = leaked
    BY <2>1, <2>2, <2>3 DEF LeakedOK
  <2>4. CASE CreatesLost(r)
    <3>1. made' \in 1..made'
      BY <1>3, <2>4 DEF CreatesLost
    <3>2. QED
      BY <2>1, <2>2, <2>4, <3>1 DEF CreatesLost, LeakedOK
  <2>5. CASE Loses(r)
    BY <1>2, <2>1, <2>2, <2>5 DEF Loses, LeakedOK
  <2>6. QED
    BY <2>3, <2>4, <2>5 DEF Handles, Keeps, Creates, Removes
<1>7. Room'
  <2>1. \A q \in Runs \ {r} : q \in Waiting' <=> q \in Waiting
    BY <1>1 DEF Moves, Waiting, Active, At
  <2>2. CASE Keeps(r)
    <3>1. made' = made /\ cid'[r] = cid[r]
      BY <2>2 DEF Keeps
    <3>2. Waiting' \subseteq Waiting
      BY <2>1, <3>1 DEF Waiting, Active, At
    <3>3. QED
      BY <3>1, <3>2, RoomKept
  <2>3. CASE Removes(r) \/ Loses(r)
    <3>1. made' = made /\ r \notin Waiting'
      BY <2>3 DEF Removes, Loses, Waiting, Active, At
    <3>2. Waiting' \subseteq Waiting
      BY <2>1, <3>1 DEF Waiting, Active
    <3>3. QED
      BY <3>1, <3>2, RoomKept
  <2>4. CASE Creates(r) \/ CreatesLost(r)
    <3>1. step[r] = "create" /\ made' = made + 1
      BY <2>4 DEF Creates, CreatesLost
    <3>2. r \notin Waiting'
      <4>1. cid'[r] # NoCid \/ step'[r] = "idle"
        BY <1>4, <2>4 DEF Creates, CreatesLost
      <4>2. QED
        BY <4>1 DEF Waiting, Active, At
    <3>3. Waiting' = Waiting \ {r}
      BY <2>1, <3>2 DEF Waiting, Active
    <3>4. QED
      BY <3>1, <3>3, RoomToCreate DEF Room
  <2>5. QED
    BY <2>2, <2>3, <2>4 DEF Handles
<1>8. Decided' /\ AgentsAsked'
  <2>1. ASSUME NEW q \in Runs, step'[q] = "remove", ~Agent(q)'
        PROVE  outcome'[q] \in Kept
    <3>1. CASE q = r
      BY <2>1, <3>1 DEF Moves, Agent
    <3>2. CASE q # r
      BY <2>1, <3>2 DEF Moves, IInv, Decided, Agent
    <3>3. QED
      BY <3>1, <3>2
  <2>2. AgentsAsked'
    BY DEF Moves, IInv, AgentsAsked, Agent
  <2>3. QED
    BY <2>1, <2>2 DEF Decided
<1>9. made' = made + 1 => \A q \in Runs : cid[q] # made'
  BY <1>2, <1>3 DEF Ids
<1>10. OneOwner'
  <2>1. \A q \in Runs \ {r} : cid'[r] = NoCid \/ cid'[r] # cid[q]
    BY <1>9 DEF Handles, Keeps, Creates, CreatesLost, Removes, Loses, IInv, OneOwner
  <2>2. QED
    BY <1>1, <2>1 DEF IInv, OneOwner
<1>11. \A l \in leaked : l[2] \in Existing /\ l[2] \in 1..made /\ \A q \in Runs : cid[q] # l[2]
  BY DEF IInv, LeakedOK, LeakedExist
<1>12. LeakedExist'
  <2>1. CASE Keeps(r)
    BY <1>1, <1>11, <2>1 DEF Keeps, LeakedExist
  <2>2. CASE Creates(r)
    BY <1>1, <1>3, <1>11, <2>2 DEF Creates, LeakedExist
  <2>3. CASE CreatesLost(r)
    BY <1>1, <1>3, <1>9, <1>11, <2>3 DEF CreatesLost, LeakedExist, Ids
  <2>4. CASE Removes(r)
    BY <1>1, <1>3, <1>11, <2>4 DEF Removes, LeakedExist, Ids
  <2>5. CASE Loses(r)
    <3>1. \A q \in Runs \ {r} : cid'[q] # cid[r]
      BY <1>1, <2>5 DEF Loses, IInv, OneOwner
    <3>2. QED
      BY <1>1, <1>3, <1>11, <2>5, <3>1 DEF Loses, LeakedExist, Ids
  <2>6. QED
    BY <2>1, <2>2, <2>3, <2>4, <2>5 DEF Handles
<1>13. OrphansExplained'
  <2>1. \A q \in Runs : q # r /\ step[q] # "idle" => q \in Active'
    BY DEF Moves, Active, At
  <2>2. ASSUME NEW c \in Existing', ~\E l \in leaked' : l[2] = c
        PROVE  \E q \in Active' : cid'[q] = c
    <3>1. CASE c \in Existing
      <4>1. leaked \subseteq leaked'
        BY DEF Handles, Keeps, Creates, CreatesLost, Removes, Loses
      <4>2. PICK q \in Active : cid[q] = c
        BY <2>2, <3>1, <4>1 DEF IInv, OrphansExplained
      <4>3. CASE q # r
        BY <1>1, <2>1, <4>2, <4>3 DEF Active, At
      <4>4. CASE q = r
        <5>1. c # NoCid
          BY <1>3, <3>1 DEF Existing
        <5>2. ~Removes(r)
          BY <2>2, <4>2, <4>4 DEF Removes
        <5>3. ~Loses(r)
          <6>1. Loses(r) => <<"command", c>> \in leaked'
            BY <3>1, <4>2, <4>4 DEF Loses
          <6>2. QED
            BY <2>2, <6>1
        <5>4. ~Creates(r) /\ ~CreatesLost(r)
          BY <1>2, <4>2, <4>4, <5>1 DEF Creates, CreatesLost, Early
        <5>5. cid'[r] = c /\ step'[r] # "idle"
          BY <4>2, <4>4, <5>1, <5>2, <5>3, <5>4 DEF Handles, Keeps, Early
        <5>6. QED
          BY <5>5 DEF Active, At
      <4>5. QED
        BY <4>3, <4>4
    <3>2. CASE c \notin Existing
      <4>1. c = made' /\ (Creates(r) \/ CreatesLost(r))
        BY <2>2, <3>2 DEF Handles, Keeps, Creates, CreatesLost, Removes, Loses
      <4>2. ~CreatesLost(r)
        <5>1. CreatesLost(r) => <<"command", c>> \in leaked'
          BY <4>1 DEF CreatesLost
        <5>2. QED
          BY <2>2, <5>1
      <4>3. QED
        BY <4>1, <4>2 DEF Creates, Active, At, Early
    <3>3. QED
      BY <3>1, <3>2
  <2>3. QED
    BY <2>2 DEF OrphansExplained
<1>14. NothingLeftOver'
  <2>1. up' = up
    BY DEF Moves
  <2>2. \A l \in leaked' : l \in leaked \/ l[1] = "command"
    BY DEF Handles, Keeps, Creates, CreatesLost, Removes, Loses
  <2>3. QED
    BY <2>1, <2>2 DEF IInv, NothingLeftOver
<1>15. RunsOK' /\ RestOK'
  BY DEF Moves, IInv, RestOK
<1>16. QED
  BY <1>5, <1>6, <1>7, <1>8, <1>10, <1>12, <1>13, <1>14, <1>15 DEF IInv

-----------------------------------------------------------------------------
(* The docker commands of a run have that shape                             *)

\* A command that errs or expires is to blame, or the budget is.
LEMMA Blame ==
  ASSUME NEW r \in Runs, Errs(r) \/ Expires(r) \/ ExpiresShort(r)
  PROVE  fault' \in {fault, fault \cup {r}} /\ (r \in fault' \/ budget[r] = "short")
BY DEF Errs, Expires, ExpiresShort, Faulty

\* A run that goes on to its next command.
LEMMA GoesOn ==
  ASSUME IInv, NEW r \in Runs, NEW s \in Steps \ {"idle", "remove"}, Go(r, s),
         UNCHANGED <<kind, budget, outcome, trace>>, expired' \subseteq expired, hot' \subseteq hot,
         s \in {"logs", "probe"} => Agent(r),
         fault' \in {fault, fault \cup {r}}, UNCHANGED stepFrame, NEW n, cid' = [cid EXCEPT ![r] = n]
  PROVE  Moves(r) /\ step'[r] = s /\ cid'[r] = n
<1>1. /\ step' \in [Runs -> Steps] /\ step'[r] = s /\ \A q \in Runs \ {r} : step'[q] = step[q]
  BY DEF Go, IInv, RunsOK
<1>2. RunsOK'
  BY <1>1 DEF IInv, RunsOK
<1>3. cid'[r] = n
  BY DEF IInv, CidOK
<1>4. QED
  BY <1>1, <1>2, <1>3 DEF Moves, stepFrame, IInv, RestOK, Agent

\* A run that is over.
LEMMA Leaves ==
  ASSUME IInv, NEW r \in Runs, NEW o \in Outcomes, Idle(r, o),
         trace' = trace \/ trace' \in Answers,
         fault' \in {fault, fault \cup {r}}, UNCHANGED stepFrame
  PROVE  Moves(r) /\ step'[r] = "idle" /\ cid'[r] = NoCid
<1>1. /\ step' = [step EXCEPT ![r] = "idle"] /\ outcome' = [outcome EXCEPT ![r] = o]
      /\ kind' = [kind EXCEPT ![r] = "agent"] /\ budget' = [budget EXCEPT ![r] = "ample"]
      /\ cid' = [cid EXCEPT ![r] = NoCid] /\ expired' = expired \ {r} /\ hot' = hot \ {r}
  BY DEF Idle, Go
<1>2. /\ step' \in [Runs -> Steps] /\ step'[r] = "idle" /\ outcome'[r] = o
      /\ outcome' \in [Runs -> Outcomes]
      /\ \A q \in Runs \ {r} : step'[q] = step[q] /\ outcome'[q] = outcome[q]
  BY <1>1 DEF IInv, RunsOK, Steps
<1>3. /\ kind' \in [Runs -> {"agent", "detonation"}] /\ budget' \in [Runs -> {"ample", "short"}]
      /\ \A q \in Runs \ {r} : kind'[q] = kind[q] /\ budget'[q] = budget[q]
  BY <1>1 DEF IInv, RunsOK
<1>4. RunsOK'
  BY <1>1, <1>2, <1>3 DEF IInv, RunsOK
<1>5. cid'[r] = NoCid
  BY <1>1 DEF IInv, CidOK
<1>6. QED
  BY <1>1, <1>2, <1>3, <1>4, <1>5 DEF Moves, stepFrame, IInv, RestOK

\* A run that knows what it will return, and has a container to remove or none.
LEMMA Concludes ==
  ASSUME IInv, NEW r \in Runs, NEW o \in Outcomes, Conclude(r, o),
         fault' \in {fault, fault \cup {r}}, UNCHANGED stepFrame,
         ~Agent(r) => o \in Kept
  PROVE  /\ Moves(r) /\ cid'[r] = cid[r]
         /\ step'[r] = IF cid[r] = NoCid THEN "idle" ELSE "remove"
<1>1. CASE cid[r] = NoCid
  <2>1. Idle(r, o) /\ (trace' = trace \/ trace' \in Answers)
    BY <1>1 DEF Conclude, Return, Kept
  <2>2. QED
    BY <1>1, <2>1, Leaves
<1>2. CASE cid[r] # NoCid
  <2>1. /\ step' = [step EXCEPT ![r] = "remove"] /\ outcome' = [outcome EXCEPT ![r] = o]
        /\ expired' = expired \ {r} /\ hot' = hot \ {r} /\ UNCHANGED <<kind, budget, cid, trace>>
    BY <1>2 DEF Conclude, Go
  <2>2. /\ step' \in [Runs -> Steps] /\ step'[r] = "remove" /\ outcome'[r] = o
        /\ outcome' \in [Runs -> Outcomes]
        /\ \A q \in Runs \ {r} : step'[q] = step[q] /\ outcome'[q] = outcome[q]
    BY <2>1 DEF IInv, RunsOK, Steps
  <2>3. RunsOK'
    BY <2>1, <2>2 DEF IInv, RunsOK
  <2>4. cid' = [cid EXCEPT ![r] = cid[r]]
    BY <2>1 DEF IInv, CidOK
  <2>5. QED
    BY <1>2, <2>1, <2>2, <2>3, <2>4 DEF Moves, stepFrame, IInv, RestOK, Agent
<1>3. QED
  BY <1>1, <1>2

\* What an exhausted or a failed run returns is an answer of its kind.
LEMMA Verdicts ==
  ASSUME NEW r \in Runs
  PROVE  /\ Infra(r) \in Outcomes /\ (~Agent(r) => Infra(r) \in Kept)
         /\ Failed(r) \in Outcomes /\ (~Agent(r) => Failed(r) \in Kept)
BY DEF Infra, Failed, Outcomes, Answers, Kept

\* Commands that leave the containers alone.
LEMMA KeptBox ==
  ASSUME IInv, NEW r \in Runs, UNCHANGED <<box, leaked>>, cid'[r] = cid[r],
         cid'[r] = NoCid <=> step'[r] \in Early
  PROVE  Handles(r) /\ BoxOK'
BY DEF box, Handles, Keeps, Existing, IInv, BoxOK

\* A run has no container before its create is over, and one from then on.
LEMMA HasCid ==
  ASSUME IInv, NEW r \in Runs
  PROVE  /\ cid[r] = NoCid <=> step[r] \in Early
         /\ cid[r] # NoCid => cid[r] \in Ids
         /\ cid = [cid EXCEPT ![r] = cid[r]]
BY ConstantsAssumption DEF IInv, CidOK, BoxOK, Ids

\* The network and the image.
LEMMA BeforeCreate ==
  ASSUME IInv, NEW r \in Runs, EnsureNetwork(r) \/ PullImage(r)
  PROVE  Moves(r) /\ Handles(r) /\ BoxOK'
<1>1. /\ UNCHANGED stepFrame /\ UNCHANGED <<box, leaked>> /\ cid[r] = NoCid
      /\ "pull" \in Steps \ {"idle", "remove"} /\ "create" \in Steps \ {"idle", "remove"}
      /\ "raised" \in Outcomes
  BY HasCid DEF EnsureNetwork, PullImage, At, Early, Steps, Outcomes
<1>2. \/ /\ Go(r, "pull") \/ Go(r, "create")
         /\ UNCHANGED ongoing /\ fault' \in {fault, fault \cup {r}}
      \/ fault' \in {fault, fault \cup {r}} /\ (Raise(r) \/ Conclude(r, Infra(r)))
  BY Blame DEF EnsureNetwork, PullImage
<1>3. CASE UNCHANGED ongoing /\ fault' \in {fault, fault \cup {r}} /\ (Go(r, "pull") \/ Go(r, "create"))
  <2>1. /\ UNCHANGED <<kind, budget, outcome, trace>> /\ expired' \subseteq expired /\ hot' \subseteq hot
        /\ cid' = [cid EXCEPT ![r] = cid[r]]
    BY <1>3, HasCid DEF ongoing
  <2>2. Moves(r) /\ step'[r] \in {"pull", "create"} /\ cid'[r] = cid[r]
    BY <1>1, <1>3, <2>1, GoesOn
  <2>3. QED
    BY <1>1, <2>2, KeptBox DEF Early
<1>4. CASE fault' \in {fault, fault \cup {r}} /\ Raise(r)
  <2>1. Moves(r) /\ step'[r] = "idle" /\ cid'[r] = NoCid
    BY <1>1, <1>4, Leaves DEF Raise, Return
  <2>2. QED
    BY <1>1, <2>1, KeptBox DEF Early
<1>5. CASE fault' \in {fault, fault \cup {r}} /\ Conclude(r, Infra(r))
  <2>1. Moves(r) /\ cid'[r] = cid[r] /\ step'[r] = "idle"
    BY <1>1, <1>5, Concludes, Verdicts
  <2>2. QED
    BY <1>1, <2>1, KeptBox DEF Early
<1>6. QED
  BY <1>2, <1>3, <1>4, <1>5

\* The create, that of a container nobody knows of included.
LEMMA CreateShape ==
  ASSUME IInv, NEW r \in Runs, Create(r) PROVE Moves(r) /\ Handles(r) /\ BoxOK'
<1>1. /\ UNCHANGED stepFrame /\ file' = file /\ cid[r] = NoCid /\ step[r] = "create"
      /\ made + 1 \in Ids /\ made \in Nat /\ MaxContainers \in Nat
  BY HasCid, RoomToCreate, ConstantsAssumption DEF Create, At, Early
<1>2. ASSUME NewContainer PROVE BoxOK' /\ made' = made + 1 /\ Existing' = Existing \cup {made'}
  <2>1. made' = made + 1 /\ state' = [state EXCEPT ![made + 1] = "created"]
    BY <1>2 DEF NewContainer
  <2>2. /\ state' \in [Ids -> {"absent", "created", "running", "exited"}] /\ state'[made + 1] = "created"
        /\ \A c \in Ids \ {made + 1} : state'[c] = state[c]
    BY <1>1, <2>1 DEF IInv, BoxOK
  <2>3. made' \in 0..MaxContainers
    BY <1>1, <2>1 DEF Ids
  <2>4. QED
    BY <1>1, <2>1, <2>2, <2>3 DEF IInv, BoxOK, Existing
<1>3. CASE /\ NewContainer /\ cid' = [cid EXCEPT ![r] = made'] /\ Go(r, "copyin")
           /\ UNCHANGED <<kind, budget, fault, outcome, expired, hot, trace, leaked>>
  <2>1. Moves(r) /\ step'[r] = "copyin" /\ cid'[r] = made'
    <3>1. "copyin" \in Steps \ {"idle", "remove"}
      BY DEF Steps
    <3>2. QED
      BY <1>1, <1>3, <3>1, GoesOn
  <2>2. Creates(r)
    BY <1>1, <1>2, <1>3, <2>1 DEF Creates, Early
  <2>3. QED
    BY <1>2, <1>3, <2>1, <2>2 DEF Handles
<1>4. ASSUME fault' \in {fault, fault \cup {r}}, Conclude(r, Infra(r))
      PROVE  Moves(r) /\ step'[r] = "idle" /\ cid'[r] = NoCid
  BY <1>1, <1>4, Concludes, Verdicts
<1>5. CASE Errs(r) /\ Conclude(r, Infra(r)) /\ UNCHANGED <<state, made, leaked>>
  <2>1. Moves(r) /\ step'[r] = "idle" /\ cid'[r] = NoCid
    BY <1>4, <1>5, Blame
  <2>2. QED
    BY <1>1, <1>5, <2>1, KeptBox DEF box, Early
<1>6. CASE /\ Expires(r) /\ Conclude(r, Infra(r))
           /\ NewContainer /\ Lose("command", {made'})
  <2>1. Moves(r) /\ step'[r] = "idle" /\ cid'[r] = NoCid
    BY <1>4, <1>6, Blame
  <2>2. CreatesLost(r)
    BY <1>1, <1>2, <1>6, <2>1 DEF CreatesLost, Lose
  <2>3. QED
    BY <1>2, <1>6, <2>1, <2>2 DEF Handles
<1>7. CASE Expires(r) /\ Conclude(r, Infra(r)) /\ UNCHANGED <<state, made, leaked>>
  <2>1. Moves(r) /\ step'[r] = "idle" /\ cid'[r] = NoCid
    BY <1>4, <1>7, Blame
  <2>2. QED
    BY <1>1, <1>7, <2>1, KeptBox DEF box, Early
<1>8. QED
  BY <1>3, <1>5, <1>6, <1>7 DEF Create

\* A command behind the create that leaves the containers alone, or their number.
LEMMA AfterCreate ==
  ASSUME IInv, NEW r \in Runs, step[r] \notin Early, UNCHANGED stepFrame,
         UNCHANGED <<made, leaked>>, Existing' = Existing, BoxOK',
         fault' \in {fault, fault \cup {r}},
         \/ \E s \in Steps \ (Early \cup {"remove"}) :
              /\ Go(r, s) /\ UNCHANGED <<kind, budget, cid, outcome, trace>>
              /\ expired' \subseteq expired /\ hot' \subseteq hot
              /\ s \in {"logs", "probe"} => Agent(r)
         \/ \E o \in Outcomes :
              Conclude(r, o) /\ (~Agent(r) => o \in Kept)
  PROVE  Moves(r) /\ Handles(r) /\ BoxOK'
<1>1. cid[r] # NoCid /\ cid = [cid EXCEPT ![r] = cid[r]]
  BY HasCid
<1>2. ASSUME NEW s \in Steps \ (Early \cup {"remove"}), Go(r, s),
             UNCHANGED <<kind, budget, cid, outcome, trace>>,
             expired' \subseteq expired, hot' \subseteq hot, s \in {"logs", "probe"} => Agent(r)
      PROVE  Moves(r) /\ cid'[r] = cid[r] /\ step'[r] \notin Early
  <2>1. s \in Steps \ {"idle", "remove"}
    BY <1>2 DEF Early
  <2>2. cid' = [cid EXCEPT ![r] = cid[r]]
    BY <1>1, <1>2
  <2>3. Moves(r) /\ step'[r] = s /\ cid'[r] = cid[r]
    BY <1>2, <2>1, <2>2, GoesOn
  <2>4. QED
    BY <1>2, <2>3
<1>3. ASSUME NEW o \in Outcomes, Conclude(r, o), ~Agent(r) => o \in Kept
      PROVE  Moves(r) /\ cid'[r] = cid[r] /\ step'[r] \notin Early
  <2>1. Moves(r) /\ cid'[r] = cid[r] /\ step'[r] = "remove"
    BY <1>1, <1>3, Concludes
  <2>2. QED
    BY <2>1 DEF Early
<1>4. Moves(r) /\ cid'[r] = cid[r] /\ step'[r] \notin Early
  BY <1>2, <1>3
<1>5. QED
  BY <1>1, <1>4 DEF Handles, Keeps

\* The copies, the logs and the probe.
LEMMA CopiesShape ==
  ASSUME IInv, NEW r \in Runs, CopyIn(r) \/ CopyOut(r) \/ Logs(r) \/ Probe(r)
  PROVE  Moves(r) /\ Handles(r) /\ BoxOK'
<1>1. /\ step[r] \notin Early /\ UNCHANGED stepFrame /\ UNCHANGED <<made, leaked>>
      /\ Existing' = Existing /\ BoxOK'
  BY DEF CopyIn, CopyOut, Logs, Probe, At, Early, box, Existing, IInv, BoxOK
<1>2. {"start", "logs", "probe"} \subseteq Steps \ (Early \cup {"remove"})
  BY DEF Steps, Early
<1>3. /\ step[r] \in {"logs", "probe"} => Agent(r)
      /\ {"failed", "raised", "infra", "untraced"} \subseteq Outcomes /\ "untraced" \in Kept
      /\ \A left, probe : Reported(left, probe) \in Outcomes
      /\ \A left : Detonated(left) \in Outcomes \cap Kept
  BY DEF IInv, AgentsAsked, Outcomes, Answers, Kept, Reported, Detonated
<1>4. fault' = fault \/ Errs(r) \/ Expires(r) \/ ExpiresShort(r)
  BY DEF CopyIn, CopyOut, Logs, Probe
<1>5. fault' \in {fault, fault \cup {r}}
  BY <1>4, Blame
<1>6. ASSUME NEW s \in {"start", "logs", "probe"}, Go(r, s), UNCHANGED ongoing,
             s \in {"logs", "probe"} => Agent(r)
      PROVE  Moves(r) /\ Handles(r) /\ BoxOK'
  <2>1. /\ UNCHANGED <<kind, budget, cid, outcome, trace>>
        /\ expired' \subseteq expired /\ hot' \subseteq hot
    BY <1>6 DEF ongoing
  <2>2. QED
    BY <1>1, <1>2, <1>5, <1>6, <2>1, AfterCreate
<1>7. ASSUME NEW o \in Outcomes, Conclude(r, o), ~Agent(r) => o \in Kept
      PROVE  Moves(r) /\ Handles(r) /\ BoxOK'
  BY <1>1, <1>5, <1>7, AfterCreate
<1>8. CASE CopyIn(r)
  <2>1. \/ Go(r, "start") /\ UNCHANGED ongoing
        \/ Conclude(r, Infra(r))
    BY <1>8 DEF CopyIn
  <2>2. QED
    BY <1>6, <1>7, <2>1, Verdicts
<1>9. CASE CopyOut(r)
  <2>1. \/ \E s \in {"logs", "probe"} : Agent(r) /\ Go(r, s) /\ UNCHANGED ongoing
        \/ ~Agent(r) /\ \E left : Conclude(r, "untraced") \/ Conclude(r, Detonated(left))
        \/ Agent(r) /\ \E left : Conclude(r, Reported(left, "unasked"))
        \/ Conclude(r, Infra(r))
    BY <1>9 DEF CopyOut
  <2>2. QED
    BY <1>3, <1>6, <1>7, <2>1, Verdicts
<1>10. CASE Logs(r) \/ Probe(r)
  <2>1. Agent(r) /\ \E o \in Outcomes : Conclude(r, o)
    BY <1>3, <1>10 DEF Logs, Probe, At
  <2>2. QED
    BY <1>7, <2>1
<1>11. QED
  BY <1>8, <1>9, <1>10

\* The start and the turns of the wait, which change what a container does.
LEMMA AwaitShape ==
  ASSUME IInv, NEW r \in Runs, Start(r) \/ Poll(r) PROVE Moves(r) /\ Handles(r) /\ BoxOK'
<1>1. /\ step[r] \notin Early /\ UNCHANGED stepFrame /\ UNCHANGED <<file, made, leaked>>
      /\ cid[r] \in Ids
  BY HasCid DEF Start, Poll, At, Early
<1>2. \/ state' = state
      \/ /\ state[cid[r]] # "absent"
         /\ state' = [state EXCEPT ![cid[r]] = "running"] \/ state' = [state EXCEPT ![cid[r]] = "exited"]
  BY DEF Start, Poll, Started, Missing, Killed
<1>3. Existing' = Existing /\ BoxOK'
  <2>1. CASE state' = state
    BY <1>1, <2>1 DEF Existing, IInv, BoxOK
  <2>2. ASSUME NEW w \in {"running", "exited"}, state[cid[r]] # "absent",
               state' = [state EXCEPT ![cid[r]] = w]
        PROVE  Existing' = Existing /\ BoxOK'
    <3>1. state \in [Ids -> {"absent", "created", "running", "exited"}]
      BY DEF IInv, BoxOK
    <3>2. /\ state' \in [Ids -> {"absent", "created", "running", "exited"}] /\ state'[cid[r]] = w
          /\ \A c \in Ids : c # cid[r] => state'[c] = state[c]
      BY <1>1, <2>2, <3>1
    <3>3. Existing' = Existing
      BY <1>1, <2>2, <3>2 DEF Existing
    <3>4. QED
      BY <1>1, <3>2, <3>3 DEF IInv, BoxOK
  <2>3. QED
    BY <1>2, <2>1, <2>2
<1>4. {"await", "copyout"} \subseteq Steps \ (Early \cup {"remove"})
  BY DEF Steps, Early
<1>5. \/ /\ fault' \in {fault, fault \cup {r}}
         /\ \E s \in {"await", "copyout"} : Go(r, s)
         /\ UNCHANGED <<kind, budget, cid, outcome, trace>> /\ expired' \subseteq expired /\ hot' \subseteq hot
      \/ /\ fault' \in {fault, fault \cup {r}}
         /\ Conclude(r, Failed(r)) \/ Conclude(r, Infra(r))
  <2>1. CASE Start(r)
    <3>1. \/ Go(r, "await") /\ UNCHANGED <<ongoing, fault>>
          \/ (Errs(r) \/ ExpiresShort(r)) /\ Conclude(r, Infra(r))
      BY <2>1 DEF Start
    <3>2. QED
      BY <3>1, Blame DEF ongoing
  <2>2. CASE Poll(r)
    <3>1. \/ /\ fault' = fault \/ Errs(r)
             /\ Go(r, "copyout") /\ expired' = expired \ {r} /\ hot' = hot \ {r}
             /\ UNCHANGED <<kind, budget, cid, outcome, trace>>
          \/ Conclude(r, Failed(r)) /\ (fault' = fault \/ Errs(r))
          \/ Expires(r) /\ Conclude(r, Infra(r))
      BY <2>2 DEF Poll
    <3>2. QED
      BY <3>1, Blame
  <2>3. QED
    BY <2>1, <2>2
<1>6. CASE /\ fault' \in {fault, fault \cup {r}}
           /\ \E s \in {"await", "copyout"} : Go(r, s)
           /\ UNCHANGED <<kind, budget, cid, outcome, trace>> /\ expired' \subseteq expired /\ hot' \subseteq hot
  BY <1>1, <1>3, <1>4, <1>6, AfterCreate
<1>7. CASE /\ fault' \in {fault, fault \cup {r}}
           /\ Conclude(r, Failed(r)) \/ Conclude(r, Infra(r))
  BY <1>1, <1>3, <1>7, Verdicts, AfterCreate
<1>8. QED
  BY <1>5, <1>6, <1>7

\* The removal, which may fail, time out, or find the container gone.
LEMMA RemoveShape ==
  ASSUME IInv, NEW r \in Runs, Remove(r) PROVE Moves(r) /\ Handles(r) /\ BoxOK'
<1>1. /\ step[r] = "remove" /\ cid[r] # NoCid /\ cid[r] \in Ids
      /\ UNCHANGED stepFrame /\ UNCHANGED <<file, made>>
      /\ "raised" \in Outcomes /\ outcome[r] \in Outcomes
  BY HasCid DEF Remove, At, Early, Outcomes, IInv, RunsOK
<1>2. ~Agent(r) => outcome[r] \in Kept
  BY <1>1 DEF IInv, Decided
<1>3. ASSUME Return(r, outcome[r]), fault' \in {fault, fault \cup {r}}
      PROVE  Moves(r) /\ step'[r] = "idle" /\ cid'[r] = NoCid
  BY <1>1, <1>2, <1>3, Leaves DEF Return, Kept
<1>4. CASE Return(r, outcome[r]) /\ Gone({cid[r]}) /\ UNCHANGED <<fault, leaked>>
  <2>1. Moves(r) /\ step'[r] = "idle" /\ cid'[r] = NoCid
    BY <1>3, <1>4
  <2>2. state' = [c \in Ids |-> IF c = cid[r] THEN "absent" ELSE state[c]] /\ file' = file
    BY <1>4 DEF Gone, Remove
  <2>3. BoxOK' /\ Existing' = Existing \ {cid[r]}
    BY <1>1, <2>2 DEF IInv, BoxOK, Existing
  <2>4. QED
    BY <1>1, <1>4, <2>1, <2>3 DEF Handles, Removes
<1>5. CASE /\ Expires(r) /\ (Return(r, outcome[r]) \/ Raise(r))
           /\ Lose("command", {cid[r]} \cap Existing) /\ UNCHANGED state
  <2>1. fault' \in {fault, fault \cup {r}} /\ r \in fault'
    BY <1>5 DEF Expires, Faulty
  <2>2. CASE Raise(r)
    <3>1. Moves(r) /\ step'[r] = "idle" /\ cid'[r] = NoCid
      BY <1>1, <2>1, <2>2, Leaves DEF Raise, Return
    <3>2. QED
      BY <1>1, <1>5, <3>1 DEF Handles, Loses, Lose, Existing, IInv, BoxOK
  <2>3. CASE Return(r, outcome[r])
    <3>1. Moves(r) /\ step'[r] = "idle" /\ cid'[r] = NoCid
      BY <1>3, <2>1, <2>3
    <3>2. QED
      BY <1>1, <1>5, <3>1 DEF Handles, Loses, Lose, Existing, IInv, BoxOK
  <2>4. QED
    BY <1>5, <2>2, <2>3
<1>6. QED
  BY <1>4, <1>5 DEF Remove

\* Every docker command has the shape, and so keeps the invariant.
LEMMA RunStepShape ==
  ASSUME IInv, NEW r \in Runs, RunStep(r)
  PROVE  step[r] # "idle" /\ Moves(r) /\ Handles(r) /\ BoxOK'
<1>1. step[r] # "idle"
  BY DEF RunStep, EnsureNetwork, PullImage, Create, CopyIn, Start, Poll, CopyOut, Logs, Probe, Remove, At
<1>2. QED
  BY <1>1, BeforeCreate, CreateShape, CopiesShape, AwaitShape, RemoveShape DEF RunStep

-----------------------------------------------------------------------------
(* The other actions                                                        *)

\* What leaves the containers and their owners alone has little to keep.
LEMMA OwnersStay ==
  ASSUME IInv, BoxOK', made' = made, Existing' = Existing, UNCHANGED <<leaked, cid, up, crashes>>,
         RunsOK', Room', Decided', AgentsAsked', trace' \in Answers \cup {"absent"},
         \A q \in Runs : step'[q] \in Early <=> step[q] \in Early
  PROVE  IInv'
<1>1. CidOK' /\ LeakedOK' /\ RestOK' /\ OneOwner' /\ NothingLeftOver' /\ LeakedExist'
  BY DEF IInv, CidOK, LeakedOK, RestOK, OneOwner, NothingLeftOver, LeakedExist
<1>2. OrphansExplained'
  <2>1. \A q \in Active : cid[q] # NoCid => q \in Active'
    BY DEF IInv, CidOK, Active, At, Early
  <2>2. \A c \in Existing : c # NoCid
    BY ConstantsAssumption DEF Existing
  <2>3. QED
    BY <2>1, <2>2 DEF IInv, OrphansExplained
<1>3. QED
  BY <1>1, <1>2 DEF IInv

\* A run starts where there is room for its container.
LEMMA StartKeeps == ASSUME IInv, NEW r \in Runs, RunStarts(r) PROVE IInv'
<1>1. /\ step[r] = "idle" /\ UNCHANGED <<budget, cid, expired, hot, made, leaked, up, crashes, trace>>
      /\ UNCHANGED box /\ fault' = fault \ {r} /\ step' = [step EXCEPT ![r] = "network"]
      /\ kind' = kind \/ kind' = [kind EXCEPT ![r] = "detonation"]
      /\ outcome' = [outcome EXCEPT ![r] = "none"]
  BY DEF RunStarts, At, Go, box, rest
<1>2. /\ step' \in [Runs -> Steps] /\ step'[r] = "network" /\ \A q \in Runs \ {r} : step'[q] = step[q]
  BY <1>1 DEF IInv, RunsOK, Steps
<1>3. /\ kind' \in [Runs -> {"agent", "detonation"}] /\ \A q \in Runs \ {r} : kind'[q] = kind[q]
  BY <1>1 DEF IInv, RunsOK
<1>4. /\ outcome' \in [Runs -> Outcomes] /\ \A q \in Runs \ {r} : outcome'[q] = outcome[q]
  BY <1>1 DEF IInv, RunsOK, Outcomes
<1>5. RunsOK'
  BY <1>1, <1>2, <1>3, <1>4 DEF IInv, RunsOK
<1>6. Decided'
  BY <1>1, <1>2, <1>3, <1>4 DEF IInv, Decided, Agent
<1>7. AgentsAsked'
  BY <1>2, <1>3 DEF IInv, AgentsAsked, Agent
<1>8. Room'
  <2>1. made + Cardinality(Waiting) < MaxContainers
    BY DEF RunStarts, Waiting
  <2>2. Waiting \subseteq Runs /\ Waiting' = Waiting \cup {r} /\ r \notin Waiting
    BY <1>1, <1>2 DEF Waiting, Active, At, IInv, CidOK, Early
  <2>3. IsFiniteSet(Waiting) /\ Cardinality(Waiting) \in Nat
    BY <2>2, ConstantsAssumption, FS_Subset, FS_CardinalityType
  <2>4. Cardinality(Waiting') = Cardinality(Waiting) + 1
    BY <2>2, <2>3, FS_AddElement
  <2>5. QED
    BY <1>1, <2>1, <2>3, <2>4, ConstantsAssumption DEF IInv, BoxOK, Room
<1>9. BoxOK' /\ Existing' = Existing
  BY <1>1 DEF IInv, BoxOK, box, Existing
<1>10. /\ trace' \in Answers \cup {"absent"}
       /\ \A q \in Runs : step'[q] \in Early <=> step[q] \in Early
  BY <1>1, <1>2 DEF IInv, RestOK, Early
<1>11. QED
  BY <1>1, <1>5, <1>6, <1>7, <1>8, <1>9, <1>10, OwnersStay

\* Where no run moves, as many wait as before.
LEMMA NobodyMoves ==
  ASSUME IInv, UNCHANGED <<step, kind, cid, made, leaked, up, crashes>>, BoxOK', Existing' = Existing,
         RunsOK', Decided', trace' \in Answers \cup {"absent"}
  PROVE  IInv'
<1>1. Room'
  <2>1. Waiting' \subseteq Waiting
    BY DEF Waiting, Active, At
  <2>2. QED
    BY <2>1, RoomKept
<1>2. AgentsAsked'
  BY DEF IInv, AgentsAsked, Agent
<1>3. QED
  BY <1>1, <1>2, OwnersStay

\* A refusal, a clock, a reading, or nothing at all.
LEMMA SmallStepKeeps ==
  ASSUME IInv, \/ \E r \in Runs : \/ RunRefused(r) \/ DetonationRefused(r) \/ ShrinkingBudget(r)
                                  \/ OverCpu(r) \/ DeadlinePasses(r)
               \/ UNCHANGED vars
  PROVE  IInv'
<1>1. /\ UNCHANGED <<step, kind, cid, made, leaked, up, crashes>> /\ BoxOK' /\ Existing' = Existing
      /\ trace' = trace \/ trace' \in Answers
  BY DEF RunRefused, DetonationRefused, ShrinkingBudget, OverCpu, DeadlinePasses, vars, run, rest,
         box, Existing, IInv, BoxOK, Answers
<1>2. trace' \in Answers \cup {"absent"}
  BY <1>1 DEF IInv, RestOK
<1>3. ASSUME NEW r \in Runs, RunRefused(r) \/ DetonationRefused(r) PROVE RunsOK' /\ Decided'
  <2>1. /\ step[r] = "idle" /\ fault' = fault \ {r} /\ UNCHANGED <<step, kind, budget, expired, hot>>
        /\ \E o \in {"failed", "untraced"} : outcome' = [outcome EXCEPT ![r] = o]
    BY <1>3 DEF RunRefused, DetonationRefused, At
  <2>2. outcome' \in [Runs -> Outcomes] /\ \A q \in Runs \ {r} : outcome'[q] = outcome[q]
    BY <2>1 DEF IInv, RunsOK, Outcomes, Answers
  <2>3. RunsOK'
    BY <2>1, <2>2 DEF IInv, RunsOK
  <2>4. Decided'
    BY <2>1, <2>2 DEF IInv, Decided, Agent
  <2>5. QED
    BY <2>3, <2>4
<1>4. ASSUME NEW r \in Runs, ShrinkingBudget(r) PROVE RunsOK' /\ Decided'
  <2>1. /\ budget' = [budget EXCEPT ![r] = "short"] /\ UNCHANGED <<step, kind, outcome, expired, hot, fault>>
    BY <1>4 DEF ShrinkingBudget
  <2>2. /\ budget' \in [Runs -> {"ample", "short"}]
        /\ \A q \in Runs : budget[q] = "short" => budget'[q] = "short"
    BY <2>1 DEF IInv, RunsOK
  <2>3. QED
    BY <2>1, <2>2 DEF IInv, RunsOK, Decided, Agent
<1>5. ASSUME NEW r \in Runs, OverCpu(r) \/ DeadlinePasses(r) PROVE RunsOK' /\ Decided'
  BY <1>5 DEF OverCpu, DeadlinePasses, IInv, RunsOK, Decided, Agent
<1>6. ASSUME UNCHANGED vars PROVE RunsOK' /\ Decided'
  BY <1>6 DEF vars, run, IInv, RunsOK, Decided, Agent
<1>7. RunsOK' /\ Decided'
  BY <1>3, <1>4, <1>5, <1>6
<1>8. QED
  BY <1>1, <1>2, <1>7, NobodyMoves

\* A container that exits is still there.
LEMMA ExitKeeps == ASSUME IInv, NEW c \in Ids, ContainerExits(c) PROVE IInv'
<1>1. /\ UNCHANGED <<run, made, leaked, rest>> /\ state[c] = "running"
      /\ state' = [state EXCEPT ![c] = "exited"]
      /\ \E left \in Leavings : file' = [file EXCEPT ![c] = left]
  BY DEF ContainerExits
<1>2. /\ state' \in [Ids -> {"absent", "created", "running", "exited"}] /\ state'[c] = "exited"
      /\ \A d \in Ids \ {c} : state'[d] = state[d]
  BY <1>1 DEF IInv, BoxOK
<1>3. BoxOK' /\ Existing' = Existing
  BY <1>1, <1>2 DEF IInv, BoxOK, Existing
<1>4. RunsOK' /\ Decided' /\ trace' \in Answers \cup {"absent"}
  BY <1>1 DEF run, rest, IInv, RunsOK, RestOK, Decided, Agent
<1>5. QED
  BY <1>1, <1>3, <1>4, NobodyMoves DEF run, rest

\* A crash loses the containers of the process that dies, and of no other.
LEMMA CrashKeeps ==
  ASSUME IInv, NEW P \in SUBSET Runs, NEW cause \in {"validator", "service"}, Crash(P, cause),
         trace' \in Answers \cup {"absent"}, up' \in BOOLEAN, up' => up /\ cause = "service"
  PROVE  IInv'
<1> DEFINE lost == {cid[r] : r \in P} \cap Existing
<1>1. \A q \in Runs : IF q \in P
        THEN /\ step'[q] = "idle" /\ kind'[q] = "agent" /\ budget'[q] = "ample"
             /\ cid'[q] = NoCid /\ outcome'[q] = "none"
        ELSE /\ step'[q] = step[q] /\ kind'[q] = kind[q] /\ budget'[q] = budget[q]
             /\ cid'[q] = cid[q] /\ outcome'[q] = outcome[q]
  BY DEF Crash
<1>2. /\ fault' = fault \ P /\ expired' = expired \ P /\ hot' = hot \ P /\ file' = file
      /\ crashes' = crashes + 1 /\ crashes < MaxCrashes
  BY DEF Crash
<1>3. RunsOK'
  <2>1. step' \in [Runs -> Steps] /\ kind' \in [Runs -> {"agent", "detonation"}]
    BY DEF Crash, IInv, RunsOK, Steps
  <2>2. budget' \in [Runs -> {"ample", "short"}] /\ outcome' \in [Runs -> Outcomes]
    BY DEF Crash, IInv, RunsOK, Outcomes
  <2>3. QED
    BY <1>2, <2>1, <2>2 DEF IInv, RunsOK
<1>4. RestOK'
  BY <1>2, ConstantsAssumption DEF IInv, RestOK
<1>5. Decided' /\ AgentsAsked'
  BY <1>1, <1>2 DEF IInv, Decided, AgentsAsked, Agent
<1>6. OneOwner'
  BY <1>1 DEF IInv, OneOwner
<1>7. /\ \A q \in Runs : cid[q] \in 1..made \cup {NoCid} /\ (cid[q] = NoCid <=> step[q] \in Early)
      /\ NoCid \notin Ids /\ MaxContainers \in Nat /\ made \in 0..MaxContainers
      /\ \A c \in Existing : c # NoCid
  BY ConstantsAssumption DEF IInv, CidOK, BoxOK, Existing
<1>8. \/ UNCHANGED <<state, made>> /\ Existing' = Existing /\ leaked' = leaked \cup ({cause} \X lost)
      \/ /\ made' = made + 1 /\ Existing' = Existing \cup {made'} /\ BoxOK'
         /\ leaked' = leaked \cup ({cause} \X (lost \cup {made'}))
         /\ \E r \in P : step[r] = "create"
  <2>1. CASE \E r \in P : Lose(cause, lost) /\ UNCHANGED <<state, made>>
    BY <2>1 DEF Lose, Existing
  <2>2. ASSUME NEW r \in P, step[r] = "create", NewContainer, Lose(cause, lost \cup {made'})
        PROVE  /\ made' = made + 1 /\ Existing' = Existing \cup {made'} /\ BoxOK'
               /\ leaked' = leaked \cup ({cause} \X (lost \cup {made'}))
    <3>1. made + 1 \in Ids /\ r \in Runs
      BY <2>2, RoomToCreate
    <3>2. made' = made + 1 /\ state' = [state EXCEPT ![made + 1] = "created"]
      BY <2>2 DEF NewContainer
    <3>3. /\ state' \in [Ids -> {"absent", "created", "running", "exited"}] /\ state'[made + 1] = "created"
          /\ \A c \in Ids \ {made + 1} : state'[c] = state[c]
      BY <3>1, <3>2 DEF IInv, BoxOK
    <3>4. made' \in 0..MaxContainers
      BY <1>7, <3>1, <3>2 DEF Ids
    <3>5. BoxOK'
      BY <1>2, <3>3, <3>4 DEF IInv, BoxOK
    <3>6. Existing' = Existing \cup {made'}
      BY <3>1, <3>2, <3>3 DEF Existing
    <3>7. QED
      BY <2>2, <3>2, <3>5, <3>6 DEF Lose
  <2>3. QED
    BY <2>1, <2>2 DEF Crash, At
<1>9. BoxOK'
  BY <1>2, <1>8 DEF IInv, BoxOK
<1>10. lost \subseteq 1..made /\ made' \in {made, made + 1}
  BY <1>7, <1>8
<1>11. 1..made \subseteq 1..made' /\ (made' = made + 1 => made' \in 1..made' /\ made' \notin 1..made /\ made' \in Ids)
  BY <1>7, <1>9, <1>10 DEF BoxOK, Ids
<1>12. CidOK'
  <2>1. \A q \in Runs : cid'[q] \in 1..made' \cup {NoCid} /\ (cid'[q] = NoCid <=> step'[q] \in Early)
    BY <1>1, <1>7, <1>11 DEF Early
  <2>2. cid' = [r \in Runs |-> IF r \in P THEN NoCid ELSE cid[r]]
    BY DEF Crash
  <2>3. QED
    BY <2>1, <2>2 DEF CidOK
<1> HIDE DEF lost
<1>13. \A l \in leaked' : l \in leaked \/ (l[1] = cause /\ (l[2] \in lost \/ (l[2] = made' /\ made' = made + 1)))
  BY <1>8
<1>14. LeakedOK'
  <2>1. leaked \subseteq {"command", "validator", "service"} \X (1..made')
    BY <1>11 DEF IInv, LeakedOK
  <2>2. {cause} \X lost \subseteq {"command", "validator", "service"} \X (1..made')
    BY <1>10, <1>11
  <2>3. made' = made + 1 => {cause} \X {made'} \subseteq {"command", "validator", "service"} \X (1..made')
    BY <1>11
  <2>4. QED
    BY <1>8, <2>1, <2>2, <2>3 DEF LeakedOK
<1>15. Room'
  <2>1. \A q \in Waiting' : q \in Waiting /\ q \notin P
    BY <1>1 DEF Waiting, Active, At
  <2>2. CASE made' = made
    BY <2>1, <2>2, RoomKept
  <2>3. ASSUME made' = made + 1, NEW r \in P, step[r] = "create" PROVE Room'
    <3>1. Waiting' \subseteq Waiting \ {r}
      BY <2>1
    <3>2. /\ IsFiniteSet(Waiting) /\ made \in Nat
          /\ made + 1 + Cardinality(Waiting \ {r}) <= MaxContainers
      BY <2>3, RoomToCreate
    <3>3. IsFiniteSet(Waiting \ {r})
      BY <3>2, FS_Subset
    <3>4. /\ Cardinality(Waiting \ {r}) \in Nat /\ Cardinality(Waiting') \in Nat
          /\ Cardinality(Waiting') <= Cardinality(Waiting \ {r})
      BY <3>1, <3>3, FS_Subset, FS_CardinalityType
    <3>5. QED
      BY <1>7, <2>3, <3>2, <3>4 DEF Room
  <2>4. QED
    BY <1>8, <2>2, <2>3
<1>16. LeakedExist'
  <2>1. \A q \in Runs : cid'[q] \in {cid[q], NoCid}
    BY <1>1
  <2>2. Existing \subseteq Existing'
    BY <1>8
  <2>3. ASSUME NEW l \in leaked PROVE l[2] \in Existing' /\ \A q \in Runs : cid'[q] # l[2]
    BY <1>7, <2>1, <2>2 DEF IInv, LeakedExist
  <2>4. ASSUME NEW c \in lost PROVE c \in Existing' /\ \A q \in Runs : cid'[q] # c
    <3>1. c \in Existing /\ c # NoCid /\ \E p \in P : cid[p] = c
      BY <1>7 DEF lost
    <3>2. \A q \in Runs : cid[q] = c => q \in P
      BY <3>1 DEF IInv, OneOwner
    <3>3. QED
      BY <1>1, <2>2, <3>1, <3>2
  <2>5. made' = made + 1 => made' \in Existing' /\ \A q \in Runs : cid'[q] # made'
    BY <1>7, <1>8, <1>11, <2>1
  <2>6. QED
    BY <1>13, <2>3, <2>4, <2>5 DEF LeakedExist
<1>17. OrphansExplained'
  <2>1. ASSUME NEW c \in Existing' PROVE (\E l \in leaked' : l[2] = c) \/ \E q \in Active' : cid'[q] = c
    <3>1. CASE \E l \in leaked : l[2] = c
      BY <1>8, <3>1
    <3>2. ASSUME c \in Existing, NEW q \in Active, cid[q] = c
          PROVE  (\E l \in leaked' : l[2] = c) \/ \E p \in Active' : cid'[p] = c
      <4>1. CASE q \in P
        <5>1. c \in lost
          BY <3>2, <4>1 DEF lost
        <5>2. <<cause, c>> \in leaked'
          BY <1>8, <5>1
        <5>3. QED
          BY <5>2
      <4>2. CASE q \notin P
        BY <1>1, <3>2, <4>2 DEF Active, At
      <4>3. QED
        BY <4>1, <4>2
    <3>3. CASE c \notin Existing
      <4>1. <<cause, c>> \in leaked'
        BY <1>8, <3>3
      <4>2. QED
        BY <4>1
    <3>4. QED
      BY <3>1, <3>2, <3>3 DEF IInv, OrphansExplained
  <2>2. QED
    BY <2>1 DEF OrphansExplained
<1>18. NothingLeftOver'
  BY <1>13 DEF IInv, NothingLeftOver
<1>19. QED
  BY <1>3, <1>4, <1>5, <1>6, <1>9, <1>12, <1>14, <1>15, <1>16, <1>17, <1>18 DEF IInv

\* A validator that crashes is down, whatever it lost.
LEMMA CrashesKeep == ASSUME IInv, ValidatorCrashes \/ ServiceCrashes PROVE IInv'
<1>1. Runs \ Service \in SUBSET Runs /\ Service \in SUBSET Runs
  BY ConstantsAssumption
<1>2. up \in BOOLEAN /\ trace \in Answers \cup {"absent"}
  BY DEF IInv, RestOK
<1>3. CASE ValidatorCrashes
  <2>1. Crash(Runs \ Service, "validator") /\ ~up' /\ up' \in BOOLEAN /\ trace' = "absent"
    BY <1>3 DEF ValidatorCrashes
  <2>2. QED
    BY <1>1, <2>1, CrashKeeps
<1>4. CASE ServiceCrashes
  <2>1. Crash(Service, "service") /\ UNCHANGED <<trace, up>>
    BY <1>4 DEF ServiceCrashes
  <2>2. QED
    BY <1>1, <1>2, <2>1, CrashKeeps
<1>5. QED
  BY <1>3, <1>4

\* What a crashed validator lost exists, so that the sweep removes it or is told
\* that it cannot.
LEMMA SweepKeeps == ASSUME IInv, Sweep PROVE IInv'
<1> DEFINE Told(l) == <<IF l[2] \in Swept THEN "command" ELSE l[1], l[2]>>
<1>1. PICK removed \in SUBSET Existing :
        /\ Gone(removed) /\ leaked' = {Told(l) : l \in {k \in leaked : k[2] \notin removed}}
  BY DEF Sweep, Swept
<1>2. UNCHANGED <<run, file, made, trace, crashes>> /\ up' = TRUE
  BY DEF Sweep
<1>3. BoxOK' /\ Existing' = Existing \ removed
  BY <1>1, <1>2 DEF Gone, IInv, BoxOK, Existing
<1>4. \A l \in leaked : l[2] \in Existing /\ l[2] \in 1..made /\ \A q \in Runs : cid[q] # l[2]
  BY DEF IInv, LeakedOK, LeakedExist
<1>5. \A l \in leaked : Told(l)[1] = "command" /\ Told(l)[2] = l[2] /\ Told(l) = <<"command", l[2]>>
  BY <1>4 DEF Swept
<1> HIDE DEF Told
<1>6. \A k \in leaked' : k[1] = "command" /\ \E l \in leaked : k = <<"command", l[2]>> /\ k[2] = l[2] /\ l[2] \notin removed
  BY <1>1, <1>5
<1>7. LeakedOK' /\ LeakedExist' /\ NothingLeftOver'
  <2>1. LeakedOK'
    BY <1>2, <1>4, <1>6 DEF LeakedOK
  <2>2. LeakedExist'
    BY <1>2, <1>3, <1>4, <1>6 DEF LeakedExist, run
  <2>3. NothingLeftOver'
    BY <1>6 DEF NothingLeftOver
  <2>4. QED
    BY <2>1, <2>2, <2>3
<1>8. OrphansExplained'
  <2>1. ASSUME NEW c \in Existing' PROVE (\E l \in leaked' : l[2] = c) \/ \E q \in Active : cid[q] = c
    <3>1. c \in Existing /\ c \notin removed
      BY <1>3
    <3>2. ASSUME NEW l \in leaked, l[2] = c PROVE \E k \in leaked' : k[2] = c
      <4>1. Told(l) \in leaked' /\ Told(l)[2] = c
        BY <1>1, <1>5, <3>1, <3>2
      <4>2. QED
        BY <4>1
    <3>3. QED
      BY <3>1, <3>2 DEF IInv, OrphansExplained
  <2>2. QED
    BY <1>2, <2>1 DEF OrphansExplained, run, Active, At
<1>9. RunsOK' /\ CidOK' /\ RestOK' /\ Decided' /\ AgentsAsked' /\ OneOwner'
  BY <1>2 DEF run, IInv, RunsOK, CidOK, RestOK, Decided, AgentsAsked, OneOwner, Agent
<1>10. Room'
  <2>1. Waiting' \subseteq Waiting /\ made' = made
    BY <1>2 DEF run, Waiting, Active, At
  <2>2. QED
    BY <2>1, RoomKept
<1>11. QED
  BY <1>3, <1>7, <1>8, <1>9, <1>10 DEF IInv

\* Every step keeps the invariant.
LEMMA InvStep == IInv /\ [Next]_vars => IInv'
<1>1. SUFFICES ASSUME IInv, [Next]_vars PROVE IInv'
  OBVIOUS
<1>2. ASSUME NEW r \in Runs, RunStep(r) PROVE IInv'
  BY <1>1, <1>2, RunStepShape, ShapeKeeps
<1>3. ASSUME NEW r \in Runs, RunStarts(r) PROVE IInv'
  BY <1>1, <1>3, StartKeeps
<1>4. CASE \/ \E r \in Runs : \/ RunRefused(r) \/ DetonationRefused(r) \/ ShrinkingBudget(r)
                             \/ OverCpu(r) \/ DeadlinePasses(r)
           \/ UNCHANGED vars
  BY <1>1, <1>4, SmallStepKeeps
<1>5. ASSUME NEW c \in Ids, ContainerExits(c) PROVE IInv'
  BY <1>1, <1>5, ExitKeeps
<1>6. CASE ValidatorCrashes \/ ServiceCrashes \/ Sweep
  BY <1>1, <1>6, CrashesKeep, SweepKeeps
<1>7. QED
  BY <1>1, <1>2, <1>3, <1>4, <1>5, <1>6 DEF Next

\* The invariant holds in every reachable state.
LEMMA Invariance == Spec => []IInv
BY InvInit, InvStep, PTL DEF Spec

-----------------------------------------------------------------------------
(* What a run that no command failed goes by                                *)

\* What a container leaves is written when it exits.
Unwritten ==
  \A c \in Ids : state[c] \in {"created", "running"} \/ c > made => file[c] = "none"

\* A result that blames the infrastructure, or finds fault with what was left.
Settled(r) == state[cid[r]] # "running"
Just(r, o) ==
  /\ o \in {"infra", "raised"} => budget[r] = "short" \/ Left(r) \in Upsetting
  /\ o \in {"failed", "unobserved", "untraced"} => Left(r) # "report"

\* Only an agent's wall budget shrinks.  A run waits for a container it has started
\* itself, and judges what one that has exited left, or gave the reason away.
Short(r) == budget[r] = "short" => Agent(r) /\ step[r] # "idle"
Unstarted(r) == step[r] \in {"copyin", "start"} => state[cid[r]] \in {"created", "absent"}
Judges(r) ==
  /\ step[r] \in {"copyout", "logs", "probe"} => Settled(r)
  /\ step[r] = "logs" => Left(r) \in Reportless
  /\ step[r] = "remove" =>
       /\ Just(r, outcome[r])
       /\ outcome[r] \in {"infra", "raised"} /\ budget[r] # "short" => Settled(r)
       /\ outcome[r] \in {"failed", "unobserved", "untraced"} => Settled(r)
Founded(r) == Short(r) /\ Unstarted(r) /\ (r \in fault \/ Judges(r))
JInv == Unwritten /\ \A r \in Runs : Founded(r)

\* Nothing runs at first.
LEMMA JudgeInit == Init => JInv
<1>1. SUFFICES ASSUME Init PROVE JInv
  OBVIOUS
<1>2. Unwritten
  BY <1>1 DEF Init, Unwritten
<1>3. \A r \in Runs : Founded(r)
  BY <1>1 DEF Init, Founded, Short, Unstarted, Judges
<1>4. QED
  BY <1>2, <1>3 DEF JInv

\* Who is where he was stays founded, while nothing is done to his container but
\* that it exits or goes.
LEMMA StaysFounded ==
  ASSUME IInv, NEW r \in Runs, Founded(r),
         step'[r] = step[r], kind'[r] = kind[r], cid'[r] = cid[r], outcome'[r] = outcome[r],
         budget'[r] = budget[r], r \in fault => r \in fault',
         cid[r] # NoCid => /\ state'[cid[r]] \in {state[cid[r]], "absent"} \/ state[cid[r]] = "running"
                           /\ state'[cid[r]] = "running" => state[cid[r]] = "running"
                           /\ state[cid[r]] # "running" => file'[cid[r]] = file[cid[r]]
  PROVE  Founded(r)'
<1>1. cid[r] = NoCid <=> step[r] \in Early
  BY HasCid
<1>2. Short(r)'
  BY DEF Founded, Short, Agent
<1>3. Unstarted(r)'
  BY <1>1 DEF Founded, Unstarted, Early
<1>4. ASSUME Judges(r) PROVE Judges(r)'
  <2>1. Settled(r) /\ cid[r] # NoCid => Settled(r)' /\ Left(r)' = Left(r)
    BY DEF Settled, Left
  <2>2. CASE step[r] \in {"copyout", "logs", "probe"}
    BY <1>1, <1>4, <2>1, <2>2 DEF Judges, Early
  <2>3. CASE step[r] = "remove"
    BY <1>1, <1>4, <2>1, <2>3 DEF Judges, Just, Early
  <2>4. QED
    BY <2>2, <2>3 DEF Judges
<1>5. QED
  BY <1>2, <1>3, <1>4 DEF Founded

-----------------------------------------------------------------------------
(* The docker commands stay founded                                         *)

\* What a command of a run does to the containers.
LEMMA RunStepBox ==
  ASSUME IInv, JInv, NEW r \in Runs, RunStep(r)
  PROVE  /\ file' = file /\ made' >= made
         /\ \A c \in Ids : c <= made /\ c # cid[r] => state'[c] = state[c]
         /\ \A c \in Ids : state'[c] \in {"created", "running"} \/ c > made'
                          => state[c] \in {"created", "running"} \/ c > made
<1>1. /\ made \in Nat /\ Ids \subseteq Nat /\ state \in [Ids -> {"absent", "created", "running", "exited"}]
      /\ cid[r] # NoCid => cid[r] \in Ids
  BY HasCid, ConstantsAssumption DEF IInv, BoxOK, Ids
<1>2. CASE EnsureNetwork(r) \/ PullImage(r) \/ CopyIn(r) \/ CopyOut(r) \/ Logs(r) \/ Probe(r)
  BY <1>1, <1>2 DEF EnsureNetwork, PullImage, CopyIn, CopyOut, Logs, Probe, box
<1>3. CASE Create(r)
  <2>1. file' = file /\ (NewContainer \/ UNCHANGED <<state, made>>)
    BY <1>3 DEF Create
  <2>2. CASE NewContainer
    <3>1. /\ made' = made + 1 /\ state' = [state EXCEPT ![made + 1] = "created"]
      BY <2>2 DEF NewContainer
    <3>2. \A c \in Ids : c # made + 1 => state'[c] = state[c]
      BY <1>1, <3>1
    <3>3. QED
      BY <1>1, <2>1, <3>1, <3>2
  <2>3. QED
    BY <1>1, <2>1, <2>2
<1>4. CASE Start(r)
  <2>1. /\ file' = file /\ made' = made /\ cid[r] \in Ids
        /\ state' = state \/ (state[cid[r]] = "created" /\ state' = [state EXCEPT ![cid[r]] = "running"])
    BY <1>4, HasCid DEF Start, Started, Missing, At, Early, JInv, Founded, Unstarted
  <2>2. QED
    BY <1>1, <2>1
<1>5. CASE Poll(r)
  <2>1. /\ file' = file /\ made' = made /\ cid[r] \in Ids
        /\ state' = state \/ state' = [state EXCEPT ![cid[r]] = "exited"]
    BY <1>5, HasCid DEF Poll, Killed, At, Early
  <2>2. QED
    BY <1>1, <2>1
<1>6. CASE Remove(r)
  <2>1. file' = file /\ made' = made /\ (state' = state \/ Gone({cid[r]}))
    BY <1>6 DEF Remove
  <2>2. Gone({cid[r]}) => \A c \in Ids : state'[c] = IF c = cid[r] THEN "absent" ELSE state[c]
    BY DEF Gone
  <2>3. QED
    BY <1>1, <2>1, <2>2
<1>7. QED
  BY <1>2, <1>3, <1>4, <1>5, <1>6 DEF RunStep

\* A run that goes on to its next command.
LEMMA OnFounded ==
  ASSUME IInv, NEW r \in Runs, Founded(r), RunStep(r), NEW s \in Steps \ {"idle", "remove"}, Go(r, s),
         UNCHANGED <<kind, budget, outcome>>,
         s \in {"copyin", "start"} => state'[cid'[r]] \in {"created", "absent"},
         \/ r \in fault'
         \/ /\ s \in {"copyout", "logs", "probe"} => Settled(r)'
            /\ s = "logs" => Left(r)' \in Reportless
  PROVE  Founded(r)' /\ step'[r] = s
<1>1. step'[r] = s
  BY DEF Go, IInv, RunsOK
<1>2. Short(r)' /\ Unstarted(r)'
  BY <1>1 DEF Founded, Short, Unstarted, Agent
<1>3. r \in fault' \/ Judges(r)'
  BY <1>1 DEF Judges
<1>4. QED
  BY <1>1, <1>2, <1>3 DEF Founded

\* A run that is over.
LEMMA OverFounded ==
  ASSUME IInv, NEW r \in Runs, NEW o, Idle(r, o)
  PROVE  Founded(r)' /\ step'[r] = "idle" /\ outcome'[r] = o
<1>1. step'[r] = "idle" /\ budget'[r] = "ample" /\ outcome'[r] = o
  BY DEF Idle, Go, IInv, RunsOK
<1>2. QED
  BY <1>1 DEF Founded, Short, Unstarted, Judges

\* A run that concludes with a just result.
LEMMA JustlyConcluded ==
  ASSUME IInv, NEW r \in Runs, Founded(r), NEW o, Conclude(r, o), file' = file,
         \/ r \in fault'
         \/ /\ Just(r, o)
            /\ cid[r] # NoCid /\ o \in {"infra", "raised"} /\ budget[r] # "short" => state'[cid[r]] # "running"
            /\ cid[r] # NoCid /\ o \in {"failed", "unobserved", "untraced"} => state'[cid[r]] # "running"
  PROVE  /\ Founded(r)' /\ outcome'[r] = o /\ step'[r] \in {"idle", "remove"}
         /\ step'[r] = "idle" => r \in fault' \/ Just(r, o)
<1>1. CASE cid[r] = NoCid
  BY <1>1, OverFounded DEF Conclude, Return
<1>2. CASE cid[r] # NoCid
  <2>1. /\ step'[r] = "remove" /\ outcome'[r] = o /\ UNCHANGED <<kind, budget, cid>>
    BY <1>2 DEF Conclude, Go, IInv, RunsOK
  <2>2. Short(r)' /\ Unstarted(r)'
    BY <2>1 DEF Founded, Short, Unstarted, Agent
  <2>3. Left(r)' = Left(r)
    BY <2>1 DEF Left
  <2>4. r \in fault' \/ Judges(r)'
    BY <1>2, <2>1, <2>3 DEF Judges, Just, Settled
  <2>5. QED
    BY <2>1, <2>2, <2>4 DEF Founded
<1>3. QED
  BY <1>1, <1>2

\* What holds of a run after a command of its own.
Concluding(r) == Founded(r)' /\ (step'[r] = "idle" => r \in fault' \/ Just(r, outcome'[r]))

\* A conclusion excused by a failed command or a spent budget.
LEMMA ExcusedFounded ==
  ASSUME IInv, NEW r \in Runs, Founded(r), file' = file,
         Errs(r) \/ Expires(r) \/ ExpiresShort(r),
         \/ Conclude(r, Infra(r)) \/ Raise(r)
         \/ Errs(r) /\ \E o : Conclude(r, o)
         \/ Expires(r) /\ \E o : Conclude(r, o)
  PROVE  Concluding(r)
<1>1. r \in fault' \/ (budget[r] = "short" /\ Agent(r))
  BY Blame DEF Founded, Short
<1>2. Agent(r) => Infra(r) = "infra"
  BY DEF Infra
<1>3. CASE Raise(r)
  <2>1. Idle(r, "raised")
    BY <1>3 DEF Raise, Return
  <2>2. QED
    BY <1>1, <2>1, OverFounded DEF Concluding, Just
<1>4. CASE Conclude(r, Infra(r)) /\ r \notin fault'
  <2>1. Just(r, Infra(r)) /\ Infra(r) = "infra" /\ budget[r] = "short"
    BY <1>1, <1>2, <1>4 DEF Just
  <2>2. QED
    BY <1>4, <2>1, JustlyConcluded DEF Concluding
<1>5. CASE r \in fault' /\ \E o : Conclude(r, o)
  BY <1>5, JustlyConcluded DEF Concluding
<1>6. QED
  BY <1>3, <1>4, <1>5 DEF Errs, Expires, Faulty

\* A run that goes on concludes nothing.
LEMMA OnConcluding ==
  ASSUME IInv, NEW r \in Runs, Founded(r), RunStep(r), NEW s \in Steps \ {"idle", "remove"}, Go(r, s),
         UNCHANGED <<kind, budget, outcome>>,
         s \in {"copyin", "start"} => state'[cid'[r]] \in {"created", "absent"},
         \/ r \in fault'
         \/ /\ s \in {"copyout", "logs", "probe"} => Settled(r)'
            /\ s = "logs" => Left(r)' \in Reportless
  PROVE  Concluding(r)
BY OnFounded DEF Concluding

\* The network, the image and the create: there is no container to judge.
LEMMA EarlyConcluding ==
  ASSUME IInv, NEW r \in Runs, Founded(r), EnsureNetwork(r) \/ PullImage(r) \/ Create(r)
  PROVE  Concluding(r)
<1>1. {"pull", "create", "copyin"} \subseteq Steps \ {"idle", "remove"} /\ RunStep(r) /\ file' = file
  BY DEF Steps, RunStep, EnsureNetwork, PullImage, Create, box
<1>2. CASE \E s \in {"pull", "create"} : Go(r, s) /\ UNCHANGED ongoing
  BY <1>1, <1>2, OnConcluding DEF ongoing
<1>3. CASE /\ step[r] = "create" /\ NewContainer /\ cid' = [cid EXCEPT ![r] = made']
           /\ Go(r, "copyin") /\ UNCHANGED <<kind, budget, outcome>>
  <2>1. cid'[r] = made' /\ made' \in Ids /\ made' = made + 1
    <3>1. made' = made + 1 /\ made + 1 \in Ids
      BY <1>3, RoomToCreate DEF NewContainer
    <3>2. QED
      BY <1>3, <3>1 DEF IInv, CidOK
  <2>2. state'[made'] = "created"
    BY <1>3, <2>1 DEF NewContainer, IInv, BoxOK
  <2>3. QED
    BY <1>1, <1>3, <2>1, <2>2, OnConcluding
<1>4. CASE /\ Errs(r) \/ Expires(r) \/ ExpiresShort(r)
           /\ Raise(r) \/ Conclude(r, Infra(r))
  BY <1>1, <1>4, ExcusedFounded
<1>5. QED
  BY <1>2, <1>3, <1>4 DEF EnsureNetwork, PullImage, Create, At

\* What a run finds of its container: it was created, it runs, or it has exited.
LEMMA OwnBox ==
  ASSUME IInv, JInv, NEW r \in Runs, step[r] \notin Early
  PROVE  /\ cid[r] # NoCid /\ cid[r] \in Ids /\ Left(r) = file[cid[r]]
         /\ state[cid[r]] = "running" => Left(r) = "none"
         /\ Founded(r) /\ Left(r) \in Leavings
BY HasCid DEF JInv, Unwritten, Left, IInv, BoxOK

\* The copy in, the start, and the turns of the wait.
LEMMA WaitConcluding ==
  ASSUME IInv, JInv, NEW r \in Runs, CopyIn(r) \/ Start(r) \/ Poll(r)
  PROVE  Concluding(r)
<1>1. /\ {"start", "await", "copyout"} \subseteq Steps \ {"idle", "remove"} /\ RunStep(r) /\ file' = file
      /\ step[r] \notin Early
  BY DEF Steps, RunStep, CopyIn, Start, Poll, box, At, Early
<1>2. cid[r] # NoCid /\ cid[r] \in Ids /\ Founded(r)
  BY <1>1, OwnBox
<1>3. CASE CopyIn(r)
  <2>1. \/ Go(r, "start") /\ UNCHANGED ongoing /\ state' = state
        \/ (Errs(r) \/ ExpiresShort(r)) /\ Conclude(r, Infra(r))
    BY <1>3 DEF CopyIn, box
  <2>2. state[cid[r]] \in {"created", "absent"}
    BY <1>2, <1>3 DEF CopyIn, At, Founded, Unstarted
  <2>3. CASE Go(r, "start") /\ UNCHANGED ongoing /\ state' = state
    BY <1>1, <1>2, <2>2, <2>3, OnConcluding DEF ongoing
  <2>4. QED
    BY <1>1, <1>2, <2>1, <2>3, ExcusedFounded
<1>4. CASE Start(r)
  <2>1. \/ Go(r, "await") /\ UNCHANGED ongoing
        \/ (Errs(r) \/ ExpiresShort(r)) /\ Conclude(r, Infra(r))
    BY <1>4 DEF Start
  <2>2. CASE Go(r, "await") /\ UNCHANGED ongoing
    BY <1>1, <1>2, <2>2, OnConcluding DEF ongoing
  <2>3. QED
    BY <1>1, <1>2, <2>1, <2>2, ExcusedFounded
<1>5. CASE Poll(r)
  <2>1. \/ /\ (state[cid[r]] = "exited" /\ UNCHANGED fault) \/ Errs(r)
           /\ Go(r, "copyout") /\ UNCHANGED <<kind, budget, cid, outcome, state>>
        \/ state[cid[r]] = "running" /\ Conclude(r, Failed(r)) /\ (Killed(r) \/ Errs(r))
        \/ Expires(r) /\ Conclude(r, Infra(r))
    BY <1>5 DEF Poll
  <2>2. CASE /\ (state[cid[r]] = "exited" /\ UNCHANGED fault) \/ Errs(r)
             /\ Go(r, "copyout") /\ UNCHANGED <<kind, budget, cid, outcome, state>>
    <3>1. r \in fault' \/ Settled(r)'
      BY <2>2 DEF Settled, Errs, Faulty
    <3>2. QED
      BY <1>1, <1>2, <2>2, <3>1, OnConcluding
  <2>3. CASE state[cid[r]] = "running" /\ Conclude(r, Failed(r)) /\ Killed(r)
    <3>1. state'[cid[r]] = "exited"
      BY <1>2, <2>3 DEF Killed, IInv, BoxOK
    <3>2. Left(r) = "none" /\ Failed(r) \in {"failed", "untraced"}
      BY <1>1, <2>3, OwnBox DEF Failed
    <3>3. Just(r, Failed(r))
      BY <3>2 DEF Just
    <3>4. QED
      BY <1>1, <1>2, <2>3, <3>1, <3>2, <3>3, JustlyConcluded DEF Concluding
  <2>4. QED
    BY <1>1, <1>2, <2>1, <2>2, <2>3, ExcusedFounded
<1>6. QED
  BY <1>3, <1>4, <1>5

\* The copy out, the logs and the probe: what was left decides.
LEMMA ReadConcluding ==
  ASSUME IInv, JInv, NEW r \in Runs, CopyOut(r) \/ Logs(r) \/ Probe(r)
  PROVE  Concluding(r)
<1> DEFINE left == file[cid[r]]
<1>1. /\ {"logs", "probe"} \subseteq Steps \ {"idle", "remove"} /\ RunStep(r) /\ UNCHANGED box
      /\ step[r] \in {"copyout", "logs", "probe"} /\ step[r] \notin Early
  BY DEF Steps, RunStep, CopyOut, Logs, Probe, At, Early
<1>2. cid[r] # NoCid /\ cid[r] \in Ids /\ Founded(r) /\ Left(r) = left /\ left \in Leavings
  BY <1>1, OwnBox
<1>3. file' = file /\ state' = state
  BY <1>1 DEF box
<1>4. r \in fault \/ (state[cid[r]] # "running" /\ (step[r] = "logs" => left \in Reportless))
  BY <1>1, <1>2 DEF Founded, Judges, Settled
<1>5. ASSUME UNCHANGED fault, NEW o, Conclude(r, o), r \in fault \/ Just(r, o) PROVE Concluding(r)
  BY <1>2, <1>3, <1>4, <1>5, JustlyConcluded DEF Concluding
<1>6. ASSUME NEW s \in {"logs", "probe"}, Go(r, s), UNCHANGED ongoing,
             Errs(r) \/ (UNCHANGED fault /\ (s = "logs" => left \in Reportless))
      PROVE  Concluding(r)
  <2>1. UNCHANGED <<kind, budget, cid, outcome>>
    BY <1>6 DEF ongoing
  <2>2. Left(r)' = left
    BY <1>2, <1>3, <2>1 DEF Left
  <2>3. r \in fault' \/ (Settled(r)' /\ (s = "logs" => Left(r)' \in Reportless))
    BY <1>3, <1>4, <1>6, <2>1, <2>2 DEF Settled, Errs, Faulty
  <2>4. QED
    BY <1>1, <1>2, <1>6, <2>1, <2>3, OnConcluding
<1>7. ASSUME NEW probe, probe # "lost" PROVE Just(r, Reported(left, probe)) /\ Just(r, Detonated(left))
  BY <1>2, <1>7 DEF Just, Reported, Detonated, Leavings, Upsetting
<1>8. left \in Reportless => Just(r, "untraced") /\ Just(r, "failed")
  BY <1>2 DEF Just, Reportless
<1>9. left = "unlogged" => Just(r, "raised")
  BY <1>2 DEF Just, Upsetting
<1> HIDE DEF left
<1>10. CASE CopyOut(r)
  <2>1. \/ /\ (UNCHANGED fault /\ left \in Reportless) \/ Errs(r)
           /\ Agent(r) => Go(r, "logs") /\ UNCHANGED ongoing
           /\ ~Agent(r) => Conclude(r, "untraced")
        \/ UNCHANGED fault /\ Conclude(r, Detonated(left))
        \/ UNCHANGED fault /\ Conclude(r, Reported(left, "unasked"))
        \/ UNCHANGED fault /\ Go(r, "probe") /\ UNCHANGED ongoing
        \/ ExpiresShort(r) /\ Conclude(r, Infra(r))
    BY <1>10 DEF CopyOut, left
  <2>2. CASE /\ (UNCHANGED fault /\ left \in Reportless) \/ Errs(r)
             /\ Agent(r) => Go(r, "logs") /\ UNCHANGED ongoing
             /\ ~Agent(r) => Conclude(r, "untraced")
    <3>1. CASE Agent(r)
      BY <1>6, <2>2, <3>1
    <3>2. CASE ~Agent(r) /\ UNCHANGED fault
      BY <1>2, <1>5, <1>8, <2>2, <3>2 DEF Errs, Faulty
    <3>3. CASE ~Agent(r) /\ Errs(r)
      BY <1>2, <1>3, <2>2, <3>3, ExcusedFounded
    <3>4. QED
      BY <2>2, <3>1, <3>2, <3>3
  <2>3. CASE UNCHANGED fault /\ (Conclude(r, Detonated(left)) \/ Conclude(r, Reported(left, "unasked")))
    <3>1. Just(r, Detonated(left)) /\ Just(r, Reported(left, "unasked"))
      BY <1>7
    <3>2. QED
      BY <1>5, <2>3, <3>1
  <2>4. CASE UNCHANGED fault /\ Go(r, "probe") /\ UNCHANGED ongoing
    BY <1>6, <2>4
  <2>5. CASE ExpiresShort(r) /\ Conclude(r, Infra(r))
    BY <1>2, <1>3, <2>5, ExcusedFounded
  <2>6. QED
    BY <2>1, <2>2, <2>3, <2>4, <2>5
<1>11. CASE Logs(r)
  <2>1. \/ UNCHANGED fault /\ left # "unlogged" /\ Conclude(r, "failed")
        \/ UNCHANGED fault /\ left # "none" /\ Conclude(r, "raised")
        \/ Errs(r) /\ Conclude(r, "failed")
        \/ ExpiresShort(r) /\ Conclude(r, "infra")
    BY <1>11 DEF Logs, left
  <2>2. Agent(r) /\ Infra(r) = "infra" /\ step[r] = "logs"
    BY <1>11 DEF Logs, At, IInv, AgentsAsked, Infra
  <2>3. r \in fault \/ left = "none" \/ left = "unlogged"
    BY <1>4, <2>2 DEF Reportless
  <2>4. QED
    BY <2>1, <2>2, <2>3, <1>2, <1>3, <1>5, <1>8, <1>9, ExcusedFounded DEF Reportless
<1>12. CASE Probe(r)
  <2>1. \/ UNCHANGED fault /\ Conclude(r, Reported(left, "read"))
        \/ Errs(r) /\ Conclude(r, Reported(left, "lost"))
        \/ Expires(r) /\ Conclude(r, "infra")
    BY <1>12 DEF Probe, left
  <2>2. QED
    BY <2>1, <1>2, <1>3, <1>5, <1>7, ExcusedFounded
<1>13. QED
  BY <1>10, <1>11, <1>12

\* The removal: the result was just before, or its command timed out.
LEMMA RemoveConcluding ==
  ASSUME IInv, JInv, NEW r \in Runs, Remove(r) PROVE Concluding(r)
<1>1. step[r] = "remove" /\ step[r] \notin Early
  BY DEF Remove, At, Early
<1>2. r \in fault \/ Just(r, outcome[r])
  BY <1>1, OwnBox DEF Founded, Judges
<1>3. \/ Idle(r, outcome[r]) /\ UNCHANGED fault
      \/ (\E o : Idle(r, o)) /\ r \in fault'
  BY DEF Remove, Return, Raise, Expires, Faulty
<1>4. QED
  BY <1>2, <1>3, OverFounded DEF Concluding

\* Every docker command is concluded with a result that is founded.
LEMMA RunStepConcluding ==
  ASSUME IInv, JInv, NEW r \in Runs, RunStep(r) PROVE Concluding(r)
<1>1. Founded(r)
  BY DEF JInv
<1>2. QED
  BY <1>1, EarlyConcluding, WaitConcluding, ReadConcluding, RemoveConcluding DEF RunStep

-----------------------------------------------------------------------------
(* The other actions                                                        *)

\* A command of one run leaves the others founded, and what was left in place.
LEMMA RunStepJudges == ASSUME IInv, JInv, NEW r \in Runs, RunStep(r) PROVE JInv'
<1>1. /\ file' = file
      /\ \A c \in Ids : c <= made /\ c # cid[r] => state'[c] = state[c]
      /\ \A c \in Ids : state'[c] \in {"created", "running"} \/ c > made'
                       => state[c] \in {"created", "running"} \/ c > made
  BY RunStepBox
<1>2. Unwritten'
  BY <1>1 DEF JInv, Unwritten
<1>3. Moves(r) /\ Founded(r)'
  BY RunStepShape, RunStepConcluding DEF Concluding
<1>4. ASSUME NEW q \in Runs \ {r} PROVE Founded(q)'
  <2>1. cid'[q] = cid[q]
    BY <1>3 DEF Moves, IInv, CidOK
  <2>2. cid[q] # NoCid => cid[q] \in Ids /\ cid[q] <= made /\ cid[q] # cid[r]
    BY HasCid DEF IInv, CidOK, OneOwner
  <2>3. cid[q] # NoCid => state'[cid[q]] = state[cid[q]]
    BY <1>1, <2>2
  <2>4. QED
    BY <1>1, <1>3, <2>1, <2>3, StaysFounded DEF Moves, JInv
<1>5. QED
  BY <1>2, <1>3, <1>4 DEF JInv

\* A run that starts, a refusal, a clock, a reading, or nothing at all.
LEMMA SmallStepJudges ==
  ASSUME IInv, JInv, \/ \E r \in Runs : \/ RunStarts(r) \/ RunRefused(r) \/ DetonationRefused(r)
                                         \/ ShrinkingBudget(r) \/ OverCpu(r) \/ DeadlinePasses(r)
                     \/ UNCHANGED vars
  PROVE  JInv'
<1>1. UNCHANGED <<box, cid>>
  BY DEF RunStarts, RunRefused, DetonationRefused, ShrinkingBudget, OverCpu, DeadlinePasses, vars, run
<1>2. Unwritten'
  BY <1>1 DEF box, JInv, Unwritten
<1>3. ASSUME NEW q \in Runs,
             step'[q] = step[q], kind'[q] = kind[q], outcome'[q] = outcome[q], budget'[q] = budget[q],
             q \in fault => q \in fault'
      PROVE  Founded(q)'
  BY <1>1, <1>3, StaysFounded DEF box, JInv
<1>4. ASSUME NEW r \in Runs, RunStarts(r) \/ RunRefused(r) \/ DetonationRefused(r) PROVE JInv'
  <2>1. /\ step[r] = "idle" /\ fault' = fault \ {r} /\ budget' = budget
        /\ step' = step \/ step' = [step EXCEPT ![r] = "network"]
        /\ kind' = kind \/ kind' = [kind EXCEPT ![r] = "detonation"]
        /\ \E o : outcome' = [outcome EXCEPT ![r] = o]
    BY <1>4 DEF RunStarts, RunRefused, DetonationRefused, At, Go
  <2>2. \A q \in Runs \ {r} : step'[q] = step[q] /\ kind'[q] = kind[q] /\ outcome'[q] = outcome[q]
    BY <2>1 DEF IInv, RunsOK
  <2>3. step'[r] \in {"idle", "network"} /\ budget[r] # "short"
    BY <2>1 DEF IInv, RunsOK, JInv, Founded, Short
  <2>4. Founded(r)'
    BY <2>1, <2>3 DEF Founded, Short, Unstarted, Judges
  <2>5. \A q \in Runs \ {r} : Founded(q)'
    BY <1>3, <2>1, <2>2
  <2>6. QED
    BY <1>2, <2>4, <2>5 DEF JInv
<1>5. ASSUME NEW r \in Runs, ShrinkingBudget(r) PROVE JInv'
  <2>1. /\ Agent(r) /\ step[r] # "idle" /\ UNCHANGED <<step, kind, cid, outcome, fault, box>>
        /\ budget' = [budget EXCEPT ![r] = "short"]
    BY <1>5 DEF ShrinkingBudget, At
  <2>2. budget'[r] = "short" /\ \A q \in Runs \ {r} : budget'[q] = budget[q]
    BY <2>1 DEF IInv, RunsOK
  <2>3. Founded(r)'
    BY <2>1, <2>2 DEF JInv, Founded, Short, Unstarted, Judges, Just, Left, Settled, Agent, box
  <2>4. \A q \in Runs \ {r} : Founded(q)'
    BY <1>3, <2>1, <2>2
  <2>5. QED
    BY <1>2, <2>3, <2>4 DEF JInv
<1>6. ASSUME (\E r \in Runs : OverCpu(r) \/ DeadlinePasses(r)) \/ UNCHANGED vars PROVE JInv'
  <2>1. UNCHANGED <<step, kind, outcome, budget, fault>>
    BY <1>6 DEF OverCpu, DeadlinePasses, vars, run
  <2>2. QED
    BY <1>2, <1>3, <2>1 DEF JInv
<1>7. QED
  BY <1>4, <1>5, <1>6

\* A container that exits was running, and nobody has judged it.
LEMMA ExitJudges == ASSUME IInv, JInv, NEW c \in Ids, ContainerExits(c) PROVE JInv'
<1>1. /\ UNCHANGED <<run, made>> /\ state[c] = "running"
      /\ state' = [state EXCEPT ![c] = "exited"] /\ \E left : file' = [file EXCEPT ![c] = left]
  BY DEF ContainerExits
<1>2. /\ state'[c] = "exited" /\ \A d \in Ids \ {c} : state'[d] = state[d] /\ file'[d] = file[d]
  BY <1>1 DEF IInv, BoxOK
<1>3. c <= made
  <2>1. OrphansExplained /\ c \in Existing
    BY <1>1 DEF IInv, Existing
  <2>2. c \in 1..made
    BY <2>1, ConstantsAssumption DEF OrphansExplained, IInv, LeakedOK, CidOK, Active
  <2>3. QED
    BY <2>2
<1>4. Unwritten'
  <2>1. made' = made /\ made \in Nat /\ c \in Nat
    BY <1>1 DEF IInv, BoxOK, Ids
  <2>2. QED
    BY <1>2, <1>3, <2>1 DEF JInv, Unwritten
<1>5. ASSUME NEW q \in Runs PROVE Founded(q)'
  <2>1. UNCHANGED <<step, kind, cid, outcome, budget, fault>>
    BY <1>1 DEF run
  <2>2. cid[q] # NoCid => cid[q] \in Ids
    BY HasCid
  <2>3. QED
    BY <1>1, <1>2, <2>1, <2>2, StaysFounded DEF JInv
<1>6. QED
  BY <1>4, <1>5 DEF JInv

\* A crash ends its runs, and may leave one more container that is not started.
LEMMA CrashJudges ==
  ASSUME IInv, JInv, NEW P \in SUBSET Runs, NEW cause, Crash(P, cause) PROVE JInv'
<1>1. \A q \in Runs : IF q \in P
        THEN step'[q] = "idle" /\ budget'[q] = "ample"
        ELSE /\ step'[q] = step[q] /\ kind'[q] = kind[q] /\ budget'[q] = budget[q]
             /\ cid'[q] = cid[q] /\ outcome'[q] = outcome[q]
  BY DEF Crash
<1>2. fault' = fault \ P /\ file' = file /\ made \in Nat
  BY ConstantsAssumption DEF Crash, IInv, BoxOK
<1>3. \/ UNCHANGED <<state, made>>
      \/ made' = made + 1 /\ made + 1 \in Ids /\ state' = [state EXCEPT ![made + 1] = "created"]
  <2>1. CASE \E r \in P : UNCHANGED <<state, made>>
    BY <2>1
  <2>2. ASSUME NEW r \in P, step[r] = "create", NewContainer
        PROVE  made' = made + 1 /\ made + 1 \in Ids /\ state' = [state EXCEPT ![made + 1] = "created"]
    BY <2>2, RoomToCreate DEF NewContainer
  <2>3. QED
    BY <2>1, <2>2 DEF Crash, At
<1>4. \A c \in Ids : c <= made => state'[c] = state[c]
  <2>1. \A c \in Ids : c \in Nat /\ (c <= made => c # made + 1)
    BY <1>2, ConstantsAssumption DEF Ids
  <2>2. \A c \in Ids : c # made + 1 => state'[c] = state[c]
    BY <1>3 DEF IInv, BoxOK
  <2>3. QED
    BY <2>1, <2>2
<1>5. Unwritten'
  BY <1>2, <1>3, <1>4 DEF JInv, Unwritten, Ids
<1>6. ASSUME NEW q \in Runs PROVE Founded(q)'
  <2>1. CASE q \in P
    BY <1>1, <2>1 DEF Founded, Short, Unstarted, Judges
  <2>2. CASE q \notin P
    <3>1. cid[q] # NoCid => cid[q] \in Ids /\ cid[q] <= made
      BY HasCid DEF IInv, CidOK
    <3>2. QED
      BY <1>1, <1>2, <1>4, <2>2, <3>1, StaysFounded DEF JInv
  <2>3. QED
    BY <2>1, <2>2
<1>7. QED
  BY <1>5, <1>6 DEF JInv

\* A sweep only takes containers away.
LEMMA SweepJudges == ASSUME IInv, JInv, Sweep PROVE JInv'
<1>1. UNCHANGED <<run, file, made>> /\ \E removed : Gone(removed)
  BY DEF Sweep
<1>2. \A c \in Ids : state'[c] \in {state[c], "absent"}
  BY <1>1 DEF Gone
<1>3. Unwritten'
  BY <1>1, <1>2 DEF JInv, Unwritten
<1>4. ASSUME NEW q \in Runs PROVE Founded(q)'
  <2>1. UNCHANGED <<step, kind, cid, outcome, budget, fault>>
    BY <1>1 DEF run
  <2>2. cid[q] # NoCid => cid[q] \in Ids
    BY HasCid
  <2>3. QED
    BY <1>1, <1>2, <2>1, <2>2, StaysFounded DEF JInv
<1>5. QED
  BY <1>3, <1>4 DEF JInv

\* Every step keeps what the runs go by.
LEMMA JudgeStep == IInv /\ JInv /\ [Next]_vars => JInv'
<1>1. SUFFICES ASSUME IInv, JInv, [Next]_vars PROVE JInv'
  OBVIOUS
<1>2. ASSUME NEW r \in Runs, RunStep(r) PROVE JInv'
  BY <1>1, <1>2, RunStepJudges
<1>3. CASE \/ \E r \in Runs : \/ RunStarts(r) \/ RunRefused(r) \/ DetonationRefused(r)
                             \/ ShrinkingBudget(r) \/ OverCpu(r) \/ DeadlinePasses(r)
           \/ UNCHANGED vars
  BY <1>1, <1>3, SmallStepJudges
<1>4. ASSUME NEW c \in Ids, ContainerExits(c) PROVE JInv'
  BY <1>1, <1>4, ExitJudges
<1>5. CASE ValidatorCrashes \/ ServiceCrashes
  <2>1. Runs \ Service \in SUBSET Runs /\ Service \in SUBSET Runs
    BY ConstantsAssumption
  <2>2. Crash(Runs \ Service, "validator") \/ Crash(Service, "service")
    BY <1>5 DEF ValidatorCrashes, ServiceCrashes
  <2>3. QED
    BY <1>1, <2>1, <2>2, CrashJudges
<1>6. CASE Sweep
  BY <1>1, <1>6, SweepJudges
<1>7. QED
  BY <1>1, <1>2, <1>3, <1>4, <1>5, <1>6 DEF Next

\* What the runs go by holds in every reachable state.
LEMMA Judged == Spec => [](IInv /\ JInv)
BY InvInit, InvStep, JudgeInit, JudgeStep, PTL DEF Spec

-----------------------------------------------------------------------------
(* What the jail guarantees, for any number of runs, containers and crashes *)

\* Every variable stays in its domain, whatever commands fail and processes crash.
THEOREM TypeCorrect == Spec => []TypeOK
<1>1. IInv => TypeOK
  BY TypeParts DEF IInv
<1>2. QED
  BY <1>1, Invariance, PTL

\* No path through a run loses its container: what exists and is of no run in
\* progress was lost to a crash, or to a command that failed or timed out.
THEOREM NoPathLoses == Spec => []OrphansExplained
<1>1. IInv => OrphansExplained
  BY DEF IInv
<1>2. QED
  BY <1>1, Invariance, PTL

\* A validator that runs has nothing left of a crashed one but what its sweep
\* tried and failed to remove, at whatever command the crash came.
THEOREM SweepIsComplete == Spec => []NothingLeftOver
<1>1. IInv => NothingLeftOver
  BY DEF IInv
<1>2. QED
  BY <1>1, Invariance, PTL

\* A run no command of which failed makes the validator abstain or drop the agent
\* only where its wall budget ran short or its agent left what upsets the reading,
\* and takes no report that was left for a failure.
THEOREM AgentDecides == Spec => BlameIsFounded
<1> DEFINE A == \A r \in Runs : Ends(r) /\ r \notin fault' =>
                  /\ outcome'[r] \in {"infra", "raised"} => budget[r] = "short" \/ Left(r) \in Upsetting
                  /\ outcome'[r] \in {"failed", "unobserved", "untraced"} => Left(r) # "report"
<1>1. IInv /\ JInv /\ [Next]_vars => [A]_vars
  <2>1. SUFFICES ASSUME IInv, JInv, Next, NEW r \in Runs, Ends(r), r \notin fault'
                 PROVE  \/ Just(r, outcome'[r])
                        \/ outcome'[r] \notin {"infra", "raised", "failed", "unobserved", "untraced"}
    BY DEF Just
  <2>2. step[r] # "idle" /\ step'[r] = "idle"
    BY <2>1 DEF Ends, At
  <2>3. ASSUME NEW q \in Runs, RunStep(q) PROVE Just(r, outcome'[r])
    <3>1. Moves(q) /\ Concluding(q)
      BY <2>1, <2>3, RunStepShape, RunStepConcluding
    <3>2. r = q
      BY <2>2, <3>1 DEF Moves
    <3>3. QED
      BY <2>1, <2>2, <3>1, <3>2 DEF Concluding
  <2>4. ASSUME NEW q \in Runs, RunStarts(q) PROVE FALSE
    BY <2>1, <2>2, <2>4 DEF RunStarts, At, Go, IInv, RunsOK
  <2>5. ASSUME \/ \E q \in Runs : \/ RunRefused(q) \/ DetonationRefused(q) \/ ShrinkingBudget(q)
                                  \/ OverCpu(q) \/ DeadlinePasses(q)
               \/ \E c \in Ids : ContainerExits(c)
               \/ Sweep
        PROVE  FALSE
    BY <2>2, <2>5 DEF RunRefused, DetonationRefused, ShrinkingBudget, OverCpu, DeadlinePasses,
                      ContainerExits, Sweep, run
  <2>6. ASSUME NEW P, NEW cause, Crash(P, cause) PROVE outcome'[r] = "none"
    <3>1. /\ step'[r] = IF r \in P THEN "idle" ELSE step[r]
          /\ outcome'[r] = IF r \in P THEN "none" ELSE outcome[r]
      BY <2>6 DEF Crash
    <3>2. QED
      BY <2>2, <3>1
  <2>7. QED
    BY <2>1, <2>3, <2>4, <2>5, <2>6 DEF Next, ValidatorCrashes, ServiceCrashes
<1>2. QED
  BY <1>1, Judged, PTL DEF Spec, BlameIsFounded
=============================================================================
