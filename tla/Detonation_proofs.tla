-------------------------- MODULE Detonation_proofs --------------------------
(***************************************************************************)
(* For any limits on events, deeds and timeouts: a detonation reports only *)
(* what the artifact showed, all of it where no record was missed, and its *)
(* marks where they are due.                                               *)
(***************************************************************************)
EXTENDS Detonation, TLAPS

-----------------------------------------------------------------------------
(* The inductive invariant                                                  *)

\* The type invariant in parts.
Steps == {"idle", "between", "running", "written", "over"}
Ran == step \in {"running", "written"}
GivenOK == /\ track \in Tracks /\ listed \subseteq Hooks \cup Code /\ worded \subseteq listed \cap Hooks
           /\ broken \in BOOLEAN /\ tools \in BOOLEAN /\ original \subseteq Code
TreeOK == present \subseteq Code /\ before \subseteq Code /\ touched \subseteq Code
PhaseOK == /\ phase \in 1..Len(Order(track)) + 1 /\ step \in Steps
           /\ Ran => ~Over
ChildOK == events \in 0..MaxEvents /\ seen \subseteq Acts
PastOK == acted \subseteq Deeds \X (Code \cup {"shell"}) /\ missed \in BOOLEAN /\ done \in 0..MaxDeeds
RestOK == /\ caps \subseteq Acts \cup Marks /\ ran \in BOOLEAN /\ waits \in 0..MaxWaits
          /\ answer \in {"none", "traced", "untraced"} /\ (answer # "none" <=> step = "over")

\* Before it starts there is nothing to tell.
Fresh ==
  step = "idle" =>
    /\ phase = 1 /\ listed = {} /\ worded = {} /\ original = {} /\ present = {} /\ before = {} /\ touched = {}
    /\ events = 0 /\ seen = {} /\ caps = {} /\ acted = {} /\ ~missed /\ ~ran

\* Only packages have hooks, and only a listed one runs.
HooksListed == /\ listed \cap Hooks # {} => track = "packages"
               /\ Ran /\ IsHook => step = "running" /\ This \in listed

\* A deed in some place shows a capability; it stays done.
DoneAt(c, w) == \E deed \in Deeds : c \in Shown(deed) /\ <<deed, w>> \in acted

\* What the child of this phase saw, a deed of the artifact in this phase showed.
SeenDone == /\ \A c \in seen : DoneAt(c, This)
            /\ seen # {} => Ran /\ ~IsHook

\* What the snapshot of this hook will show, a shell did.
HookDone ==
  /\ touched # {} => HookRuns /\ <<"write", "shell">> \in acted
  /\ HookRuns => /\ present \ before # {} => <<"write", "shell">> \in acted
                 /\ before \ present # {} => <<"remove", "shell">> \in acted

\* A capability was shown, or read in the command of a hook that is behind.
WordsBehind == \E i \in 1..Len(Order(track)) : i < phase /\ Order(track)[i] \in worded
Based(c) == \/ \E w \in Code : DoneAt(c, w)
            \/ c \in {"WRITE_FILE", "DELETE_FILE"} /\ DoneAt(c, "shell")
            \/ c = "EXEC_SHELL" /\ WordsBehind
CapsBased == \A c \in caps \cap Acts : Based(c)

Hooked == listed \cap Hooks # {}
Noted(p) == \E c \in Acts \ Noise : DoneAt(c, p)

\* A mark has its reason.
Earned ==
  /\ "INSTALL_HOOK_EXEC" \in caps => Hooked \/ Noted("setup")
  /\ "IMPORT_SIDE_EFFECT" \in caps => Noted("import")
  /\ "POSTINSTALL_SCRIPT" \in caps => "postinstall" \in listed

\* The marks of the hooks behind are there.
Told == answer # "untraced"
HooksTold ==
  Told => \A i \in 1..Len(Order(track)) : i < phase /\ Order(track)[i] \in listed \cap Hooks =>
            /\ "INSTALL_HOOK_EXEC" \in caps
            /\ Order(track)[i] = "postinstall" => "POSTINSTALL_SCRIPT" \in caps

\* What Python code showed is reported with its mark, or still in the child's record.
Reported(act, c) ==
  /\ act \in caps
  /\ act \notin Noise => /\ c = "setup" => "INSTALL_HOOK_EXEC" \in caps
                         /\ c = "import" => "IMPORT_SIDE_EFFECT" \in caps
Pending(act, c) == Ran /\ c = This /\ act \in seen
CodeTold ==
  Told /\ ~missed =>
    \A deed \in Deeds, c \in Code, act \in Acts :
      <<deed, c>> \in acted /\ act \in Shown(deed) => Reported(act, c) \/ Pending(act, c)

\* Up to the snapshot, the changes of the tree are reported or in the record, unless
\* a deed escaped it.
Clean == \A deed \in Escapes, c \in Code : <<deed, c>> \notin acted
Known == IF HookRuns THEN before ELSE present
TreeTold ==
  Told /\ ~missed /\ Clean =>
                     /\ Known \subseteq original \/ "WRITE_FILE" \in caps \cup seen
                     /\ original \subseteq Known \/ "DELETE_FILE" \in caps \cup seen

AtEnd == answer = "traced" => Over

Types == GivenOK /\ TreeOK /\ PhaseOK /\ ChildOK /\ PastOK /\ RestOK
IInv == /\ Types /\ Fresh /\ HooksListed /\ SeenDone /\ HookDone /\ CapsBased /\ Earned
        /\ HooksTold /\ CodeTold /\ TreeTold /\ AtEnd

\* The parts make the type invariant.
LEMMA TypeParts == Types => TypeOK
BY DEF Types, GivenOK, TreeOK, PhaseOK, ChildOK, PastOK, RestOK, Ran, Steps, TypeOK

\* Nothing has happened yet.
LEMMA InvInit == Init => IInv
<1>1. SUFFICES ASSUME Init PROVE IInv
  OBVIOUS
<1>2. Len(Order("skills")) = 2
  BY DEF Order
<1>3. Types
  <2>1. GivenOK /\ TreeOK
    BY <1>1 DEF Init, GivenOK, TreeOK, Tracks
  <2>2. 0 \in 0..MaxEvents /\ 0 \in 0..MaxWaits /\ 0 \in 0..MaxDeeds
    BY DetonationAssumption
  <2>3. ChildOK /\ RestOK /\ PastOK
    BY <1>1, <2>2 DEF Init, ChildOK, RestOK, PastOK
  <2>4. PhaseOK
    BY <1>1, <1>2 DEF Init, PhaseOK, Ran, Steps
  <2>5. QED
    BY <2>1, <2>3, <2>4 DEF Types
<1>4. Fresh /\ HooksListed /\ SeenDone /\ HookDone /\ CapsBased /\ Earned /\ AtEnd
  BY <1>1 DEF Init, Fresh, HooksListed, SeenDone, HookDone, CapsBased, Earned, AtEnd, Ran, HookRuns
<1>5. HooksTold /\ CodeTold /\ TreeTold
  BY <1>1 DEF Init, HooksTold, CodeTold, TreeTold, Known, HookRuns
<1>6. QED
  BY <1>3, <1>4, <1>5 DEF IInv

-----------------------------------------------------------------------------
(* The phases of a track                                                    *)

\* A track has finitely many phases, each a hook or Python code and never both.
LEMMA Phases ==
  ASSUME GivenOK
  PROVE  /\ Len(Order(track)) \in Nat \ {0}
         /\ \A i \in 1..Len(Order(track)) : Order(track)[i] \in Hooks \cup Code
         /\ Hooks \cap Code = {}
<1>1. Hooks \cap Code = {}
  BY DEF Hooks, Code
<1>2. CASE track = "packages"
  <2>1. Order(track) = <<"preinstall", "postinstall", "setup", "import">>
    BY <1>2 DEF Order
  <2>2. QED
    BY <1>1, <2>1 DEF Hooks, Code
<1>3. CASE track = "skills"
  <2>1. Order(track) = <<"first", "second">>
    BY <1>3 DEF Order
  <2>2. QED
    BY <1>1, <2>1 DEF Hooks, Code
<1>4. CASE track = "mcp_servers"
  <2>1. Order(track) = <<"server">>
    BY <1>4 DEF Order
  <2>2. QED
    BY <1>1, <2>1 DEF Hooks, Code
<1>5. QED
  BY <1>2, <1>3, <1>4 DEF GivenOK, Tracks

\* The phase whose turn it is.
LEMMA Turns ==
  ASSUME GivenOK, PhaseOK, ~Over
  PROVE  /\ This \in Hooks \cup Code /\ (IsHook <=> This \notin Code)
         /\ phase \in 1..Len(Order(track)) /\ phase + 1 \in 1..Len(Order(track)) + 1
         /\ phase \in Nat
BY Phases DEF PhaseOK, Over, This, IsHook

\* Where no code ran and nothing is out, the record is empty.
LEMMA Nothing == ASSUME IInv, ~Ran PROVE seen = {} /\ touched = {} /\ ~HookRuns /\ Known = present
BY DEF IInv, SeenDone, HookDone, Ran, HookRuns, Known

\* What deeds show is of the kept capabilities.
LEMMA ShownFacts ==
  /\ \A deed \in Deeds : Shown(deed) \subseteq Acts
  /\ Shown("write") = {"WRITE_FILE"} /\ Shown("remove") = {"DELETE_FILE"}
  /\ "write" \in Deeds /\ "remove" \in Deeds
BY DEF Deeds, Shown, Acts

\* What was done stays done, and bears the capabilities out that are reported.
LEMMA Stay ==
  ASSUME IInv, acted \subseteq acted', UNCHANGED given, phase' \in {phase, phase + 1},
         caps' \in {caps, caps \cup {"EXPOSE_TOOL"}}
  PROVE  CapsBased' /\ Earned'
<1>1. \A c, w : DoneAt(c, w) => DoneAt(c, w)'
  BY DEF DoneAt
<1>2. phase \in Nat /\ Len(Order(track)) \in Nat /\ Order(track)' = Order(track)
  BY Phases DEF IInv, Types, PhaseOK, given
<1>3. WordsBehind => WordsBehind'
  <2>1. \A i \in 1..Len(Order(track)) : i < phase => i < phase'
    BY <1>2
  <2>2. QED
    BY <1>2, <2>1 DEF WordsBehind, given
<1>4. \A c : Based(c) => Based(c)'
  BY <1>1, <1>3 DEF Based
<1>5. CapsBased'
  BY <1>4 DEF IInv, CapsBased, Acts
<1>6. \A q : Noted(q) => Noted(q)'
  BY <1>1 DEF Noted
<1>7. Earned'
  BY <1>6 DEF IInv, Earned, Hooked, given
<1>8. QED
  BY <1>5, <1>7

\* The track and its artifact, of which nothing is known before.
LEMMA StartsInv == ASSUME IInv, NEW t \in Tracks, DetonationStarts(t) PROVE IInv'
<1>1. /\ phase = 1 /\ events = 0 /\ seen = {} /\ caps = {} /\ acted = {} /\ ~missed /\ before = {} /\ touched = {}
      /\ step' = "between" /\ track' = t /\ present' = original' /\ original' \subseteq Scripts(t)
      /\ UNCHANGED <<before, touched, phase, child, caps, ran, waits, answer, past>>
      /\ answer = "none" /\ worded' \subseteq listed' \cap Hooks
  BY DEF DetonationStarts, IInv, Fresh, Types, RestOK
<1>2. Scripts(t) \subseteq Code
  BY DEF Scripts
<1>3. listed' \subseteq Hooks \cup Code /\ (listed' \cap Hooks # {} => t = "packages")
  <2>1. CASE t = "packages"
    BY <2>1 DEF DetonationStarts
  <2>2. CASE t = "skills"
    BY <1>1, <1>2, <2>2 DEF DetonationStarts, Hooks, Code
  <2>3. CASE t = "mcp_servers"
    BY <2>3 DEF DetonationStarts
  <2>4. QED
    BY <2>1, <2>2, <2>3 DEF Tracks
<1>4. GivenOK'
  BY <1>1, <1>2, <1>3 DEF DetonationStarts, GivenOK
<1>5. Len(Order(track'))  \in Nat \ {0}
  BY <1>4, Phases DEF GivenOK, Tracks, Order
<1>6. Types'
  BY <1>1, <1>2, <1>4, <1>5 DEF IInv, Types, TreeOK, PhaseOK, ChildOK, PastOK, RestOK, child, past, Ran, Steps
<1>7. Fresh' /\ HooksListed' /\ SeenDone' /\ HookDone' /\ CapsBased' /\ Earned' /\ AtEnd'
  BY <1>1, <1>3 DEF IInv, Fresh, HooksListed, SeenDone, HookDone, CapsBased, Earned, AtEnd,
                    Ran, HookRuns, child, past
<1>8. HooksTold' /\ CodeTold' /\ TreeTold'
  BY <1>1, <1>5 DEF HooksTold, CodeTold, TreeTold, Known, HookRuns, past
<1>9. QED
  BY <1>6, <1>7, <1>8 DEF IInv

\* A phase that is not due has no listed hook.
LEMMA SkippedInv == ASSUME IInv, PhaseSkipped PROVE IInv'
<1>1. /\ step = "between" /\ phase' = phase + 1 /\ ~Over
      /\ UNCHANGED <<given, tree, step, child, caps, ran, waits, answer, past>>
  BY DEF PhaseSkipped, Turn
<1>2. seen = {} /\ touched = {} /\ Known = present /\ Order(track)' = Order(track) /\ ~Ran /\ ~Ran'
  BY <1>1, Nothing DEF Ran, given
<1>3. ~(This \in listed \cap Hooks)
  BY DEF PhaseSkipped, Due, IsHook
<1>4. /\ phase \in 1..Len(Order(track)) /\ phase + 1 \in 1..Len(Order(track)) + 1 /\ phase \in Nat
      /\ Len(Order(track)) \in Nat
  BY <1>1, Turns, Phases DEF IInv, Types
<1>5. Types'
  BY <1>1, <1>2, <1>4 DEF IInv, Types, GivenOK, TreeOK, PhaseOK, ChildOK, PastOK, RestOK, given, tree, child, past
<1>6. Fresh' /\ HooksListed' /\ SeenDone' /\ HookDone' /\ AtEnd'
  <2>1. answer' = "none"
    BY <1>1 DEF IInv, Types, RestOK
  <2>2. QED
    BY <1>1, <1>2, <2>1 DEF IInv, Fresh, HooksListed, SeenDone, HookDone, AtEnd, Ran, HookRuns, given, tree, child
<1>7. CapsBased' /\ Earned'
  BY <1>1, Stay DEF past
<1>8. HooksTold'
  <2>1. \A i \in 1..Len(Order(track)) : i < phase + 1 => i < phase \/ i = phase
    BY <1>4
  <2>2. \A i \in 1..Len(Order(track)) : i < phase + 1 /\ Order(track)[i] \in listed \cap Hooks => i < phase
    BY <1>3, <2>1 DEF This
  <2>3. QED
    BY <1>1, <1>2, <2>2 DEF IInv, HooksTold, Told, given
<1>9. CodeTold' /\ TreeTold'
  BY <1>1, <1>2 DEF IInv, CodeTold, TreeTold, Clean, Told, Reported, Pending, Known, HookRuns, given, tree, child, past
<1>10. QED
  BY <1>5, <1>6, <1>7, <1>8, <1>9 DEF IInv

\* A hook starts from a snapshot of the tree as it is.
LEMMA PhaseInv == ASSUME IInv, PhaseStarts PROVE IInv'
<1>1. /\ step = "between" /\ step' = "running" /\ ~Over /\ ran' = TRUE
      /\ IsHook => step' = "running" /\ This \in listed /\ before' = present
      /\ ~IsHook => before' = {}
      /\ UNCHANGED <<given, present, touched, phase, child, caps, waits, answer, past>>
  BY DEF PhaseStarts, Turn, Due
<1>2. seen = {} /\ touched = {} /\ Known = present /\ ~Ran
  BY <1>1, Nothing DEF Ran
<1>3. /\ This' = This /\ Over' = Over /\ Order(track)' = Order(track) /\ IsHook' = IsHook
  BY <1>1 DEF given, This, Over, IsHook
<1>4. Types'
  BY <1>1, <1>2, <1>3 DEF IInv, Types, GivenOK, TreeOK, PhaseOK, ChildOK, PastOK, RestOK, given, child, past, Steps
<1>5. Fresh' /\ HooksListed' /\ SeenDone' /\ AtEnd'
  <2>1. answer' = "none"
    BY <1>1 DEF IInv, Types, RestOK
  <2>2. QED
    BY <1>1, <1>2, <1>3, <2>1 DEF IInv, Fresh, HooksListed, SeenDone, AtEnd, given, child
<1>6. HookDone' /\ Known' = Known
  BY <1>1, <1>2, <1>3 DEF HookDone, HookRuns, Known
<1>7. CapsBased' /\ Earned' /\ HooksTold'
  BY <1>1, <1>3, Stay DEF IInv, HooksTold, Told, given, past
<1>8. CodeTold' /\ TreeTold'
  BY <1>1, <1>2, <1>6 DEF IInv, CodeTold, TreeTold, Clean, Told, Reported, Pending, given, child, past
<1>9. QED
  BY <1>4, <1>5, <1>6, <1>7, <1>8 DEF IInv

\* A child whose output is out has the record it had.
LEMMA WritesInv == ASSUME IInv, ChildWrites PROVE IInv'
<1>1. /\ step = "running" /\ step' = "written" /\ ~IsHook
      /\ UNCHANGED <<given, tree, phase, child, caps, ran, waits, answer, past>>
  BY DEF ChildWrites
<1>2. /\ This' = This /\ Over' = Over /\ Order(track)' = Order(track) /\ IsHook' = IsHook
      /\ Ran /\ Ran' /\ ~HookRuns /\ ~HookRuns' /\ Known' = Known
  BY <1>1 DEF given, tree, This, Over, IsHook, Ran, HookRuns, Known
<1>3. Types'
  BY <1>1, <1>2 DEF IInv, Types, GivenOK, TreeOK, PhaseOK, ChildOK, PastOK, RestOK, given, tree, child, past, Steps
<1>4. Fresh' /\ HooksListed' /\ SeenDone' /\ AtEnd' /\ HookDone'
  <2>1. answer' = "none"
    BY <1>1 DEF IInv, Types, RestOK
  <2>2. SeenDone'
    BY <1>1, <1>2 DEF IInv, SeenDone, DoneAt, child, past
  <2>3. QED
    BY <1>1, <1>2, <2>1, <2>2 DEF IInv, Fresh, HooksListed, AtEnd, HookDone, given, tree, child, past
<1>5. CapsBased' /\ Earned' /\ HooksTold'
  BY <1>1, <1>2, Stay DEF IInv, HooksTold, Told, given, past
<1>6. CodeTold' /\ TreeTold'
  BY <1>1, <1>2 DEF IInv, CodeTold, TreeTold, Clean, Told, Reported, Pending, given, child, past
<1>7. QED
  BY <1>3, <1>4, <1>5, <1>6 DEF IInv

\* The answer adds a mark that is of no act.
LEMMA EndInv == ASSUME IInv, DetonationEnds PROVE IInv'
<1>1. /\ step = "between" /\ Over /\ step' = "over" /\ answer' = "traced" /\ answer = "none"
      /\ caps' \in {caps, caps \cup {"EXPOSE_TOOL"}}
      /\ UNCHANGED <<given, tree, phase, child, ran, waits, past>>
  BY DEF DetonationEnds, IInv, Types, RestOK
<1>2. /\ seen = {} /\ touched = {} /\ ~Ran /\ ~Ran' /\ ~HookRuns' /\ Known' = Known
      /\ Order(track)' = Order(track) /\ Over'
  BY <1>1, Nothing DEF Ran, HookRuns, Known, given, tree, Over
<1>3. Types'
  BY <1>1, <1>2 DEF IInv, Types, GivenOK, TreeOK, PhaseOK, ChildOK, PastOK, RestOK, given, tree, child, past,
                    Steps, Marks
<1>4. Fresh' /\ HooksListed' /\ SeenDone' /\ HookDone' /\ AtEnd'
  BY <1>1, <1>2 DEF IInv, Fresh, HooksListed, SeenDone, HookDone, AtEnd, given, tree, child
<1>5. CapsBased' /\ Earned' /\ HooksTold'
  BY <1>1, <1>2, Stay DEF IInv, HooksTold, Told, given, past
<1>6. CodeTold' /\ TreeTold'
  BY <1>1, <1>2 DEF IInv, CodeTold, TreeTold, Clean, Told, Reported, Pending, given, child, past
<1>7. QED
  BY <1>3, <1>4, <1>5, <1>6 DEF IInv

\* The artifact is as good as unseen when there is no answer.
LEMMA KilledInv == ASSUME IInv, NoAnswer PROVE IInv'
<1>1. /\ step' = "over" /\ answer' = "untraced" /\ caps' = {} /\ phase' = 1 /\ present' = {} /\ before' = {}
      /\ touched' = {} /\ events' = 0 /\ seen' = {} /\ ran' = FALSE /\ waits' = 0 /\ acted' = {}
      /\ missed' = FALSE /\ done' = 0 /\ UNCHANGED given
  BY DEF NoAnswer
<1>2. Len(Order(track)) \in Nat /\ Order(track)' = Order(track)
  BY <1>1, Phases DEF IInv, Types, given
<1>3. Types'
  <2>1. 1 \in 1..Len(Order(track)) + 1 /\ 0 \in 0..MaxEvents /\ 0 \in 0..MaxWaits /\ 0 \in 0..MaxDeeds
    BY <1>2, DetonationAssumption
  <2>2. QED
    BY <1>1, <1>2, <2>1 DEF IInv, Types, GivenOK, TreeOK, PhaseOK, ChildOK, PastOK, RestOK, given, Ran, Steps
<1>4. Fresh' /\ HooksListed' /\ SeenDone' /\ HookDone' /\ AtEnd' /\ CapsBased' /\ Earned'
  BY <1>1 DEF IInv, Fresh, HooksListed, SeenDone, HookDone, AtEnd, CapsBased, Earned, Ran, HookRuns, given
<1>5. HooksTold' /\ CodeTold' /\ TreeTold'
  BY <1>1 DEF HooksTold, CodeTold, TreeTold, Told
<1>6. QED
  BY <1>3, <1>4, <1>5 DEF IInv

-----------------------------------------------------------------------------
(* Deeds                                                                    *)

\* A deed changes the tree the way its capability says, or escapes.
LEMMA Effects ==
  ASSUME IInv, NEW deed \in Deeds, Effect(deed)
  PROVE  /\ TreeOK' /\ before' = before /\ done' \in 0..MaxDeeds
         /\ present' \ present # {} => deed \in {"write"} \cup Escapes
         /\ present \ present' # {} => deed \in {"remove"} \cup Escapes
         /\ touched' # touched => deed \in {"write"} \cup Escapes /\ HookRuns
<1>1. Scripts(track) \subseteq Code
  BY DEF Scripts
<1>2. done' \in 0..MaxDeeds /\ before' = before
  BY DetonationAssumption DEF Effect, IInv, Types, PastOK
<1>3. CASE /\ deed \in {"write"} \cup Escapes
           /\ \E f \in Scripts(track) :
                /\ present' = present \cup {f}
                /\ touched' \in (IF HookRuns THEN {touched, touched \cup {f}} ELSE {touched})
  BY <1>1, <1>2, <1>3 DEF TreeOK, IInv, Types
<1>4. CASE deed \in {"remove", "rename"} /\ (\E f \in present : present' = present \ {f}) /\ UNCHANGED touched
  BY <1>2, <1>4 DEF TreeOK, IInv, Types, Escapes
<1>5. CASE UNCHANGED <<present, touched>>
  BY <1>2, <1>5 DEF TreeOK, IInv, Types
<1>6. QED
  BY <1>3, <1>4, <1>5 DEF Effect

\* The record grows by what this deed shows at most, and only by one of the artifact.
LEMMA Records ==
  ASSUME IInv, NEW deed \in Deeds, NEW origin \in {"artifact", "library"}, Recorded(deed, origin)
  PROVE  /\ ChildOK' /\ seen \subseteq seen' /\ seen' \subseteq seen \cup Shown(deed)
         /\ origin # "artifact" \/ ~(events < MaxEvents) => seen' = seen
         /\ origin = "artifact" /\ events < MaxEvents => Shown(deed) \subseteq seen'
<1>1. events \in 0..MaxEvents /\ MaxEvents \in Nat /\ seen \subseteq Acts
  BY DetonationAssumption DEF IInv, Types, ChildOK
<1>2. events < MaxEvents => events + 1 \in 0..MaxEvents
  BY <1>1
<1>3. Shown(deed) \subseteq Acts
  BY ShownFacts
<1>4. CASE Shown(deed) # {} /\ events < MaxEvents
  <2>1. events' = events + 1 /\ seen' = IF origin = "artifact" THEN seen \cup Shown(deed) ELSE seen
    BY <1>4 DEF Recorded, Grows
  <2>2. QED
    BY <1>1, <1>2, <1>3, <1>4, <2>1 DEF ChildOK
<1>5. CASE ~(Shown(deed) # {} /\ events < MaxEvents)
  BY <1>1, <1>5 DEF Recorded, ChildOK, child
<1>6. QED
  BY <1>4, <1>5

\* What Python code does goes into its record, or is missed.
LEMMA CodeInv ==
  ASSUME IInv, NEW deed \in Deeds, NEW origin \in {"artifact", "library"}, CodeActs(deed, origin)
  PROVE  IInv'
<1>1. /\ step = "running" /\ ~IsHook /\ UNCHANGED <<given, phase, step, caps, ran, waits, answer>>
      /\ origin = "artifact" /\ events < MaxEvents => acted' = acted \cup {<<deed, This>>} /\ missed' = missed
      /\ ~(origin = "artifact" /\ events < MaxEvents) => acted' = acted /\ missed' = TRUE
  BY DEF CodeActs
<1>2. /\ This' = This /\ Over' = Over /\ Order(track)' = Order(track) /\ IsHook' = IsHook
      /\ Ran /\ Ran' /\ ~HookRuns /\ ~HookRuns' /\ Known = present /\ Known' = present' /\ answer = "none"
  BY <1>1 DEF given, This, Over, IsHook, Ran, HookRuns, Known, IInv, Types, RestOK
<1>3. /\ TreeOK' /\ touched' = touched /\ done' \in 0..MaxDeeds
      /\ present' \ present # {} => deed \in {"write"} \cup Escapes
      /\ present \ present' # {} => deed \in {"remove"} \cup Escapes
  BY <1>2, Effects DEF CodeActs
<1>4. /\ ChildOK' /\ seen \subseteq seen' /\ seen' \subseteq seen \cup Shown(deed)
      /\ ~(origin = "artifact" /\ events < MaxEvents) => seen' = seen
      /\ origin = "artifact" /\ events < MaxEvents => Shown(deed) \subseteq seen'
  BY Records DEF CodeActs
<1>5. This \in Code /\ acted \subseteq acted'
  BY <1>1, <1>2, Turns DEF IInv, Types, PhaseOK
<1>6. Types'
  <2>1. PastOK'
    <3>1. <<deed, This>> \in Deeds \X (Code \cup {"shell"}) /\ acted \subseteq Deeds \X (Code \cup {"shell"})
      BY <1>5 DEF IInv, Types, PastOK
    <3>2. acted' = acted \cup {<<deed, This>>} \/ acted' = acted
      BY <1>1
    <3>3. missed' \in BOOLEAN
      BY <1>1 DEF IInv, Types, PastOK
    <3>4. QED
      BY <1>3, <3>1, <3>2, <3>3 DEF PastOK
  <2>2. QED
    BY <1>1, <1>2, <1>3, <1>4, <2>1 DEF IInv, Types, GivenOK, PhaseOK, RestOK, given
<1>7. Fresh' /\ HooksListed' /\ AtEnd' /\ HookDone'
  BY <1>1, <1>2, <1>3 DEF IInv, Fresh, HooksListed, AtEnd, HookDone, given
<1>8. SeenDone'
  <2>1. \A c \in seen : DoneAt(c, This)
    BY DEF IInv, SeenDone
  <2>2. \A c \in seen : DoneAt(c, This)'
    BY <1>2, <1>5, <2>1 DEF DoneAt
  <2>3. \A c \in seen' : c \in seen \/ DoneAt(c, This)'
    <3>1. CASE origin = "artifact" /\ events < MaxEvents
      BY <1>1, <1>2, <1>4, <3>1 DEF DoneAt
    <3>2. CASE ~(origin = "artifact" /\ events < MaxEvents)
      BY <1>4, <3>2
    <3>3. QED
      BY <3>1, <3>2
  <2>4. QED
    BY <1>1, <1>2, <2>2, <2>3 DEF SeenDone
<1>9. CapsBased' /\ Earned'
  BY <1>1, <1>5, Stay
<1>10. HooksTold'
  BY <1>1, <1>2 DEF IInv, HooksTold, Told, given
<1>11. CodeTold'
  <2>1. ASSUME ~missed', NEW d \in Deeds, NEW c \in Code, NEW a \in Acts, <<d, c>> \in acted', a \in Shown(d)
        PROVE  Reported(a, c)' \/ Pending(a, c)'
    <3>1. ~missed /\ origin = "artifact" /\ events < MaxEvents /\ acted' = acted \cup {<<deed, This>>}
      BY <1>1, <2>1
    <3>2. CASE <<d, c>> \in acted
      <4>1. Reported(a, c) \/ Pending(a, c)
        BY <1>2, <2>1, <3>1, <3>2 DEF IInv, CodeTold, Told
      <4>2. QED
        BY <1>1, <1>2, <1>4, <4>1 DEF Reported, Pending
    <3>3. CASE d = deed /\ c = This
      BY <1>2, <1>4, <2>1, <3>1, <3>3 DEF Pending
    <3>4. QED
      BY <2>1, <3>1, <3>2, <3>3
  <2>2. QED
    BY <2>1 DEF CodeTold
<1>12. TreeTold'
  <2>1. ASSUME ~missed', Clean'
        PROVE  /\ present' \subseteq original \/ "WRITE_FILE" \in caps \cup seen'
               /\ original \subseteq present' \/ "DELETE_FILE" \in caps \cup seen'
    <3>1. /\ ~missed /\ Shown(deed) \subseteq seen' /\ Clean /\ deed \notin Escapes
      <4>1. /\ origin = "artifact" /\ events < MaxEvents /\ ~missed
            /\ acted' = acted \cup {<<deed, This>>}
        BY <1>1, <2>1
      <4>2. \A d \in Escapes, c \in Code : <<d, c>> \notin acted'
        BY <2>1 DEF Clean
      <4>3. deed \notin Escapes
        BY <1>5, <4>1, <4>2
      <4>4. Clean
        BY <1>5, <4>2 DEF Clean
      <4>5. QED
        BY <1>4, <4>1, <4>3, <4>4
    <3>2. /\ present \subseteq original \/ "WRITE_FILE" \in caps \cup seen
          /\ original \subseteq present \/ "DELETE_FILE" \in caps \cup seen
      BY <1>2, <3>1 DEF IInv, TreeTold, Told
    <3>3. /\ present' \ present # {} => "WRITE_FILE" \in seen'
          /\ present \ present' # {} => "DELETE_FILE" \in seen'
      BY <1>3, <3>1, ShownFacts
    <3>4. QED
      BY <1>4, <3>2, <3>3
  <2>2. QED
    BY <1>1, <1>2, <2>1 DEF TreeTold, given
<1>13. QED
  BY <1>6, <1>7, <1>8, <1>9, <1>10, <1>11, <1>12 DEF IInv

\* What a shell does shows in the tree its hook leaves; what a process does that was
\* left behind, or a thread after the record was written, is missed.
LEMMA ShellInv ==
  ASSUME IInv, NEW deed \in Deeds, ShellActs(deed) \/ ThreadActs(deed) PROVE IInv'
<1>1. /\ step # "idle" /\ Effect(deed) /\ UNCHANGED <<given, phase, step, child, caps, ran, waits, answer>>
      /\ HookRuns => /\ deed \in {"write", "remove"} /\ missed' = missed
                     /\ acted' = acted \cup {<<deed, "shell">>}
      /\ ~HookRuns => acted' = acted /\ missed' = TRUE
  BY DEF ShellActs, ThreadActs, HookRuns, IInv, Fresh
<1>2. /\ This' = This /\ Over' = Over /\ Order(track)' = Order(track) /\ IsHook' = IsHook
      /\ Ran' = Ran /\ HookRuns' = HookRuns
  BY <1>1 DEF given, This, Over, IsHook, Ran, HookRuns
<1>3. /\ TreeOK' /\ before' = before /\ done' \in 0..MaxDeeds /\ acted \subseteq acted'
      /\ HookRuns /\ present' \ present # {} => deed = "write"
      /\ HookRuns /\ present \ present' # {} => deed = "remove"
      /\ touched' # touched => deed = "write" /\ HookRuns
  BY <1>1, Effects DEF Escapes
<1>4. Types'
  <2>1. PastOK'
    <3>1. <<deed, "shell">> \in Deeds \X (Code \cup {"shell"}) /\ acted \subseteq Deeds \X (Code \cup {"shell"})
      BY DEF IInv, Types, PastOK
    <3>2. acted' = acted \cup {<<deed, "shell">>} \/ acted' = acted
      BY <1>1
    <3>3. missed' \in BOOLEAN
      BY <1>1 DEF IInv, Types, PastOK
    <3>4. QED
      BY <1>3, <3>1, <3>2, <3>3 DEF PastOK
  <2>2. QED
    BY <1>1, <1>2, <1>3, <2>1 DEF IInv, Types, GivenOK, PhaseOK, ChildOK, RestOK, given, child
<1>5. Fresh' /\ HooksListed' /\ AtEnd'
  BY <1>1, <1>2 DEF IInv, Fresh, HooksListed, AtEnd, given, child
<1>6. SeenDone'
  <2>1. \A c \in seen : DoneAt(c, This)'
    BY <1>2, <1>3 DEF IInv, SeenDone, DoneAt
  <2>2. QED
    BY <1>1, <1>2, <2>1 DEF IInv, SeenDone, child
<1>7. HookDone'
  <2>1. touched' # {} => HookRuns /\ <<"write", "shell">> \in acted'
    BY <1>1, <1>3 DEF IInv, HookDone
  <2>2. HookRuns /\ present' \ before # {} => <<"write", "shell">> \in acted'
    BY <1>1, <1>3 DEF IInv, HookDone
  <2>3. HookRuns /\ before \ present' # {} => <<"remove", "shell">> \in acted'
    BY <1>1, <1>3 DEF IInv, HookDone
  <2>4. QED
    BY <1>2, <1>3, <2>1, <2>2, <2>3 DEF HookDone
<1>8. CapsBased' /\ Earned'
  BY <1>1, <1>3, Stay
<1>9. HooksTold'
  BY <1>1, <1>2 DEF IInv, HooksTold, Told, given
<1>10. CodeTold'
  <2>1. "shell" \notin Code
    BY DEF Code
  <2>2. \A d \in Deeds, c \in Code : <<d, c>> \in acted' => <<d, c>> \in acted
    BY <1>1, <2>1
  <2>3. QED
    BY <1>1, <1>2, <2>2 DEF IInv, CodeTold, Told, Reported, Pending, child
<1>11. TreeTold'
  <2>1. HookRuns => Known = before /\ Known' = before
    BY <1>2, <1>3 DEF Known
  <2>2. Clean' => Clean
    BY <1>3 DEF Clean
  <2>3. QED
    BY <1>1, <2>1, <2>2 DEF IInv, TreeTold, Told, given, child
<1>12. QED
  BY <1>4, <1>5, <1>6, <1>7, <1>8, <1>9, <1>10, <1>11 DEF IInv

-----------------------------------------------------------------------------
(* The end of a phase                                                       *)

\* The next phase starts from an empty record.
LEMMA NextTypes ==
  ASSUME IInv, Ran, NextPhase, caps' \subseteq Acts \cup Marks, waits' \in 0..MaxWaits, missed' \in BOOLEAN
  PROVE  /\ Types' /\ Fresh' /\ HooksListed' /\ SeenDone' /\ HookDone' /\ AtEnd'
         /\ Known' = present /\ seen' = {} /\ answer = "none"
<1>1. /\ phase' = phase + 1 /\ step' = "between" /\ before' = {} /\ touched' = {} /\ events' = 0 /\ seen' = {}
      /\ UNCHANGED <<given, present, ran, answer, acted, done>>
  BY DEF NextPhase
<1>2. Order(track)' = Order(track) /\ ~Ran' /\ ~HookRuns'
  BY <1>1 DEF given, Ran, HookRuns
<1>3. phase + 1 \in 1..Len(Order(track)) + 1
  BY Turns DEF IInv, Types, PhaseOK
<1>4. 0 \in 0..MaxEvents
  BY DetonationAssumption
<1>5. answer = "none"
  BY DEF IInv, Types, RestOK, Ran
<1>6. Types'
  <2>1. GivenOK' /\ TreeOK' /\ ChildOK' /\ PastOK'
    BY <1>1, <1>4 DEF IInv, Types, GivenOK, TreeOK, ChildOK, PastOK, given
  <2>2. PhaseOK' /\ RestOK'
    BY <1>1, <1>2, <1>3, <1>5 DEF IInv, Types, PhaseOK, RestOK, Steps
  <2>3. QED
    BY <2>1, <2>2 DEF Types
<1>7. Fresh' /\ HooksListed' /\ SeenDone' /\ HookDone' /\ AtEnd' /\ Known' = present
  BY <1>1, <1>2, <1>5 DEF IInv, Fresh, HooksListed, SeenDone, HookDone, AtEnd, Known, given
<1>8. QED
  BY <1>1, <1>5, <1>6, <1>7

\* A phase whose record is lost reports nothing, and is no hook's.
LEMMA LostInv == ASSUME IInv, ChildDies \/ ChildTimesOut PROVE IInv'
<1>1. /\ Ran /\ ~IsHook /\ NextPhase /\ caps' = caps /\ missed' = TRUE
      /\ waits' = waits \/ (waits < MaxWaits /\ waits' = waits + 1)
  BY DEF ChildDies, ChildTimesOut, Ran
<1>2. waits' \in 0..MaxWaits /\ caps' \subseteq Acts \cup Marks
  BY <1>1, DetonationAssumption DEF IInv, Types, RestOK
<1>3. /\ Types' /\ Fresh' /\ HooksListed' /\ SeenDone' /\ HookDone' /\ AtEnd'
      /\ answer = "none"
  BY <1>1, <1>2, NextTypes
<1>4. phase' = phase + 1 /\ UNCHANGED <<given, acted, answer>> /\ Order(track)' = Order(track)
  BY <1>1 DEF NextPhase, given
<1>5. CapsBased' /\ Earned'
  BY <1>1, <1>4, Stay
<1>6. HooksTold'
  <2>1. phase \in Nat /\ Len(Order(track)) \in Nat
    BY <1>1, Turns, Phases DEF IInv, Types, PhaseOK
  <2>2. \A i \in 1..Len(Order(track)) : i < phase + 1 => i < phase \/ i = phase
    BY <2>1
  <2>3. \A i \in 1..Len(Order(track)) : i < phase + 1 /\ Order(track)[i] \in listed \cap Hooks => i < phase
    BY <1>1, <2>2 DEF This, IsHook
  <2>4. Told
    BY <1>3 DEF Told
  <2>5. QED
    BY <1>1, <1>4, <2>3, <2>4 DEF IInv, HooksTold, given
<1>7. CodeTold' /\ TreeTold'
  BY <1>1 DEF CodeTold, TreeTold
<1>8. QED
  BY <1>3, <1>5, <1>6, <1>7 DEF IInv

\* What is collected of a phase is what it did, with the marks it earned.
LEMMA CollectInv ==
  ASSUME IInv, Ran, NextPhase, UNCHANGED missed, waits' \in 0..MaxWaits,
         NEW read, Collect(read), read = IF IsHook THEN Diff \cup Words ELSE seen
  PROVE  IInv'
<1>1. /\ phase' = phase + 1 /\ UNCHANGED <<given, acted, answer>> /\ Order(track)' = Order(track)
      /\ caps' = caps \cup read \cup Mark(read) /\ step' = "between"
  BY DEF NextPhase, given, Collect
<1>2. /\ GivenOK /\ PhaseOK /\ ~Over /\ seen \subseteq Acts /\ missed \in BOOLEAN
      /\ caps \subseteq Acts \cup Marks /\ acted \subseteq Deeds \X (Code \cup {"shell"})
  BY DEF IInv, Types, PhaseOK, ChildOK, PastOK, RestOK
<1>3. This \in Hooks \cup Code /\ (IsHook <=> This \notin Code) /\ (IsHook <=> This \in Hooks)
  BY <1>2, Turns DEF IsHook
<1>4. Diff \cup Words \subseteq Acts /\ Mark(read) \subseteq Marks /\ Acts \cap Marks = {}
  BY DEF Diff, Words, Acts, Mark, Marks
<1>5. read \subseteq Acts /\ caps' \subseteq Acts \cup Marks
  BY <1>1, <1>2, <1>4
<1>6. /\ Types' /\ Fresh' /\ HooksListed' /\ SeenDone' /\ HookDone' /\ AtEnd'
      /\ Known' = present /\ seen' = {} /\ answer = "none"
  BY <1>2, <1>5, NextTypes
<1>7. IsHook => HookRuns /\ This \in listed /\ seen = {}
  BY DEF IInv, HooksListed, SeenDone, HookRuns
<1>8. \A a \in read : IF IsHook THEN (a \in {"WRITE_FILE", "DELETE_FILE"} /\ DoneAt(a, "shell"))
                                       \/ (a = "EXEC_SHELL" /\ This \in worded)
                              ELSE DoneAt(a, This)
  <2>1. CASE IsHook
    <3>1. \A a \in Diff : a \in {"WRITE_FILE", "DELETE_FILE"} /\ DoneAt(a, "shell")
      <4>1. /\ "WRITE_FILE" \in Diff => <<"write", "shell">> \in acted
            /\ "DELETE_FILE" \in Diff => <<"remove", "shell">> \in acted
        BY <1>7, <2>1 DEF Diff, IInv, HookDone
      <4>2. Diff \subseteq {"WRITE_FILE", "DELETE_FILE"}
        BY DEF Diff
      <4>3. QED
        BY <4>1, <4>2, ShownFacts DEF DoneAt
    <3>2. QED
      BY <2>1, <3>1 DEF Words
  <2>2. CASE ~IsHook
    BY <2>2 DEF IInv, SeenDone
  <2>3. QED
    BY <2>1, <2>2
<1>9. CapsBased'
  <2>1. phase \in 1..Len(Order(track)) /\ phase \in Nat /\ Len(Order(track)) \in Nat
    BY <1>2, Turns, Phases
  <2>2. \A c, w : DoneAt(c, w)' <=> DoneAt(c, w)
    BY <1>1 DEF DoneAt
  <2>3. (This \in worded => WordsBehind') /\ (WordsBehind => WordsBehind')
    <3>1. phase < phase + 1 /\ \A i \in 1..Len(Order(track)) : i < phase => i < phase + 1
      BY <2>1
    <3>2. QED
      BY <1>1, <2>1, <3>1 DEF WordsBehind, This, given
  <2>4. \A a \in read : Based(a)'
    BY <1>3, <1>8, <2>2, <2>3 DEF Based
  <2>5. \A a \in caps \cap Acts : Based(a)'
    <3>1. \A a \in caps \cap Acts : Based(a)
      BY DEF IInv, CapsBased
    <3>2. QED
      BY <2>2, <2>3, <3>1 DEF Based
  <2>6. \A a \in caps' \cap Acts : a \in read \/ a \in caps
    BY <1>1, <1>4
  <2>7. QED
    BY <2>4, <2>5, <2>6 DEF CapsBased
<1>10. /\ "INSTALL_HOOK_EXEC" \in Mark(read) <=> IsHook \/ (This = "setup" /\ Notable(read))
       /\ "IMPORT_SIDE_EFFECT" \in Mark(read) <=> This = "import" /\ Notable(read)
       /\ "POSTINSTALL_SCRIPT" \in Mark(read) <=> This = "postinstall"
  BY DEF Mark, Marks
<1>11. \A m \in Marks : m \in caps' <=> m \in caps \/ m \in Mark(read)
  BY <1>1, <1>4, <1>5
<1>12. /\ "INSTALL_HOOK_EXEC" \in Marks /\ "IMPORT_SIDE_EFFECT" \in Marks /\ "POSTINSTALL_SCRIPT" \in Marks
       /\ "postinstall" \in Hooks /\ "setup" \in Code /\ "import" \in Code
  BY DEF Marks, Hooks, Code
<1>13. ~IsHook /\ Notable(read) => Noted(This)
  BY <1>5, <1>8 DEF Notable, Noted
<1>14. Earned'
  <2>1. Hooked' = Hooked /\ \A p : Noted(p)' = Noted(p)
    BY <1>1 DEF Hooked, Noted, DoneAt, given
  <2>2. "INSTALL_HOOK_EXEC" \in caps' => Hooked \/ Noted("setup")
    <3>1. IsHook => Hooked
      BY <1>3, <1>7 DEF Hooked
    <3>2. This = "setup" /\ Notable(read) => Noted("setup")
      BY <1>3, <1>12, <1>13
    <3>3. QED
      BY <1>10, <1>11, <1>12, <3>1, <3>2 DEF IInv, Earned
  <2>3. "IMPORT_SIDE_EFFECT" \in caps' => Noted("import")
    <3>1. This = "import" /\ Notable(read) => Noted("import")
      BY <1>3, <1>12, <1>13
    <3>2. QED
      BY <1>10, <1>11, <1>12, <3>1 DEF IInv, Earned
  <2>4. "POSTINSTALL_SCRIPT" \in caps' => "postinstall" \in listed'
    BY <1>1, <1>3, <1>7, <1>10, <1>11, <1>12, Phases, <1>2 DEF IInv, Earned, given
  <2>5. QED
    BY <1>1, <2>1, <2>2, <2>3, <2>4 DEF Earned, given
<1>15. HooksTold'
  <2>1. phase \in Nat /\ Len(Order(track)) \in Nat
    BY <1>2, Turns, Phases
  <2>2. ASSUME NEW i \in 1..Len(Order(track)), i < phase + 1, Order(track)[i] \in listed \cap Hooks
        PROVE  /\ "INSTALL_HOOK_EXEC" \in caps'
               /\ Order(track)[i] = "postinstall" => "POSTINSTALL_SCRIPT" \in caps'
    <3>1. CASE i < phase
      <4>1. Told
        BY <1>6 DEF Told
      <4>2. QED
        BY <1>11, <1>12, <2>2, <3>1, <4>1 DEF IInv, HooksTold
    <3>2. CASE i = phase
      BY <1>3, <1>10, <1>11, <1>12, <2>2, <3>2 DEF This
    <3>3. QED
      BY <2>1, <2>2, <3>1, <3>2
  <2>3. QED
    BY <1>1, <2>2 DEF HooksTold, given
<1>16. CodeTold'
  <2>1. ASSUME ~missed, NEW d \in Deeds, NEW a \in Acts, NEW c \in Code, <<d, c>> \in acted, a \in Shown(d)
        PROVE  Reported(a, c)'
    <3>1. Reported(a, c) \/ Pending(a, c)
      BY <1>6, <2>1 DEF IInv, CodeTold, Told
    <3>2. CASE Reported(a, c)
      BY <1>1, <3>2 DEF Reported
    <3>3. CASE Pending(a, c)
      <4>1. a \in read /\ c = This /\ (a \notin Noise => Notable(read))
        BY <1>3, <2>1, <3>3 DEF Pending, Notable
      <4>2. QED
        BY <1>1, <1>10, <4>1 DEF Reported
    <3>4. QED
      BY <3>1, <3>2, <3>3
  <2>2. QED
    BY <1>1, <2>1 DEF CodeTold
<1>17. TreeTold'
  <2>1. ASSUME ~missed, Clean
        PROVE  /\ present \subseteq original \/ "WRITE_FILE" \in caps'
               /\ original \subseteq present \/ "DELETE_FILE" \in caps'
    <3>1. /\ Known \subseteq original \/ "WRITE_FILE" \in caps \cup seen
          /\ original \subseteq Known \/ "DELETE_FILE" \in caps \cup seen
      BY <1>6, <2>1 DEF IInv, TreeTold, Told
    <3>2. CASE IsHook
      <4>1. Known = before /\ seen = {} /\ read = Diff \cup Words
        BY <1>7, <3>2 DEF Known
      <4>2. /\ present \ before # {} => "WRITE_FILE" \in Diff
            /\ before \ present # {} => "DELETE_FILE" \in Diff
        BY DEF Diff
      <4>3. QED
        BY <1>1, <3>1, <4>1, <4>2
    <3>3. CASE ~IsHook
      BY <1>1, <3>1, <3>3 DEF Known, HookRuns
    <3>4. QED
      BY <3>2, <3>3
  <2>2. QED
    BY <1>1, <1>6, <2>1 DEF TreeTold, Clean, given
<1>18. QED
  BY <1>6, <1>9, <1>14, <1>15, <1>16, <1>17 DEF IInv

\* A record that is read, and a hook that ended.
LEMMA EndsInv == ASSUME IInv, ChildRead \/ HookEnds PROVE IInv'
<1>1. waits \in 0..MaxWaits
  BY DEF IInv, Types, RestOK
<1>2. CASE ChildRead
  <2>1. step = "written" /\ Collect(seen) /\ NextPhase /\ UNCHANGED <<waits, missed>>
    BY <1>2 DEF ChildRead
  <2>2. Ran /\ ~IsHook
    BY <2>1 DEF IInv, HooksListed, Ran
  <2>3. QED
    BY <1>1, <2>1, <2>2, CollectInv
<1>3. CASE HookEnds
  <2>1. /\ step = "running" /\ IsHook /\ Collect(Diff \cup Words) /\ NextPhase /\ UNCHANGED missed
        /\ waits' \in 0..MaxWaits
    BY <1>1, <1>3 DEF HookEnds, HookRuns
  <2>2. Ran
    BY <2>1 DEF Ran
  <2>3. QED
    BY <2>1, <2>2, CollectInv
<1>4. QED
  BY <1>2, <1>3

-----------------------------------------------------------------------------
(* What the answer is worth, for any limits                                 *)

\* Every step keeps the invariant.
LEMMA InvStep == IInv /\ [Next]_detonation => IInv'
<1>1. SUFFICES ASSUME IInv, [Next]_detonation PROVE IInv'
  OBVIOUS
<1>2. CASE UNCHANGED detonation
  <2>1. UNCHANGED <<track, listed, worded, broken, tools, original, present, before, touched, phase, step,
                    events, seen, caps, ran, waits, answer, acted, missed, done>>
    BY <1>2 DEF detonation, given, tree, child, past
  <2>2. Types'
    BY <1>1, <2>1 DEF IInv, Types, GivenOK, TreeOK, PhaseOK, ChildOK, PastOK, RestOK, Ran, Over
  <2>3. Fresh' /\ HooksListed' /\ SeenDone' /\ HookDone' /\ AtEnd'
    BY <1>1, <2>1 DEF IInv, Fresh, HooksListed, SeenDone, HookDone, AtEnd, DoneAt, Ran, HookRuns, IsHook, This, Over
  <2>4. CapsBased' /\ Earned'
    BY <1>1, <2>1, Stay DEF given
  <2>5. HooksTold' /\ CodeTold' /\ TreeTold'
    BY <1>1, <2>1 DEF IInv, HooksTold, CodeTold, TreeTold, Clean, Told, Reported, Pending, Known, HookRuns,
                      IsHook, Ran, This
  <2>6. QED
    BY <2>2, <2>3, <2>4, <2>5 DEF IInv
<1>3. CASE ManifestRaises \/ HookUndecodable \/ ContainerKilled
  BY <1>1, <1>3, KilledInv DEF ManifestRaises, HookUndecodable, ContainerKilled
<1>4. QED
  BY <1>1, <1>2, <1>3, StartsInv, SkippedInv, PhaseInv, WritesInv, EndInv, CodeInv, ShellInv,
     LostInv, EndsInv DEF Next

\* The invariant holds in every reachable state.
LEMMA Invariance == Spec => []IInv
BY InvInit, InvStep, PTL DEF Spec

\* Every variable stays in its domain, a record within its limit.
THEOREM TypeCorrect == Spec => []TypeOK
<1>1. IInv => TypeOK
  BY TypeParts DEF IInv
<1>2. QED
  BY <1>1, Invariance, PTL

\* What was shown in some place, and where a phase was noted.
LEMMA ShowsDone ==
  /\ \A c \in Acts : c \in Shows(Code) <=> \E w \in Code : DoneAt(c, w)
  /\ \A c \in Acts, w \in Code \cup {"shell"} : c \in Shows({w}) <=> DoneAt(c, w)
  /\ \A w \in Code : Notable(Shows({w})) <=> Noted(w)
  /\ Shows(Code) \subseteq Acts
<1>1. \A c, W : c \in Shows(W) <=> \E deed \in Deeds, w \in W : c \in Shown(deed) /\ <<deed, w>> \in acted
  BY DEF Shows, Did
<1>2. \A c : c \in Shows(Code) <=> \E w \in Code : DoneAt(c, w)
  BY <1>1 DEF DoneAt
<1>3. \A c, w : c \in Shows({w}) <=> DoneAt(c, w)
  <2>1. ASSUME NEW c, NEW w PROVE c \in Shows({w}) <=> DoneAt(c, w)
    <3>1. c \in Shows({w}) <=> \E deed \in Did({w}) : c \in Shown(deed)
      BY DEF Shows
    <3>2. \A deed : deed \in Did({w}) <=> deed \in Deeds /\ <<deed, w>> \in acted
      BY DEF Did
    <3>3. QED
      BY <3>1, <3>2 DEF DoneAt
  <2>2. QED
    BY <2>1
<1>4. \A c, W : c \in Shows(W) => c \in Acts
  BY <1>1, ShownFacts
<1>5. \A w : Notable(Shows({w})) <=> Noted(w)
  BY <1>3, <1>4 DEF Notable, Noted
<1>6. QED
  BY <1>2, <1>3, <1>4, <1>5

\* Every capability a detonation reports was shown by the artifact's own code, in
\* whichever phase and whatever libraries did beside it, or stood in the command of a
\* hook that ran.
THEOREM OnlyWhatWasDone == Spec => []NothingInvented
<1>1. IInv => NothingInvented
  <2>1. SUFFICES ASSUME IInv, NEW c \in caps \cap Acts
                 PROVE  \/ c \in Shows(Code)
                        \/ c \in {"WRITE_FILE", "DELETE_FILE"} /\ c \in Shows({"shell"})
                        \/ c = "EXEC_SHELL" /\ WordsRun # {}
    BY DEF NothingInvented
  <2>2. Based(c)
    BY <2>1 DEF IInv, CapsBased
  <2>3. WordsBehind => WordsRun # {}
    <3>1. phase \in Nat /\ Len(Order(track)) \in Nat /\ worded \subseteq listed
      BY <2>1, Phases DEF IInv, Types, PhaseOK, GivenOK
    <3>2. \A i \in 1..Len(Order(track)) : i < phase => i \in 1..phase - 1
      BY <3>1
    <3>3. QED
      BY <3>1, <3>2 DEF WordsBehind, WordsRun
  <2>4. QED
    BY <2>1, <2>2, <2>3, ShowsDone DEF Based
<1>2. QED
  BY <1>1, Invariance, PTL

\* Where no record was missed, the answer holds all that the artifact's Python code
\* showed and, if none of its deeds escaped the hook, the changes of its files.
THEOREM AllThatWasSeen == Spec => []NothingForgotten
<1>1. IInv => NothingForgotten
  <2>1. SUFFICES ASSUME IInv, answer = "traced", ~missed PROVE NothingForgotten
    BY DEF NothingForgotten
  <2>2. Told /\ ~Ran
    BY <2>1 DEF Told, Ran, IInv, Types, RestOK
  <2>3. seen = {} /\ Known = present
    BY <2>1, <2>2, Nothing
  <2>4. \A c \in Acts, w \in Code : DoneAt(c, w) => c \in caps
    BY <2>1, <2>2 DEF IInv, CodeTold, Reported, Pending, DoneAt
  <2>5. Shows(Code) \subseteq caps
    BY <2>4, ShowsDone
  <2>6. Did(Code) \cap Escapes = {} => Clean
    BY DEF Did, Clean, Escapes, Deeds
  <2>7. QED
    BY <2>1, <2>2, <2>3, <2>5, <2>6 DEF IInv, TreeTold, NothingForgotten
<1>2. QED
  BY <1>1, Invariance, PTL

\* The marks of hooks, setup and import are where they are due and nowhere else.
THEOREM MarksAreEarned == Spec => []MarksEarned
<1>1. IInv => MarksEarned
  <2>1. SUFFICES ASSUME IInv, answer = "traced" PROVE MarksEarned
    BY DEF MarksEarned
  <2>2. Told /\ ~Ran /\ Over
    BY <2>1 DEF Told, Ran, IInv, Types, RestOK, AtEnd
  <2>3. /\ "INSTALL_HOOK_EXEC" \in caps => Hooked \/ Noted("setup")
        /\ "IMPORT_SIDE_EFFECT" \in caps => Noted("import")
        /\ "POSTINSTALL_SCRIPT" \in caps => "postinstall" \in listed
    BY <2>1 DEF IInv, Earned
  <2>4. ASSUME NEW h \in listed \cap Hooks
        PROVE  /\ "INSTALL_HOOK_EXEC" \in caps
               /\ h = "postinstall" => "POSTINSTALL_SCRIPT" \in caps
    <3>1. track = "packages"
      BY <2>1, <2>4 DEF IInv, HooksListed
    <3>2. Order(track) = <<"preinstall", "postinstall", "setup", "import">>
      BY <3>1 DEF Order
    <3>3. Len(Order(track)) = 4 /\ phase > 4 /\ phase \in Nat
      BY <2>1, <2>2, <3>2 DEF Over, IInv, Types, PhaseOK
    <3>4. PICK i \in {1, 2} : Order(track)[i] = h
      BY <3>2 DEF Hooks
    <3>5. i \in 1..Len(Order(track)) /\ i < phase
      BY <3>3, <3>4
    <3>6. QED
      BY <2>1, <2>2, <2>4, <3>4, <3>5 DEF IInv, HooksTold
  <2>5. ASSUME ~missed, NEW c \in {"setup", "import"}, Noted(c)
        PROVE  /\ c = "setup" => "INSTALL_HOOK_EXEC" \in caps
               /\ c = "import" => "IMPORT_SIDE_EFFECT" \in caps
    <3>1. PICK a \in Acts \ Noise : DoneAt(a, c)
      BY <2>5 DEF Noted
    <3>2. PICK deed \in Deeds : a \in Shown(deed) /\ <<deed, c>> \in acted
      BY <3>1 DEF DoneAt
    <3>3. c \in Code
      BY DEF Code
    <3>4. Reported(a, c) \/ Pending(a, c)
      BY <2>1, <2>2, <2>5, <3>1, <3>2, <3>3 DEF IInv, CodeTold
    <3>5. QED
      BY <2>2, <3>1, <3>4 DEF Reported, Pending
  <2>6. "postinstall" \in Hooks /\ "setup" \in Code /\ "import" \in Code
    BY DEF Hooks, Code
  <2>7. /\ Notable(Shows({"setup"})) <=> Noted("setup")
        /\ Notable(Shows({"import"})) <=> Noted("import")
    BY <2>6, ShowsDone
  <2>8. QED
    BY <2>3, <2>4, <2>5, <2>6, <2>7 DEF MarksEarned, Hooked
<1>2. QED
  BY <1>1, Invariance, PTL
=============================================================================
