----------------------------- MODULE Detonation -----------------------------
(***************************************************************************)
(* What a detonation reports of an artifact (phylax/harness/detonate.py,   *)
(* _detonate_child.py): the phases of its track run one after the other in *)
(* one container, over one tree of files that the artifact's own code      *)
(* changes meanwhile.  Python code runs in a child under an audit hook,    *)
(* which takes some deeds for others and has no word for some; of install  *)
(* hooks, which run in a shell, the text of the command and what they      *)
(* leave in the tree are seen.  A phase may hang until its timeout, die,   *)
(* or leave processes behind; the container's deadline is three such       *)
(* timeouts (executor.py _await_exit).                                     *)
(*                                                                         *)
(* Of the capabilities four are kept: READ_FILE stands for all the noise,  *)
(* EXEC_SHELL for all that Python code shows without touching a file.      *)
(* The artifact's code is taken to leave the recorder itself alone, its    *)
(* list of events and the file it writes them to.                          *)
(***************************************************************************)
EXTENDS Integers, Sequences, FiniteSets

CONSTANTS MaxEvents,  \* _MAX_EVENTS
          MaxDeeds,   \* bound: the deeds of the artifact's code and processes
          MaxWaits    \* WALL_BACKSTOP_FACTOR - 1: timeouts the container outlives

ASSUME DetonationAssumption == MaxEvents \in Nat \ {0} /\ MaxWaits \in Nat \ {0} /\ MaxDeeds \in Nat

Hooks == {"preinstall", "postinstall"}     \* of _NPM_HOOKS; the others are alike
Code  == {"setup", "import", "first", "second", "server"}
Acts  == {"READ_FILE", "WRITE_FILE", "DELETE_FILE", "EXEC_SHELL"}
Noise == {"READ_FILE"}                     \* _SELF_NOISE
Marks == {"INSTALL_HOOK_EXEC", "POSTINSTALL_SCRIPT", "IMPORT_SIDE_EFFECT", "EXPOSE_TOOL"}

\* What Python code may do, and what _hook makes of it: an os.open or Path.touch
\* has no mode and passes for reading, a rename, replace or truncate is no event.
Deeds == {"read", "write", "touch", "remove", "rename", "spawn"}
Escapes == {"touch", "rename"}
Shown(deed) ==
  CASE deed \in {"read", "touch"} -> {"READ_FILE"} [] deed = "write" -> {"WRITE_FILE"}
    [] deed = "remove" -> {"DELETE_FILE"} [] deed = "spawn" -> {"EXEC_SHELL"} [] OTHER -> {}

VARIABLES
  track,
  listed,   \* hooks of package.json, or the scripts, as read before the first phase
  worded,   \* hooks whose command has words of a shell in it
  broken,   \* a manifest that is JSON and no object
  tools,    \* the manifest lists tools
  original, present,  \* the files of the artifact: at first, now
  before, touched,    \* at the snapshot of the hook that runs; written since
  phase,    \* position in the track's order
  step,     \* "idle", "between" phases, "running", "written": the child's output is
            \* out; "over"
  events, seen,  \* _EVENTS: how many, and the capabilities of the artifact's own
  caps,     \* capabilities collected so far
  ran,      \* a phase has run: processes that it started may be left
  waits,    \* timeouts waited for
  answer,   \* "none", "traced", "untraced"
  acted,    \* history: what the artifact's own code did, in Python or in a shell, where
            \* a record was kept of it
  done,     \* how many deeds there were
  missed    \* history: something was done where none was kept, or a record was lost

given  == <<track, listed, worded, broken, tools, original>>
tree   == <<present, before, touched>>
child  == <<events, seen>>
past   == <<acted, missed, done>>
detonation == <<given, tree, phase, step, child, caps, ran, waits, answer, past>>

Tracks == {"packages", "skills", "mcp_servers"}
Order(t) == CASE t = "packages" -> <<"preinstall", "postinstall", "setup", "import">>
              [] t = "skills" -> <<"first", "second">>
              [] t = "mcp_servers" -> <<"server">>
Scripts(t) == {Order(t)[i] : i \in DOMAIN Order(t)} \cap Code

Over == phase > Len(Order(track))
This == Order(track)[phase]
IsHook == This \in Hooks

\* The hooks and the scripts are listed once; setup.py, the package's module and
\* the server are looked for when their turn comes.  A script that an earlier one
\* removed only raises, and shows no more than one that is not due.
Due == IF IsHook THEN This \in listed
       ELSE This \in present /\ (track = "skills" => This \in listed)

Notable(c) == c \ Noise # {}

-----------------------------------------------------------------------------
(* A detonation and its phases                                              *)

Init ==
  /\ track = "skills" /\ listed = {} /\ worded = {} /\ broken = FALSE /\ tools = FALSE
  /\ original = {} /\ present = {} /\ before = {} /\ touched = {}
  /\ phase = 1 /\ step = "idle" /\ events = 0 /\ seen = {} /\ caps = {}
  /\ ran = FALSE /\ waits = 0 /\ answer = "none"
  /\ acted = {} /\ missed = FALSE /\ done = 0

\* detonate, in the container, on any artifact of the track.
DetonationStarts(t) ==
  /\ step = "idle" /\ step' = "between" /\ track' = t
  /\ original' \in SUBSET Scripts(t) /\ present' = original'
  /\ listed' \in (CASE t = "packages" -> SUBSET Hooks
                    [] t = "skills" -> {original'}
                    [] t = "mcp_servers" -> {{}})
  /\ worded' \in SUBSET (listed' \cap Hooks)
  /\ broken' \in (IF t = "skills" THEN {FALSE} ELSE BOOLEAN)
  /\ tools' \in (IF t = "mcp_servers" /\ ~broken' THEN BOOLEAN ELSE {FALSE})
  /\ UNCHANGED <<before, touched, phase, child, caps, ran, waits, answer, past>>

\* No result, whatever was done and seen.
NoAnswer ==
  /\ step' = "over" /\ answer' = "untraced" /\ caps' = {}
  /\ phase' = 1 /\ present' = {} /\ before' = {} /\ touched' = {} /\ events' = 0 /\ seen' = {}
  /\ ran' = FALSE /\ waits' = 0 /\ acted' = {} /\ missed' = FALSE /\ done' = 0
  /\ UNCHANGED given

\* A manifest without .get raises out of detonate.
ManifestRaises == step = "between" /\ phase = 1 /\ broken /\ NoAnswer

Turn == step = "between" /\ ~Over /\ ~(phase = 1 /\ broken)

PhaseSkipped ==
  /\ Turn /\ ~Due /\ phase' = phase + 1
  /\ UNCHANGED <<given, tree, step, child, caps, ran, waits, answer, past>>

\* A hook starts with a snapshot, a child with no events.
PhaseStarts ==
  /\ Turn /\ Due /\ step' = "running" /\ ran' = TRUE
  /\ before' = (IF IsHook THEN present ELSE {})
  /\ UNCHANGED <<given, present, touched, phase, child, caps, waits, answer, past>>

-----------------------------------------------------------------------------
(* What the artifact's code does                                            *)

HookRuns == step = "running" /\ IsHook

\* The snapshots tell a file's size and second: a write may leave both as they were.
\* A file that is moved leaves the tree or enters it, or does the one and the other.
Effect(deed) ==
  /\ \/ /\ deed \in {"write"} \cup Escapes
        /\ \E f \in Scripts(track) :
             /\ present' = present \cup {f}
             /\ touched' \in (IF HookRuns THEN {touched, touched \cup {f}} ELSE {touched})
     \/ deed \in {"remove", "rename"} /\ (\E f \in present : present' = present \ {f}) /\ UNCHANGED touched
     \/ UNCHANGED <<present, touched>>
  /\ UNCHANGED before /\ done < MaxDeeds /\ done' = done + 1

\* _record: up to the limit, and for the artifact where its frame comes first.
Grows(origin, shown) ==
  events' = events + 1 /\ seen' = IF origin = "artifact" THEN seen \cup shown ELSE seen
RecordedPastLimit(deed, origin) ==  \* Mutant: one event too many.
  IF Shown(deed) # {} /\ events <= MaxEvents THEN Grows(origin, Shown(deed)) ELSE UNCHANGED child
RecordedUnattributed(deed, origin) ==  \* Mutant: all capabilities are reported.
  IF Shown(deed) # {} /\ events < MaxEvents THEN Grows("artifact", Shown(deed)) ELSE UNCHANGED child
Recorded(deed, origin) ==
  IF Shown(deed) # {} /\ events < MaxEvents THEN Grows(origin, Shown(deed)) ELSE UNCHANGED child

\* A deed of the artifact itself, or of a library that it calls or that calls it.
CodeActs(deed, origin) ==
  /\ step = "running" /\ ~IsHook
  /\ Recorded(deed, origin) /\ Effect(deed)
  /\ IF origin = "artifact" /\ events < MaxEvents
       THEN acted' = acted \cup {<<deed, This>>} /\ UNCHANGED missed
       ELSE UNCHANGED acted /\ missed' = TRUE
  /\ UNCHANGED <<given, phase, step, caps, ran, waits, answer>>

\* A thread goes on once the record is written.
ThreadActs(deed) ==
  /\ step = "written" /\ Effect(deed)
  /\ missed' = TRUE
  /\ UNCHANGED <<given, phase, step, child, caps, ran, waits, answer, acted>>

\* Only the tree shows what a hook does, and nothing what a process does that a hook
\* or Python code started and left behind (without the audit hook's notice: os.fork),
\* which does not matter once no phase is left.
ShellActs(deed) ==
  /\ HookRuns \/ (ran /\ step # "over" /\ ~Over)
  /\ deed \in {"write", "remove"} /\ Effect(deed)
  /\ IF HookRuns THEN acted' = acted \cup {<<deed, "shell">>} /\ UNCHANGED missed
                 ELSE UNCHANGED acted /\ missed' = TRUE
  /\ UNCHANGED <<given, phase, step, child, caps, ran, waits, answer>>

-----------------------------------------------------------------------------
(* How a phase ends                                                         *)

\* The mark of a phase that did something of note; a hook has it anyway.
MarkAny(read) ==  \* Mutant: reading one's own source is of note.
  {m \in Marks : \/ m = "INSTALL_HOOK_EXEC" /\ (IsHook \/ (This = "setup" /\ read # {}))
                 \/ m = "POSTINSTALL_SCRIPT" /\ This = "postinstall"
                 \/ m = "IMPORT_SIDE_EFFECT" /\ This = "import" /\ read # {}}
Mark(read) ==
  {m \in Marks : \/ m = "INSTALL_HOOK_EXEC" /\ (IsHook \/ (This = "setup" /\ Notable(read)))
                 \/ m = "POSTINSTALL_SCRIPT" /\ This = "postinstall"
                 \/ m = "IMPORT_SIDE_EFFECT" /\ This = "import" /\ Notable(read)}

CollectLast(read) ==  \* Mutant: a phase replaces what the others had shown.
  caps' = read \cup Mark(read)
Collect(read) == caps' = caps \cup read \cup Mark(read)

\* What a hook changed: its snapshot against the tree it leaves.
Diff ==
  {c \in {"WRITE_FILE"} : (present \ before) \cup (touched \cap present) # {}}
    \cup {c \in {"DELETE_FILE"} : before \ present # {}}

\* hook_capabilities: whatever the hook did, the words of its command count.
Words == {c \in {"EXEC_SHELL"} : This \in worded}

NextPhase ==
  /\ phase' = phase + 1 /\ step' = "between"
  /\ before' = {} /\ touched' = {} /\ events' = 0 /\ seen' = {}
  /\ UNCHANGED <<given, present, ran, answer, acted, done>>

\* main: the script returned or raised, and its events are written.
ChildWrites ==
  /\ step = "running" /\ ~IsHook /\ step' = "written"
  /\ UNCHANGED <<given, tree, phase, child, caps, ran, waits, answer, past>>

\* The process ended and its output is read.
ChildRead ==
  /\ step = "written" /\ Collect(seen) /\ NextPhase
  /\ UNCHANGED <<waits, missed>>

\* It ended before its output was out (os._exit, a signal).
ChildDies ==
  /\ step = "running" /\ ~IsHook /\ NextPhase /\ missed' = TRUE
  /\ UNCHANGED <<caps, waits>>

\* It ran into its timeout, perhaps with its output written and a thread left over.
ChildTimesOut ==
  /\ step \in {"running", "written"} /\ ~IsHook /\ waits < MaxWaits /\ waits' = waits + 1
  /\ NextPhase /\ missed' = TRUE
  /\ UNCHANGED caps

\* The hook's shell ended, or was killed at its timeout.
HookEnds ==
  /\ HookRuns /\ Collect(Diff \cup Words) /\ NextPhase
  /\ waits' \in {waits, waits + 1} \cap 0..MaxWaits
  /\ UNCHANGED missed

\* It ended with output that is no text, which raises out of detonate.
HookUndecodable == HookRuns /\ NoAnswer

\* The container is killed for its CPU or memory, or at its deadline: no answer.
ContainerKilled == step \in {"between", "running", "written"} /\ NoAnswer

\* The driver writes what detonate returned.
DetonationEnds ==
  /\ step = "between" /\ Over /\ step' = "over" /\ answer' = "traced"
  /\ caps' = caps \cup {m \in {"EXPOSE_TOOL"} : tools}
  /\ UNCHANGED <<given, tree, phase, child, ran, waits, past>>

Next ==
  \/ \E t \in Tracks : DetonationStarts(t)
  \/ ManifestRaises \/ PhaseSkipped \/ PhaseStarts
  \/ \E deed \in Deeds : ShellActs(deed) \/ ThreadActs(deed)
  \/ \E deed \in Deeds, origin \in {"artifact", "library"} : CodeActs(deed, origin)
  \/ ChildWrites \/ ChildRead \/ ChildDies \/ ChildTimesOut \/ HookEnds
  \/ HookUndecodable \/ ContainerKilled \/ DetonationEnds

Spec == Init /\ [][Next]_detonation

-----------------------------------------------------------------------------
(* What must hold                                                           *)

\* Every variable stays in its domain, and the record holds no more than was done.
TypeOK ==
  /\ track \in Tracks
  /\ listed \subseteq Hooks \cup Code /\ worded \subseteq listed \cap Hooks
  /\ broken \in BOOLEAN /\ tools \in BOOLEAN
  /\ original \subseteq Code /\ present \subseteq Code
  /\ before \subseteq Code /\ touched \subseteq Code
  /\ phase \in 1..Len(Order(track)) + 1
  /\ step \in {"idle", "between", "running", "written", "over"}
  /\ (step \in {"running", "written"}) => ~Over
  /\ events \in 0..MaxEvents /\ seen \subseteq Acts /\ caps \subseteq Acts \cup Marks
  /\ ran \in BOOLEAN /\ waits \in 0..MaxWaits
  /\ answer \in {"none", "traced", "untraced"} /\ (answer # "none" <=> step = "over")
  /\ acted \subseteq Deeds \X (Code \cup {"shell"}) /\ missed \in BOOLEAN
  /\ done \in 0..MaxDeeds

Did(where) == {deed \in Deeds : \E w \in where : <<deed, w>> \in acted}
Shows(where) == UNION {Shown(deed) : deed \in Did(where)}
WordsRun == {h \in listed \cap worded : \E i \in 1..phase - 1 : Order(track)[i] = h}

\* A detonation invents nothing: each capability it reports is shown by a deed of
\* the artifact's own Python code, in whichever phase, or is a change that a shell
\* of it made, or was read in the command of a hook that ran.
NothingInvented ==
  \A c \in caps \cap Acts :
    \/ c \in Shows(Code)
    \/ c \in {"WRITE_FILE", "DELETE_FILE"} /\ c \in Shows({"shell"})
    \/ c = "EXEC_SHELL" /\ WordsRun # {}

\* Where no record was missed, all that the hook shows of the artifact's Python code
\* is reported, and if none of its deeds escapes the hook, each change of its files.
NothingForgotten ==
  answer = "traced" /\ ~missed =>
    /\ Shows(Code) \subseteq caps
    /\ Did(Code) \cap Escapes = {} =>
         /\ present \subseteq original \/ "WRITE_FILE" \in caps
         /\ original \subseteq present \/ "DELETE_FILE" \in caps

\* An install hook is reported where one ran or the setup showed something of note,
\* an import with effects where the import did, and nowhere else.
MarksEarned ==
  LET hooked == listed \cap Hooks # {}
      noted(p) == Notable(Shows({p}))
  IN answer = "traced" =>
       /\ "INSTALL_HOOK_EXEC" \in caps => hooked \/ noted("setup")
       /\ "IMPORT_SIDE_EFFECT" \in caps => noted("import")
       /\ hooked \/ (noted("setup") /\ ~missed) => "INSTALL_HOOK_EXEC" \in caps
       /\ noted("import") /\ ~missed => "IMPORT_SIDE_EFFECT" \in caps
       /\ "POSTINSTALL_SCRIPT" \in caps <=> "postinstall" \in listed
=============================================================================
