------------------------------ MODULE ToolGateway ------------------------------
(***************************************************************************)
(* One tool call after the other: the orchestrator reviews it and asks for *)
(* approval, ToolExecutionGateway.executeGuarded passes it through its     *)
(* gates and runs it, and remembers the reads of the turn so that the same *)
(* read is answered with a pointer to the result the model already has.    *)
(*                                                                         *)
(* The approval, the rate limiter, the check of a URL and the tool itself  *)
(* are awaits: in each, the user may change the mode or the rules of the   *)
(* shell, and others write files.  What the gates conclude is then about   *)
(* another moment than the one the human answered in.                      *)
(***************************************************************************)
EXTENDS Naturals

CONSTANTS
    SourceFiles, PlanFiles,  \* places: outside and inside .inflynx/
    Protected,               \* places isSensitiveToWrite refuses
    None,
    HasApprover,             \* an approval handler is wired up
    MaxCalls,                \* bound: tool calls
    MaxChanges               \* bound: changes by the user or by others

Places == SourceFiles \cup PlanFiles \cup Protected
Modes == {"ask", "plan", "agent", "debug"}
Verdicts == {"allow", "ask", "deny"}

(* The registry, by what its tools declare.  "edit" stands for the tools   *)
(* whose texts are reviewed (patch_file, write_file, edit_file,            *)
(* delete_path); git is two tools, by the grade of its arguments.          *)
Tools == {"read", "fetch", "delegate", "edit", "move", "update_plan",
          "git_read", "git_write", "shell", "mcp"}

IsMutating(t) == t \notin {"read", "fetch", "delegate"}
Permission(t) ==
    IF t = "shell" THEN "shell"
    ELSE IF t \in {"read", "fetch", "delegate", "git_read"} THEN "readonly" ELSE "readwrite"
Origin(t) == IF t = "mcp" THEN "mcp" ELSE "core"
Cacheable(t) == t = "read"
NamesPlace(t) == t \in {"read", "edit", "move"}
Grade(t) == IF t = "git_read" THEN "read-only" ELSE "mutating"

VARIABLES
    mode, rules,   \* activeMode; what the shell rules say of the command
    unsafe,        \* what reviewMutatingPatchForSafety says of the edit now
    phase,
    call,          \* the call, its review and how it was cleared, or NoCall
    turnCache,     \* places with a remembered read of at least MIN_CACHED_RESULT_CHARS
    seen,          \* place -> wrote when the read the model still sees was made, or None
    wrote,         \* tool calls that changed files and said so
    calls, changes

vars == <<mode, rules, unsafe, phase, call, turnCache, seen, wrote, calls, changes>>
memory == <<turnCache, seen, wrote>>
outer == <<mode, rules, unsafe, changes>>

NoCall == [tool |-> None, at |-> None, to |-> None, refresh |-> FALSE, mode |-> None,
           shown |-> None, flagged |-> FALSE, human |-> FALSE]

Phases == {"idle", "asking", "approved", "limiting", "checking", "resolving", "running"}

Init ==
    /\ mode \in Modes /\ rules \in Verdicts /\ unsafe \in BOOLEAN
    /\ phase = "idle" /\ call = NoCall
    /\ turnCache = {}
    /\ seen = [p \in Places |-> None] /\ wrote = 0
    /\ calls = 0 /\ changes = 0

-----------------------------------------------------------------------------
(* The orchestrator: review, then approval. *)

Reviewed(t) == t = "edit"

\* Everything needs a human but a shell command the rules settled, and a
\* patch that trips the rules does whatever the tool.
NeedsHuman(t) == (t = "shell" => rules = "ask") \/ (Reviewed(t) /\ unsafe)

\* requestApproval: a read-only core tool is approved by itself, everything
\* else by the handler, and by nobody where there is none.
ApprovesItself(t, flagged) == Permission(t) = "readonly" /\ Origin(t) = "core" /\ ~flagged

\* The call is over, whatever came of it.
Over == phase' = "idle" /\ call' = NoCall

Propose(t, p, q, refresh) ==
    LET flagged == Reviewed(t) /\ unsafe IN
    /\ phase = "idle" /\ calls < MaxCalls
    /\ NamesPlace(t) => p # None /\ q # None
    /\ ~NamesPlace(t) => p = None
    /\ (t = "move" \/ p = q) /\ (refresh => Cacheable(t))
    /\ calls' = calls + 1
    /\ IF NeedsHuman(t) /\ ~ApprovesItself(t, flagged) /\ ~HasApprover THEN Over
       ELSE /\ call' = [NoCall EXCEPT !.tool = t, !.at = p, !.to = q, !.refresh = refresh,
                                      !.flagged = flagged,
                                      !.shown = IF t = "shell" THEN rules ELSE None]
            /\ phase' = IF ~NeedsHuman(t) \/ ApprovesItself(t, flagged) THEN "approved" ELSE "asking"
    /\ UNCHANGED <<outer, memory>>

Answer(yes) ==
    /\ phase = "asking"
    /\ IF yes THEN phase' = "approved" /\ call' = [call EXCEPT !.human = TRUE] ELSE Over
    /\ UNCHANGED <<outer, memory, calls>>

\* shellApprovalSource: the rules allowed it, or else it counts as asked.
ShellSource == IF call.shown = "allow" THEN "rule:allow" ELSE "user:prompt"

-----------------------------------------------------------------------------
(* executeGuarded. *)

BlockedByMode(t) ==
    \/ mode = "ask" /\ (IsMutating(t) \/ Permission(t) = "shell")
    \/ Origin(t) = "mcp" /\ mode \notin {"agent", "debug"}
    \/ mode = "plan" /\ Permission(t) = "shell"

Limited(t) == Permission(t) = "shell" \/ Origin(t) = "mcp" \/ t = "fetch"

\* The mode is read once, here.
Enter ==
    /\ phase = "approved"
    /\ IF BlockedByMode(call.tool) THEN Over
       ELSE /\ call' = [call EXCEPT !.mode = mode]
            /\ phase' = IF Limited(call.tool) THEN "limiting" ELSE "checking"
    /\ UNCHANGED <<outer, memory, calls>>

\* The bucket has a token, or there is no cache to keep it; or it has none.
AwaitRateLimit ==
    /\ phase = "limiting"
    /\ Over \/ (phase' = "checking" /\ UNCHANGED call)
    /\ UNCHANGED <<outer, memory, calls>>

NamedPlaces == IF NamesPlace(call.tool) THEN {call.at, call.to} ELSE {}

\* The fence of protected places, and of plan mode; git is graded instead.
Fenced ==
    IsMutating(call.tool) /\
        \/ NamedPlaces \cap Protected # {}
        \/ /\ call.mode = "plan"
           /\ IF call.tool \in {"git_read", "git_write"}
              THEN Grade(call.tool) # "read-only"
              ELSE ~(NamedPlaces \subseteq PlanFiles)

\* Arguments that do not match the schema, a path outside the workspace, a
\* fence: the call ends with an error.
Refuse ==
    /\ phase = "checking" /\ Over
    /\ UNCHANGED <<outer, memory, calls>>

\* An argument named url is resolved first; fetch has one, mcp may have.
CheckUrl ==
    /\ phase = "checking" /\ ~Fenced /\ call.tool \in {"fetch", "mcp"}
    /\ Over \/ (phase' = "resolving" /\ UNCHANGED call)
    /\ UNCHANGED <<outer, memory, calls>>

Checked == phase = "resolving" \/ (phase = "checking" /\ ~Fenced /\ call.tool # "fetch")

\* Mutant of ShellRefused: what was reviewed before the approval decides.
ShellRefusedByReview ==
    call.tool = "shell" /\ (call.shown = "deny" \/ (call.shown = "ask" /\ ~call.human))

\* The rules are read again: a denial refuses, and "ask" needs a human source.
ShellRefused ==
    call.tool = "shell" /\
        (rules = "deny" \/ (rules = "ask" /\ ShellSource # "user:prompt"))

RefuseShell ==
    /\ Checked /\ ShellRefused /\ Over
    /\ UNCHANGED <<outer, memory, calls>>

\* user:override-patch-safety is passed only if the review before the
\* approval had flagged the edit.
PatchRefused == Reviewed(call.tool) /\ unsafe /\ ~call.flagged

RefusePatch ==
    /\ Checked /\ PatchRefused /\ Over
    /\ UNCHANGED <<outer, memory, calls>>

Passed == Checked /\ ~ShellRefused /\ ~PatchRefused

\* A read remembered in this turn, and force_refresh not given.
IsRepeat == Cacheable(call.tool) /\ call.at \in turnCache /\ ~call.refresh

\* The model is pointed to what it has.
PointToSeen ==
    /\ Passed /\ IsRepeat /\ Over
    /\ UNCHANGED <<outer, memory, calls>>

Execute ==
    /\ Passed /\ ~IsRepeat /\ phase' = "running"
    /\ UNCHANGED <<outer, memory, call, calls>>

\* A change forgets every read, a failed one none.
Remembered(ok, large) ==
    IF IsMutating(call.tool) /\ ok THEN {}
    ELSE IF Cacheable(call.tool) /\ ok /\ large /\ ~call.refresh THEN turnCache \cup {call.at}
    ELSE turnCache

\* The tool answers, and its answer joins the history.
Finish(ok, large) ==
    /\ phase = "running" /\ Over
    /\ turnCache' = Remembered(ok, large)
    /\ wrote' = IF IsMutating(call.tool) /\ ok THEN wrote + 1 ELSE wrote
    /\ seen' = IF call.tool = "read" /\ ok THEN [seen EXCEPT ![call.at] = wrote] ELSE seen
    /\ UNCHANGED <<outer, calls>>

-----------------------------------------------------------------------------
(* Around the calls. *)

\* Mutant of Forgets: what was remembered stays remembered.
ForgetsNothing == turnCache

\* invalidateTurnCache, beginToolTurn.
Forgets == {}

\* Stale results are evicted, or the oldest messages folded into a summary.
MakeRoom(gone) ==
    /\ phase = "idle" /\ gone # {} /\ \A p \in gone : seen[p] # None
    /\ seen' = [p \in Places |-> IF p \in gone THEN None ELSE seen[p]]
    /\ turnCache' = Forgets
    /\ UNCHANGED <<outer, phase, call, wrote, calls>>

BeginTurn ==
    /\ phase = "idle" /\ turnCache' = Forgets
    /\ UNCHANGED <<outer, phase, call, seen, wrote, calls>>

SetMode(m) ==
    /\ changes < MaxChanges /\ m # mode
    /\ mode' = m /\ changes' = changes + 1
    /\ UNCHANGED <<rules, unsafe, phase, call, memory, calls>>

\* The rules file is read at every review.
EditRules(v) ==
    /\ changes < MaxChanges /\ v # rules
    /\ rules' = v /\ changes' = changes + 1
    /\ UNCHANGED <<mode, unsafe, phase, call, memory, calls>>

\* The file an edit is about changes, or another edit is meant.
OtherText ==
    /\ changes < MaxChanges
    /\ unsafe' = ~unsafe /\ changes' = changes + 1
    /\ UNCHANGED <<mode, rules, phase, call, memory, calls>>

Next ==
    \/ \E t \in Tools, p, q \in Places \cup {None}, refresh \in BOOLEAN : Propose(t, p, q, refresh)
    \/ \E yes \in BOOLEAN : Answer(yes)
    \/ Enter \/ AwaitRateLimit \/ Refuse \/ CheckUrl \/ RefuseShell \/ RefusePatch
    \/ PointToSeen \/ Execute
    \/ \E ok, large \in BOOLEAN : Finish(ok, large)
    \/ \E gone \in SUBSET Places : MakeRoom(gone)
    \/ BeginTurn
    \/ \E m \in Modes : SetMode(m)
    \/ \E v \in Verdicts : EditRules(v)
    \/ OtherText

Spec == Init /\ [][Next]_vars
-----------------------------------------------------------------------------
(* Properties. *)

\* What a tool can change: the places it names, or any place at all.
CanChange ==
    CASE call.tool \in {"edit", "move"} -> NamedPlaces
      [] call.tool = "update_plan" -> PlanFiles
      [] call.tool \in {"git_write", "shell", "mcp"} -> Places
      [] OTHER -> {}

\* A tool that runs can change nothing in ask mode, and only plans in plan
\* mode, the mode being the one the call entered the gateway in.
ModeHonoured ==
    [][Execute =>
        /\ call.mode = "ask" => CanChange = {}
        /\ call.mode = "plan" => CanChange \subseteq PlanFiles]_vars

\* A command runs only when the rules, as they are when it runs, allow it or
\* a human approved it: whatever happened to the rules since the approval.
\* Excepted is a command the rules denied when it was proposed.
ShellCleared ==
    [][Execute /\ call.tool = "shell" /\ call.shown # "deny" =>
        rules = "allow" \/ (rules = "ask" /\ call.human)]_vars

\* An edit that hides a problem is made only if a human was shown that it
\* does: an approval given to the same call when it was harmless is not enough.
OverrideWasShown ==
    [][Execute /\ Reviewed(call.tool) /\ unsafe => call.flagged /\ call.human]_vars

\* "Its result is still in your context" is true, and no tool has reported a
\* change of any file since.
CachedTrue == [][PointToSeen => seen[call.at] = wrote]_vars
================================================================================
