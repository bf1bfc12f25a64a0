---------------------------------- MODULE Cli ----------------------------------
(***************************************************************************)
(* The terminal client: a prompt that takes one command after the other,   *)
(* the orchestrator it drives, which /resume, /clear and a switch of model *)
(* replace by another one, and the interrupt key, which is answered at any *)
(* time.  What the prompt believes (mode, model, attachments, whether a    *)
(* turn runs) is kept beside what the orchestrator does, not derived from  *)
(* it.  Commands that only print are left out, and the store does not fail. *)
(***************************************************************************)
EXTENDS Naturals, Sequences

CONSTANTS
    Models,        \* models; the provider of a model is left out
    Commands,      \* shell commands
    RequireLogin,  \* INFLYNX_REQUIRE_LOGIN
    MaxSessions    \* bound: sessions ever created

CliModes == {"ask", "plan", "agent", "debug"}

VARIABLES
    at,            \* what the prompt is doing
    activeMode, activeModel, hasKey,  \* what the prompt believes
    orch,          \* the orchestrator: its session, mode and model
    stored,        \* the sessions of the store
    liveShells,    \* background shells of this orchestrator run
    strayShells,   \* background shells of orchestrators that were replaced run
    attached,       \* an attachment waits
    rode,          \* history: the attachment is in the turn that runs
    sessionApprovedCommands,
    asked,         \* the command an approval is asked for
    turnInFlight, interruptRequested,
    before,        \* previousMode, while a research turn runs
    drifted,       \* history: a research turn ended since the mode was set
    signedIn

vars == <<at, activeMode, activeModel, hasKey, orch, stored, liveShells, strayShells, attached, rode,
          sessionApprovedCommands, asked, turnInFlight, interruptRequested, before, drifted, signedIn>>
beliefs == <<activeMode, activeModel, hasKey, signedIn, drifted>>
shells == <<liveShells, strayShells>>
turn == <<turnInFlight, interruptRequested, rode, before>>
approvals == <<sessionApprovedCommands, asked>>

Init ==
    /\ at \in {"prompt", "headless"} /\ activeMode = "agent" /\ activeModel \in Models /\ hasKey \in BOOLEAN
    /\ stored = <<[mode |-> activeMode, model |-> activeModel]>>
    /\ orch = [id |-> 1, mode |-> activeMode, model |-> activeModel]
    /\ liveShells = FALSE /\ strayShells = FALSE /\ attached = FALSE /\ rode = FALSE
    /\ sessionApprovedCommands = {} /\ asked = {}
    /\ turnInFlight = FALSE /\ interruptRequested = FALSE
    /\ before = "none" /\ drifted = FALSE /\ signedIn \in BOOLEAN

-----------------------------------------------------------------------------
(* Commands that change what the prompt and the orchestrator agree on. *)

\* Mutant of Adopt: the mode of the prompt is not taken over.
AdoptModel(mode, model) == activeModel' = model /\ UNCHANGED <<activeMode, drifted>>

\* What a replaced orchestrator is, the prompt takes for its own.
Adopt(mode, model) == activeMode' = mode /\ activeModel' = model /\ drifted' = FALSE

\* /mode.
SetMode(m) ==
    /\ at = "prompt" /\ activeMode' = m /\ drifted' = FALSE
    /\ orch' = [orch EXCEPT !.mode = m]
    /\ UNCHANGED <<at, activeModel, hasKey, signedIn, stored, shells, attached, turn, approvals>>

\* Another orchestrator takes the place of this one: nothing of this one is
\* shut down, and its shells go on.
Replace(id, mode, model) ==
    /\ orch' = [id |-> id, mode |-> mode, model |-> model]
    /\ strayShells' = (strayShells \/ liveShells) /\ liveShells' = FALSE

NewSession(mode, model) ==
    /\ Len(stored) < MaxSessions
    /\ stored' = Append(stored, [mode |-> mode, model |-> model])
    /\ Replace(Len(stored) + 1, mode, model)

\* /resume: the mode is the one the session was created in.  Without a key
\* for its provider it is refused; the key the prompt holds is not replaced
\* when the provider is a custom one.
Resume(s) ==
    /\ at = "prompt" /\ s \in 1..Len(stored)
    /\ Replace(s, stored[s].mode, stored[s].model)
    /\ Adopt(stored[s].mode, stored[s].model)
    /\ hasKey' \in {TRUE, hasKey}
    /\ UNCHANGED <<at, signedIn, stored, attached, turn, approvals>>

\* /clear: a new session with what the prompt believes.
Clear ==
    /\ at = "prompt" /\ NewSession(activeMode, activeModel)
    /\ Adopt(activeMode, activeModel)
    /\ UNCHANGED <<at, hasKey, signedIn, attached, turn, approvals>>

\* /model, /provider, /credentials use and add: the orchestrator creates its
\* successor, in its own mode, or stays when the model is the same.
Switch(m) ==
    /\ at = "prompt"
    /\ IF m = orch.model THEN UNCHANGED <<orch, stored, shells>> ELSE NewSession(orch.mode, m)
    /\ activeModel' = m /\ hasKey' = TRUE
    /\ UNCHANGED <<at, activeMode, drifted, signedIn, attached, turn, approvals>>

\* /credentials remove: the key of the environment, if there is one.
RemoveProfile ==
    /\ at = "prompt" /\ hasKey /\ hasKey' = FALSE
    /\ UNCHANGED <<at, activeMode, activeModel, drifted, signedIn, orch, stored, shells, attached, turn, approvals>>

\* /attach of a file the fences allow.
Attach ==
    /\ at = "prompt" /\ ~attached /\ attached' = TRUE
    /\ UNCHANGED <<at, beliefs, orch, stored, shells, turn, approvals>>

\* /login and /logout.
Sign ==
    /\ at = "prompt" /\ signedIn' = ~signedIn
    /\ UNCHANGED <<at, activeMode, activeModel, hasKey, drifted, orch, stored, shells, attached, turn, approvals>>

-----------------------------------------------------------------------------
(* A turn. *)

\* A prompt; or /debug, /plan or /execute-plan with a task, which set the
\* mode first.  Without a key nothing is consumed.
ModeFor(how) == CASE how = "debug" -> "debug" [] how = "plan" -> "plan"
                  [] how = "execute-plan" -> "agent" [] OTHER -> activeMode

EntersMode(how) ==
    IF how = "prompt" THEN UNCHANGED <<activeMode, drifted, orch>>
    ELSE /\ activeMode' = ModeFor(how) /\ drifted' = FALSE
         /\ orch' = [orch EXCEPT !.mode = ModeFor(how)]

NoKey(how) ==
    /\ at = "prompt" /\ ~hasKey /\ EntersMode(how)
    /\ UNCHANGED <<at, activeModel, hasKey, signedIn, stored, shells, attached, turn, approvals>>

\* Mutant of TakesAttached: the queue is not emptied.
CopiesAttached == rode' = attached /\ UNCHANGED attached

\* The attachments leave the queue for the turn.
TakesAttached == rode' = attached /\ attached' = FALSE

\* The queue is emptied before the login is asked for.
NotSignedIn(how) ==
    /\ at = "prompt" /\ hasKey /\ RequireLogin /\ ~signedIn
    /\ EntersMode(how) /\ attached' = FALSE
    /\ UNCHANGED <<at, activeModel, hasKey, signedIn, stored, shells, turn, approvals>>

BeginTurn(how) ==
    /\ at = "prompt" /\ hasKey /\ (RequireLogin => signedIn)
    /\ EntersMode(how) /\ TakesAttached
    /\ at' = "turn" /\ turnInFlight' = TRUE /\ interruptRequested' = FALSE
    /\ UNCHANGED <<activeModel, hasKey, signedIn, stored, shells, before, approvals>>

\* /mcp add, "research": a turn in ask mode, outside the loop's own turns.
Research ==
    /\ at = "prompt" /\ at' = "research"
    /\ before' = activeMode /\ activeMode' = "ask"
    /\ orch' = [orch EXCEPT !.mode = "ask"]
    /\ UNCHANGED <<activeModel, hasKey, signedIn, drifted, stored, shells, attached, rode,
                   turnInFlight, interruptRequested, approvals>>

\* The orchestrator gets its mode back; activeMode keeps "ask".
ResearchEnds ==
    /\ at = "research" /\ at' = "prompt"
    /\ orch' = [orch EXCEPT !.mode = before] /\ before' = "none" /\ drifted' = TRUE
    /\ UNCHANGED <<activeMode, activeModel, hasKey, signedIn, stored, shells, attached, rode,
                   turnInFlight, interruptRequested, approvals>>

\* The turn looks at its signal between two calls.
Goes == ~interruptRequested

\* A command of the turn: no question if it was allowed for the session.
AskApproval(c) ==
    /\ at = "turn" /\ Goes
    /\ c \notin sessionApprovedCommands
    /\ at' = "asking" /\ asked' = {c}
    /\ UNCHANGED <<beliefs, orch, stored, shells, attached, turn, sessionApprovedCommands>>

\* "session", "once", "deny", or the prompt was closed.
Answer(choice) ==
    /\ at = "asking" /\ at' = "turn" /\ asked' = {}
    /\ sessionApprovedCommands' =
         IF choice = "session" THEN sessionApprovedCommands \cup asked ELSE sessionApprovedCommands
    /\ liveShells' \in IF choice = "deny" THEN {liveShells} ELSE {liveShells, TRUE}
    /\ UNCHANGED <<beliefs, orch, stored, strayShells, attached, turn>>

\* A command allowed before, in the background.
RunAllowed ==
    /\ at = "turn" /\ sessionApprovedCommands # {} /\ Goes /\ liveShells' = TRUE
    /\ UNCHANGED <<at, beliefs, orch, stored, strayShells, attached, turn, approvals>>

TurnEnds ==
    /\ at = "turn" /\ at' = "prompt" /\ turnInFlight' = FALSE /\ rode' = FALSE
    /\ UNCHANGED <<beliefs, orch, stored, shells, attached, interruptRequested, before, approvals>>

-----------------------------------------------------------------------------
(* The ways out. *)

\* Mutant of Reaped: nothing is stopped.
ReapedNone == UNCHANGED liveShells

\* exitInflynx shuts down the orchestrator of now.
Reaped == liveShells' = FALSE

ExitInflynx ==
    /\ at' = "gone" /\ Reaped
    /\ UNCHANGED <<beliefs, orch, stored, strayShells, attached, turn, approvals>>

\* /exit; with shells running it asks first.
Exit == at = "prompt" /\ ExitInflynx

\* An interrupt between turns, or the second one in a turn, exits.
Sigint ==
    /\ at \in {"prompt", "turn", "research", "headless"} /\ (~turnInFlight \/ interruptRequested)
    /\ ExitInflynx

\* One turn without a prompt (-p): its interrupt is the one between turns.
HeadlessTurn ==
    /\ at = "headless" /\ ~liveShells /\ liveShells' = TRUE
    /\ UNCHANGED <<at, beliefs, orch, stored, strayShells, attached, turn, approvals>>

HeadlessEnds == at = "headless" /\ ExitInflynx

\* The first one in a turn aborts the turn.
Interrupt ==
    /\ at = "turn" /\ turnInFlight /\ ~interruptRequested
    /\ interruptRequested' = TRUE
    /\ UNCHANGED <<at, beliefs, orch, stored, shells, attached, rode, turnInFlight, before, approvals>>

Kinds == {"prompt", "debug", "plan", "execute-plan"}

Next ==
    \/ \E m \in CliModes : SetMode(m)
    \/ \E s \in 1..MaxSessions : Resume(s)
    \/ \E m \in Models : Switch(m)
    \/ \E how \in Kinds : NoKey(how) \/ NotSignedIn(how) \/ BeginTurn(how)
    \/ \E c \in Commands : AskApproval(c)
    \/ \E choice \in {"once", "session", "deny"} : Answer(choice)
    \/ Clear \/ RemoveProfile \/ Attach \/ Sign \/ Research \/ ResearchEnds
    \/ RunAllowed \/ TurnEnds \/ HeadlessTurn \/ HeadlessEnds \/ Exit \/ Sigint \/ Interrupt

Spec == Init /\ [][Next]_vars
-----------------------------------------------------------------------------
(* Properties. *)

\* The badge at the prompt names the mode the gateway enforces and the model
\* that answers, whatever replaced the orchestrator; except for the mode
\* after a research turn, until the mode is set again.
PromptTellsTruth ==
    at = "prompt" =>
        /\ activeModel = orch.model
        /\ drifted \/ activeMode = orch.mode

\* An attachment leaves the queue into exactly one turn, or with a prompt
\* that was refused for want of a login.
AttachmentRidesOnce ==
    [][/\ attached /\ ~attached' => rode' \/ (RequireLogin /\ ~signedIn)
       /\ rode' => ~attached']_vars

\* The shells of the session that is open do not outlive the program.
OpenSessionReaped == at = "gone" => ~liveShells

\* One exit path, so that no background shell survives a way out.
NoShellSurvives == at = "gone" => ~liveShells /\ ~strayShells
================================================================================
