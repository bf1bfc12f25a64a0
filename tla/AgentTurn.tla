------------------------------ MODULE AgentTurn ------------------------------
(***************************************************************************)
(* One agentic turn of AgentOrchestrator.runTurn, turn after turn on one   *)
(* session: the model loop, tool execution under approval, the             *)
(* verification gate, the budget, cancellation, and what reaches the       *)
(* in-memory history and the session store.                                *)
(*                                                                         *)
(* "pc" names the await the turn is suspended at (or a point between two   *)
(* awaits; splitting there adds no behaviour, an abort at such a point     *)
(* being the same as one a moment earlier).  The user's abort, the wall    *)
(* clock and a crash of the process happen at any pc.                      *)
(*                                                                         *)
(* Of the transcript only its tool calls are kept.  A call is              *)
(* <<round, i>>: the i-th call of the model's reply in that round.         *)
(* ctxCalls/ctxResults are the calls and the tool results in the history   *)
(* sent to the model, stCalls/stResults those in the store.  The order of  *)
(* messages is the subject of module History.                              *)
(***************************************************************************)
EXTENDS Naturals, Sequences, StateMachine

CONSTANTS
    MaxModelTurns,        \* EffortProfile.maxModelTurns, a session's budget
    MaxToolCalls,         \* EffortProfile.maxToolCalls, likewise
    MaxVerificationRuns,  \* EffortProfile.maxVerificationRuns
    MaxTruncationRetries, \* MAX_TRUNCATION_RETRIES
    MaxRaises,            \* doublings left before the output ceiling
    MaxCalls,             \* bound: tool calls in one reply
    Kinds,                \* the kinds of tool call the model makes
    MaxPrompts,           \* bound: user turns
    MaxFaults,            \* bound: failing writes to the session store
    MaxResumes            \* bound: crashes followed by a resume

\* How the orchestrator treats a call: "read" is parallel-safe and approved
\* without asking; "edit" changes a source file and needs a human;
\* "shell_allow" is cleared by a shell rule and "shell_deny" is left to the
\* gateway to refuse, neither asking anybody.
AllKinds == {"read", "edit", "shell_allow", "shell_deny"}

ASSUME BoundsAssumption ==
    /\ MaxModelTurns \in Nat /\ MaxToolCalls \in Nat
    /\ MaxVerificationRuns \in Nat /\ MaxTruncationRetries \in Nat
    /\ MaxRaises \in Nat /\ MaxCalls \in Nat /\ MaxPrompts \in Nat
    /\ MaxFaults \in Nat /\ MaxResumes \in Nat
ASSUME KindsAssumption == Kinds \subseteq AllKinds

VARIABLES
    pc, machine, aborted,              \* control, lifecycle label, AbortSignal
    ctxCalls, ctxResults,              \* in ExecutionContext.history
    stCalls, stResults,                \* in the session store
    unsaved,                           \* synthesized results yet to be stored
    round, calls, truncated,           \* the reply being handled
    idx, batching,                     \* the call being handled; in a batch
    turns, toolCalls, raises, expired, \* BudgetManager and output ceiling
    truncRetries, overflowRetried, gateRounds,
    touched, report,                   \* source edited; verification verdict
    sessionFailed, completed, returned,\* session.failed sent; TurnResult
    refused, dirty, lateStarts,        \* history variables, see below
    prompts, faults, resumes           \* counters of the bounds

\* refused: some transition of this turn was refused.  dirty: a source file
\* was edited after the last gate run began.  lateStarts: tool executions of
\* this turn begun after its abort.
stored     == <<stCalls, stResults>>
transcript == <<ctxCalls, ctxResults, stored>>
reply      == <<round, calls, truncated, idx, batching>>
budget     == <<turns, toolCalls, raises, expired>>
retries    == <<truncRetries, overflowRetried, gateRounds>>
verdict    == <<touched, report, dirty, sessionFailed, completed, returned>>
bounds     == <<prompts, faults, resumes>>
allButPc   == <<machine, aborted, transcript, unsaved, reply, budget, retries,
                verdict, refused, lateStarts, bounds>>
vars == <<pc, allButPc>>

Reports == {"none", "passed", "failed", "no-gates-configured", "not-run",
            "cancelled"}

\* Waiting on the provider, a person, a tool, the gate or the store.
PC == {"idle", "repair_in", "save_prompt", "loop", "rate", "room", "stream",
       "save_assistant", "tools", "batch", "approval", "execute", "record",
       "save_result", "checks", "repair_out"}

CallId == Nat \X Nat

-----------------------------------------------------------------------------
(* What several handlers share. *)

\* BudgetManager.checkLimits; "expired" stands for the wall clock and the
\* reasoning-token ceiling.
Exhausted == turns >= MaxModelTurns \/ toolCalls >= MaxToolCalls \/ expired

\* AgentOrchestrator.transitionTo: apply when legal, report a refusal.
Transition(to) ==
    /\ machine' = TryTransition(machine, to)
    /\ refused' = (refused \/ ~Accepts(machine, to))

\* Mutants of SynthesizeResults: the rebuilt history is not kept; the
\* synthesized results are not handed to the store.
SynthesizeForStore ==
    /\ unsaved' = ctxCalls \ ctxResults
    /\ UNCHANGED <<ctxCalls, ctxResults>>
SynthesizeInMemory ==
    /\ ctxResults' = ctxResults \cup ctxCalls
    /\ UNCHANGED <<ctxCalls, unsaved>>

\* repairHistoryIntegrity up to its first await: every unanswered call gets
\* a synthesized result in memory, and those results are still to be stored.
SynthesizeResults ==
    /\ ctxResults' = ctxResults \cup ctxCalls
    /\ unsaved' = ctxCalls \ ctxResults
    /\ UNCHANGED ctxCalls

\* Out of an iteration of the model loop: the reply is no longer in scope.
DropReply == calls' = <<>> /\ truncated' = FALSE /\ idx' = 1 /\ batching' = FALSE

\* Leaving the model loop, on whichever path.
LeaveLoop == pc' = "repair_out" /\ SynthesizeResults /\ DropReply

\* A write to the session store that throws.
StoreFault == faults < MaxFaults /\ faults' = faults + 1

\* The calls of the current reply, and the one being handled.
ReplyCalls == {<<round, i>> : i \in DOMAIN calls}
Current == <<round, idx>>

\* A run of two or more parallel-safe reads starts at i.
Batched(i) == i < Len(calls) /\ calls[i] = "read" /\ calls[i + 1] = "read"

\* Mutant of MoreInBatch: the batch runs past the end of the reply.
BatchNeverEnds == batching

\* The batch goes on after the current call: runs are maximal.
MoreInBatch == batching /\ idx < Len(calls) /\ calls[idx + 1] = "read"

\* The turn's other locals, fresh at its start and gone at its end.
ResetLocals ==
    /\ truncRetries' = 0 /\ overflowRetried' = FALSE /\ gateRounds' = 0
    /\ lateStarts' = 0

Init ==
    /\ pc = "idle" /\ machine = "idle" /\ aborted = FALSE
    /\ ctxCalls = {} /\ ctxResults = {} /\ stCalls = {} /\ stResults = {}
    /\ unsaved = {} /\ round = 0 /\ calls = <<>> /\ truncated = FALSE
    /\ idx = 1 /\ batching = FALSE
    /\ turns = 0 /\ toolCalls = 0 /\ raises = 0 /\ expired = FALSE
    /\ truncRetries = 0 /\ overflowRetried = FALSE /\ gateRounds = 0
    /\ touched = FALSE /\ report = "none" /\ dirty = FALSE
    /\ sessionFailed = FALSE /\ completed = FALSE /\ returned = FALSE
    /\ refused = FALSE /\ lateStarts = 0
    /\ prompts = 0 /\ faults = 0 /\ resumes = 0

-----------------------------------------------------------------------------
(* The start of a turn. *)

\* A new cancellation generation, so an abort of an earlier turn is forgotten.
StartTurn ==
    /\ pc = "idle" /\ prompts < MaxPrompts
    /\ prompts' = prompts + 1
    /\ aborted' = FALSE
    /\ machine' = TryTransition(machine, "classifying")
    /\ refused' = ~Accepts(machine, "classifying")
    /\ SynthesizeResults
    /\ touched' = FALSE /\ report' = "none" /\ dirty' = FALSE
    /\ sessionFailed' = FALSE /\ completed' = FALSE /\ returned' = FALSE
    /\ ResetLocals
    /\ pc' = "repair_in"
    /\ UNCHANGED <<stored, reply, budget, faults, resumes>>

\* The repairs are stored one after the other, oldest first.
SaveRepair ==
    /\ pc \in {"repair_in", "repair_out"}
    /\ \E c \in unsaved :
         /\ \A d \in unsaved : c[1] < d[1] \/ (c[1] = d[1] /\ c[2] <= d[2])
         /\ stResults' = stResults \cup {c}
         /\ unsaved' = unsaved \ {c}
    /\ UNCHANGED <<pc, machine, aborted, ctxCalls, ctxResults, stCalls, reply,
                   budget, retries, verdict, refused, lateStarts, bounds>>

\* The user's message joins the history; then it is stored.
RepairedIn ==
    /\ pc = "repair_in" /\ unsaved = {}
    /\ pc' = "save_prompt"
    /\ UNCHANGED allButPc

PromptSaved ==
    /\ pc = "save_prompt"
    /\ Transition("exploring")
    /\ pc' = "loop"
    /\ UNCHANGED <<aborted, transcript, unsaved, reply, budget, retries,
                   verdict, lateStarts, bounds>>

\* Outside the loop nothing catches a failing store: runTurn rejects, and
\* the lifecycle label stays where it was.
TurnThrows ==
    /\ \/ pc \in {"repair_in", "repair_out"} /\ unsaved # {}
       \/ pc = "save_prompt"
    /\ StoreFault
    /\ pc' = "idle" /\ unsaved' = {}
    /\ ResetLocals
    /\ UNCHANGED <<machine, aborted, transcript, reply, budget, verdict,
                   refused, prompts, resumes>>

-----------------------------------------------------------------------------
(* The head of the model loop, and the request. *)

LoopAborted ==
    /\ pc = "loop" /\ aborted
    /\ LeaveLoop
    /\ UNCHANGED <<machine, aborted, stored, round, budget, retries, verdict, refused,
                   lateStarts, bounds>>

\* session.failed: the budget is gone, or the rate limiter still refuses
\* after the wait (which an abort cuts short).
SessionFails ==
    /\ \/ pc = "loop" /\ ~aborted /\ Exhausted
       \/ pc = "rate"
    /\ Transition("failed")
    /\ sessionFailed' = TRUE
    /\ LeaveLoop
    /\ UNCHANGED <<aborted, stored, round, budget, retries, touched, report, dirty,
                   completed, returned, lateStarts, bounds>>

AskRateLimiter ==
    /\ pc = "loop" /\ ~aborted /\ ~Exhausted
    /\ pc' = "rate"
    /\ UNCHANGED allButPc

RateAllows ==
    /\ pc = "rate"
    /\ pc' = "room"
    /\ UNCHANGED allButPc

\* makeRoomInWindow: a compaction folds whole rounds before some round away.
Fold ==
    \E kept \in 0..round :
        /\ ctxCalls' = {c \in ctxCalls : c[1] >= kept}
        /\ ctxResults' = {c \in ctxResults : c[1] >= kept}
        /\ UNCHANGED unsaved


\* recordTurn, and a number for the round's calls.
CountRequest == turns' = turns + 1 /\ round' = round + 1

SendRequest ==
    /\ pc = "room"
    /\ Fold /\ CountRequest
    /\ pc' = "stream"
    /\ UNCHANGED <<machine, aborted, stored, calls, truncated, idx, batching,
                   toolCalls, raises, expired, retries, verdict, refused,
                   lateStarts, bounds>>

-----------------------------------------------------------------------------
(* What the provider answers. *)

\* A finished stream.  A reply cut off at the output ceiling keeps none of
\* its tool calls.  The assistant message joins the history at once.
Reply ==
    /\ pc = "stream"
    /\ \E cut \in BOOLEAN, n \in 0..MaxCalls : \E cs \in [1..n -> Kinds] :
         /\ truncated' = cut
         /\ calls' = IF cut THEN <<>> ELSE cs
         /\ ctxCalls' = ctxCalls \cup {<<round, i>> : i \in DOMAIN calls'}
    /\ idx' = 1 /\ batching' = FALSE
    /\ pc' = "save_assistant"
    /\ UNCHANGED <<machine, aborted, ctxResults, stCalls, stResults, unsaved,
                   round, budget, retries, verdict, refused, lateStarts, bounds>>

\* turn.failed without an assistant message: a provider error or a cancelled
\* request thrown by the adapter, a filtered or failed generation, or the
\* telemetry write throwing.
RequestFails ==
    /\ pc = "stream"
    /\ LeaveLoop
    /\ \/ UNCHANGED faults
       \/ StoreFault
    /\ UNCHANGED <<machine, aborted, stored, round, budget, retries, verdict, refused,
                   lateStarts, prompts, resumes>>

\* The prompt outgrew the window: force room once per turn and send again,
\* unless nothing could be freed.
Overflow ==
    /\ pc = "stream" /\ ~overflowRetried
    /\ overflowRetried' = TRUE
    /\ \/ pc' = "loop" /\ Fold /\ DropReply
       \/ LeaveLoop
    /\ UNCHANGED <<machine, aborted, stored, round, budget, truncRetries, gateRounds,
                   verdict, refused, lateStarts, bounds>>

-----------------------------------------------------------------------------
(* After the assistant message is stored. *)

\* Mutant of AssistantStored: the message is stored without its calls.
AssistantTextStored == pc = "save_assistant" /\ UNCHANGED stCalls

AssistantStored ==
    /\ pc = "save_assistant"
    /\ stCalls' = stCalls \cup ReplyCalls

\* One more user message asks for the rest, with a larger output ceiling.
ContinueTruncated ==
    /\ AssistantStored /\ truncated
    /\ truncRetries < MaxTruncationRetries /\ raises < MaxRaises
    /\ truncRetries' = truncRetries + 1 /\ raises' = raises + 1
    /\ pc' = "loop" /\ DropReply
    /\ UNCHANGED <<machine, aborted, ctxCalls, ctxResults, stResults, unsaved,
                   round, turns, toolCalls, expired, overflowRetried,
                   gateRounds, verdict, refused, lateStarts, bounds>>

GiveUpTruncated ==
    /\ AssistantStored /\ truncated
    /\ truncRetries >= MaxTruncationRetries \/ raises >= MaxRaises
    /\ Transition("failed")
    /\ LeaveLoop
    /\ UNCHANGED <<aborted, stResults, round,
                   budget, retries, verdict, lateStarts, bounds>>

BeginTools ==
    /\ AssistantStored /\ ~truncated /\ calls # <<>>
    /\ Transition("implementing")
    /\ pc' = "tools"
    /\ UNCHANGED <<aborted, ctxCalls, ctxResults, stResults, unsaved, reply,
                   budget, retries, verdict, lateStarts, bounds>>

\* The model stopped calling tools and the gate does not run: nothing was
\* changed, the user interrupts, or the workspace declares no checks.
SkipGate ==
    /\ AssistantStored /\ ~truncated /\ calls = <<>>
    /\ report' = CASE ~touched -> report
                   [] touched /\ aborted -> "cancelled"
                   [] OTHER -> "no-gates-configured"
    /\ LeaveLoop
    /\ UNCHANGED <<machine, aborted, stResults, round, budget, retries, touched, dirty, sessionFailed,
                   completed, returned, refused, lateStarts, bounds>>

\* Mutant of BeginGate: it runs whether or not anything was changed.
BeginGateAnyhow ==
    /\ AssistantStored /\ ~truncated /\ calls = <<>>
    /\ ~aborted
    /\ Transition("verifying")
    /\ dirty' = FALSE
    /\ pc' = "checks"
    /\ UNCHANGED <<aborted, ctxCalls, ctxResults, stResults, unsaved, reply,
                   budget, retries, touched, report, sessionFailed, completed,
                   returned, lateStarts, bounds>>

BeginGate ==
    /\ AssistantStored /\ ~truncated /\ calls = <<>>
    /\ touched /\ ~aborted
    /\ Transition("verifying")
    /\ dirty' = FALSE
    /\ pc' = "checks"
    /\ UNCHANGED <<aborted, ctxCalls, ctxResults, stResults, unsaved, reply,
                   budget, retries, touched, report, sessionFailed, completed,
                   returned, lateStarts, bounds>>

-----------------------------------------------------------------------------
(* Tool calls, in the order of the reply. *)

RoundDone ==
    /\ pc = "tools" /\ idx > Len(calls)
    /\ pc' = "loop" /\ DropReply
    /\ UNCHANGED <<machine, aborted, transcript, unsaved, round, budget,
                   retries, verdict, refused, lateStarts, bounds>>

ToolsAborted ==
    /\ pc = "tools" /\ idx <= Len(calls) /\ aborted
    /\ LeaveLoop
    /\ UNCHANGED <<machine, aborted, stored, round, budget, retries, verdict, refused,
                   lateStarts, bounds>>

\* Where the next call goes: a run of reads is batched, an edit is asked for.
Dispatch == CASE Batched(idx) -> "batch"
              [] calls[idx] = "edit" -> "approval"
              [] OTHER -> "execute"

\* Mutant of ProposeTool: the loop over the calls does not look at the signal.
ProposeToolUnchecked ==
    /\ pc = "tools" /\ idx <= Len(calls)
    /\ pc' = Dispatch
    /\ UNCHANGED allButPc

ProposeTool ==
    /\ pc = "tools" /\ idx <= Len(calls) /\ ~aborted
    /\ pc' = Dispatch
    /\ UNCHANGED allButPc

\* No look at the signal between the approval and the execution.
Approve ==
    /\ pc = "approval"
    /\ pc' = "execute"
    /\ lateStarts' = IF aborted THEN lateStarts + 1 ELSE lateStarts
    /\ UNCHANGED <<machine, aborted, transcript, unsaved, reply, budget,
                   retries, verdict, refused, bounds>>

\* A person, the handler's timeout or the server's abort route says no.
Deny ==
    /\ pc = "approval"
    /\ ctxResults' = ctxResults \cup {Current}
    /\ batching' = FALSE
    /\ pc' = "save_result"
    /\ UNCHANGED <<machine, aborted, ctxCalls, stCalls, stResults, unsaved,
                   round, calls, truncated, idx, budget, retries, verdict,
                   refused, lateStarts, bounds>>

\* executeGuarded returns a result, an error result when it refuses.
ToolDone ==
    /\ pc = "execute"
    /\ toolCalls' = toolCalls + 1
    /\ \/ calls[idx] = "edit" /\ touched' = TRUE /\ dirty' = TRUE
       \/ UNCHANGED <<touched, dirty>>
    /\ batching' = FALSE
    /\ pc' = "record"
    /\ UNCHANGED <<machine, aborted, transcript, unsaved, round, calls,
                   truncated, idx, turns, raises, expired, retries, report,
                   sessionFailed, completed, returned, refused, lateStarts,
                   bounds>>

\* Promise.all settles; the results are then recorded in call order.
BatchDone ==
    /\ pc = "batch"
    /\ toolCalls' = toolCalls + 1
    /\ batching' = TRUE
    /\ pc' = "record"
    /\ UNCHANGED <<machine, aborted, transcript, unsaved, round, calls,
                   truncated, idx, turns, raises, expired, retries, verdict,
                   refused, lateStarts, bounds>>

\* saveToolExecution done: the tool message joins the history.
ExecutionRecorded ==
    /\ pc = "record"
    /\ ctxResults' = ctxResults \cup {Current}
    /\ pc' = "save_result"
    /\ UNCHANGED <<machine, aborted, ctxCalls, stCalls, stResults, unsaved,
                   reply, budget, retries, verdict, refused, lateStarts, bounds>>

\* saveMessage done: on to the batch's next result, or to the next call.
ResultSaved ==
    /\ pc = "save_result"
    /\ stResults' = stResults \cup {Current}
    /\ idx' = idx + 1
    /\ \/ MoreInBatch /\ pc' = "record" /\ toolCalls' = toolCalls + 1
       \/ ~MoreInBatch /\ pc' = "tools" /\ UNCHANGED toolCalls
    /\ UNCHANGED <<machine, aborted, ctxCalls, ctxResults, stCalls, unsaved,
                   round, calls, truncated, batching, turns, raises, expired,
                   retries, verdict, refused, lateStarts, bounds>>

\* The store throws inside the loop: turn.failed, and out of the loop.
SaveFails ==
    /\ pc \in {"save_assistant", "record", "save_result"}
    /\ StoreFault
    /\ LeaveLoop
    /\ UNCHANGED <<machine, aborted, stored, round, budget, retries, verdict, refused,
                   lateStarts, prompts, resumes>>

-----------------------------------------------------------------------------
(* The verification gate. *)

ChecksPass ==
    /\ pc = "checks"
    /\ report' = "passed"
    /\ LeaveLoop
    /\ UNCHANGED <<machine, aborted, stored, round, budget,
                   retries, touched, dirty, sessionFailed, completed, returned,
                   refused, lateStarts, bounds>>

ChecksFail ==
    /\ pc = "checks"
    /\ gateRounds >= MaxVerificationRuns \/ Exhausted \/ aborted
    /\ report' = "failed"
    /\ LeaveLoop
    /\ UNCHANGED <<machine, aborted, stored, round, budget,
                   retries, touched, dirty, sessionFailed, completed, returned,
                   refused, lateStarts, bounds>>

\* The failure goes back to the model as a user message.
Repair ==
    /\ pc = "checks"
    /\ gateRounds < MaxVerificationRuns /\ ~Exhausted /\ ~aborted
    /\ Transition("repairing")
    /\ gateRounds' = gateRounds + 1
    /\ pc' = "loop" /\ DropReply
    /\ UNCHANGED <<aborted, transcript, unsaved, round, budget, truncRetries,
                   overflowRetried, verdict, lateStarts, bounds>>

-----------------------------------------------------------------------------
(* The end of a turn. *)

\* Mutant of FinalReport: a turn that never reached the gate says nothing.
FinalReportAbsent == report

\* An edited file without a verdict is reported as not run.
FinalReport == IF touched /\ report = "none" THEN "not-run" ELSE report

\* The label moves to "completed" when it legally can.
Finish ==
    /\ pc = "repair_out" /\ unsaved = {}
    /\ report' = FinalReport
    /\ LET closing == IF machine \in {"implementing", "repairing"}
                      THEN TryTransition(machine, "verifying") ELSE machine
       IN /\ completed' = CanTransition(closing, "completed")
          /\ machine' = TryTransition(closing, "completed")
    /\ returned' = TRUE
    /\ pc' = "idle"
    /\ ResetLocals
    /\ UNCHANGED <<aborted, transcript, unsaved, reply, budget, touched, dirty,
                   sessionFailed, refused, bounds>>

-----------------------------------------------------------------------------
(* The environment of a turn. *)

\* abort(): the signal of the latest turn, and the label when it is legal.
Abort ==
    /\ ~aborted \/ CanTransition(machine, "cancelled")
    /\ aborted' = TRUE
    /\ machine' = TryTransition(machine, "cancelled")
    /\ UNCHANGED <<pc, transcript, unsaved, reply, budget, retries, verdict,
                   refused, lateStarts, bounds>>

\* The session's wall clock or reasoning budget runs out.
Expire ==
    /\ ~expired
    /\ expired' = TRUE
    /\ UNCHANGED <<pc, machine, aborted, transcript, unsaved, reply, turns,
                   toolCalls, raises, retries, verdict, refused, lateStarts,
                   bounds>>

\* The process dies, at any point, and the session is resumed from the store
\* by a new orchestrator with a fresh budget.  resumeSession synthesizes the
\* missing results in memory only.
CrashAndResume ==
    /\ resumes < MaxResumes /\ resumes' = resumes + 1
    /\ pc' = "idle" /\ machine' = "idle" /\ aborted' = FALSE
    /\ ctxCalls' = stCalls /\ ctxResults' = stResults \cup stCalls
    /\ unsaved' = {}
    /\ DropReply /\ ResetLocals
    /\ turns' = 0 /\ toolCalls' = 0 /\ raises' = 0 /\ expired' = FALSE
    /\ touched' = FALSE /\ report' = "none" /\ dirty' = FALSE
    /\ sessionFailed' = FALSE /\ completed' = FALSE /\ returned' = FALSE
    /\ refused' = FALSE
    /\ UNCHANGED <<stCalls, stResults, round, prompts, faults>>

-----------------------------------------------------------------------------
\* The steps a running turn takes once its await settles.
TurnStep ==
    \/ SaveRepair \/ RepairedIn \/ PromptSaved \/ TurnThrows
    \/ LoopAborted \/ SessionFails \/ AskRateLimiter \/ RateAllows
    \/ SendRequest \/ Reply \/ RequestFails \/ Overflow
    \/ ContinueTruncated \/ GiveUpTruncated \/ BeginTools
    \/ SkipGate \/ BeginGate
    \/ RoundDone \/ ToolsAborted \/ ProposeTool \/ Approve \/ Deny
    \/ ToolDone \/ BatchDone \/ ExecutionRecorded \/ ResultSaved \/ SaveFails
    \/ ChecksPass \/ ChecksFail \/ Repair \/ Finish

Next == StartTurn \/ TurnStep \/ Abort \/ Expire \/ CrashAndResume

Spec == Init /\ [][Next]_vars

\* The awaits that may never settle by themselves.  No adapter puts a timer on
\* its request or its stream, neither for a reply nor for the summary that
\* makeRoomInWindow asks for; only the signal ends them.  A prompt of the
\* terminal waits for a person, whom an abort does not answer for.
AwaitsProvider == pc \in {"room", "stream"} /\ ~aborted
AwaitsPerson == pc = "approval"

\* A page (fetch_url, web_search) or a sub-agent (delegate) that a tool reads:
\* neither has a timer, and neither is handed the turn's signal.
AwaitsOutside == pc = "execute" /\ calls[idx] = "read"

\* Every other await settles: the store and the limiter answer, a batch reads
\* the workspace, the other tools and the checks run under a timer, and an
\* aborted request is rejected.
MayHang == AwaitsProvider \/ AwaitsPerson \/ AwaitsOutside
Settles == TurnStep /\ ~MayHang

FairSpec == Spec /\ WF_vars(Settles)
-----------------------------------------------------------------------------
(* Properties. *)

\* Every variable stays in the range its code gives it.
TypeOK ==
    /\ pc \in PC /\ machine \in AgentState /\ aborted \in BOOLEAN
    /\ ctxCalls \in SUBSET CallId /\ ctxResults \in SUBSET CallId
    /\ stCalls \in SUBSET CallId /\ stResults \in SUBSET CallId
    /\ unsaved \in SUBSET CallId
    /\ round \in Nat /\ truncated \in BOOLEAN
    /\ calls \in Seq(Kinds) /\ Len(calls) <= MaxCalls
    /\ idx \in 1..(MaxCalls + 1) /\ batching \in BOOLEAN
    /\ turns \in Nat /\ toolCalls \in Nat /\ raises \in 0..MaxRaises
    /\ expired \in BOOLEAN
    /\ truncRetries \in 0..MaxTruncationRetries
    /\ overflowRetried \in BOOLEAN /\ gateRounds \in Nat
    /\ touched \in BOOLEAN /\ report \in Reports /\ dirty \in BOOLEAN
    /\ sessionFailed \in BOOLEAN /\ completed \in BOOLEAN
    /\ returned \in BOOLEAN /\ refused \in BOOLEAN /\ lateStarts \in Nat
    /\ prompts \in 0..MaxPrompts /\ faults \in 0..MaxFaults
    /\ resumes \in 0..MaxResumes

\* Whatever ended the previous turns - an abort between two calls, a store
\* that failed, a crash and a resume - no request carries a tool call
\* without its result (a provider answers such a request with a 400).
NoDanglingRequest == pc = "stream" => ctxCalls \subseteq ctxResults

\* As long as every write succeeds and the process lives, the stored
\* transcript is replayable between turns: each stored call has its stored
\* result, and no stored result lacks its call.
StoredTranscriptPaired ==
    pc = "idle" /\ faults = 0 /\ resumes = 0 => stCalls = stResults

\* As long as every write succeeds, wherever the process died, each tool
\* result in the history - a resumed one too - answers a call that is there.
NoOrphanResult == faults = 0 => ctxResults \subseteq ctxCalls

\* The budget holds across the turns of a session.  Limits are looked at
\* only between rounds, so one reply may overrun the tool-call ceiling.
BudgetBound ==
    /\ turns <= MaxModelTurns
    /\ toolCalls < MaxToolCalls + MaxCalls \/ toolCalls = 0
    /\ gateRounds <= MaxVerificationRuns

\* A "passed" verdict covers every edit of the turn: none came after the
\* gate run that gave it.
PassedIsCurrent == report = "passed" => touched /\ ~dirty

\* What a TurnResult claims: a turn that edited source says whether it was
\* verified, and a turn that announced session.failed is not "completed".
HonestResult ==
    returned => /\ touched => report # "none"
                /\ completed => machine = "completed"
                /\ sessionFailed => machine \in {"failed", "cancelled"}

\* After the user's abort at most one tool still starts: the call whose
\* approval was pending when the abort came.
AbortStopsTools == lateStarts <= 1

\* The table of legal transitions fits what a turn asks of it: without an
\* abort or a store failure no transition is refused.
NoSpuriousRefusal == refused => aborted \/ faults > 0

\* Once an abort has labelled a turn "cancelled", nothing the turn still does
\* after its opening moves (a late approval, a passing gate, the closing
\* moves) relabels it.
CancelledSticks ==
    [][(/\ machine = "cancelled" /\ resumes' = resumes
        /\ pc \notin {"idle", "repair_in", "save_prompt"})
         => machine' = "cancelled"]_vars

=============================================================================
