-------------------------- MODULE AgentTurnProofs --------------------------
(***************************************************************************)
(* Proofs about AgentTurn, for every value of its constants.               *)
(*                                                                         *)
(* The safety properties of AgentTurn are not inductive as they stand; the *)
(* invariants below strengthen them.  They build on each other:            *)
(*                                                                         *)
(*   Flags, Shape, Cursor   types, and where the cursor in the reply is    *)
(*   Answered               which calls still lack a result, phase by phase*)
(*   Spent                  how far the budget can be used up              *)
(*   Late                   what has started since the abort               *)
(*   Verdict                when a verification verdict exists             *)
(*   Labels, CleanLabels    the lifecycle label, phase by phase            *)
(*   Sound, Fresh, Pending  how history and store relate                   *)
(*                                                                         *)
(* Each has a lemma "...Step": the actions of Next preserve it.  Actions   *)
(* that disturb it in the same way share a step.                           *)
(***************************************************************************)
EXTENDS AgentTurn, TLAPS

\* The tuples of variables only abbreviate.
USE DEF vars, allButPc, transcript, stored, reply, budget, retries, verdict,
        bounds

-----------------------------------------------------------------------------
(* The invariants. *)

\* TypeOK in two halves: the provers handle Booleans and the rest apart.
Flags ==
    /\ aborted \in BOOLEAN /\ truncated \in BOOLEAN /\ batching \in BOOLEAN
    /\ expired \in BOOLEAN /\ overflowRetried \in BOOLEAN
    /\ touched \in BOOLEAN /\ dirty \in BOOLEAN
    /\ sessionFailed \in BOOLEAN /\ completed \in BOOLEAN
    /\ returned \in BOOLEAN /\ refused \in BOOLEAN

Shape ==
    /\ pc \in PC /\ machine \in AgentState
    /\ ctxCalls \in SUBSET CallId /\ ctxResults \in SUBSET CallId
    /\ stCalls \in SUBSET CallId /\ stResults \in SUBSET CallId
    /\ unsaved \in SUBSET CallId
    /\ round \in Nat /\ calls \in Seq(Kinds) /\ Len(calls) <= MaxCalls
    /\ idx \in 1..(MaxCalls + 1)
    /\ turns \in Nat /\ toolCalls \in Nat /\ raises \in 0..MaxRaises
    /\ truncRetries \in 0..MaxTruncationRetries /\ gateRounds \in Nat
    /\ report \in Reports /\ lateStarts \in Nat
    /\ prompts \in 0..MaxPrompts /\ faults \in 0..MaxFaults
    /\ resumes \in 0..MaxResumes

\* While calls are handled the cursor is inside the reply, just past it when
\* the round is over; a truncated reply has no calls.
Cursor ==
    /\ pc \in {"batch", "approval", "execute", "record", "save_result"}
         => idx \in 1..Len(calls)
    /\ pc = "tools" => idx \in 1..(Len(calls) + 1)
    /\ pc = "save_assistant" => idx = 1 /\ (truncated => Len(calls) = 0)

\* The phases of a round from the reply on, in which calls are still open.
OpenPhase == {"save_assistant", "tools", "batch", "approval", "execute",
              "record"}

\* A call in the history without a result belongs to the current reply and
\* is not yet dealt with.
Answered ==
    /\ pc \in OpenPhase
         => ctxCalls \ ctxResults \subseteq {<<round, i>> : i \in idx..Len(calls)}
    /\ pc = "save_result"
         => ctxCalls \ ctxResults
              \subseteq {<<round, i>> : i \in (idx + 1)..Len(calls)}
    /\ pc \notin OpenPhase \cup {"save_result"} => ctxCalls \subseteq ctxResults

\* How far the counters can be at each phase: the limits were looked at when
\* the round began, and each call since cost at most one.
Spent ==
    /\ turns <= MaxModelTurns
    /\ pc \in {"rate", "room"} => turns < MaxModelTurns
    /\ pc \in {"rate", "room", "stream", "save_assistant"}
         => toolCalls < MaxToolCalls
    /\ pc \in {"tools", "batch", "approval", "execute"}
         => toolCalls < MaxToolCalls + (idx - 1)
    /\ pc \in {"record", "save_result"} => toolCalls < MaxToolCalls + idx
    /\ toolCalls < MaxToolCalls + MaxCalls \/ toolCalls = 0
    /\ gateRounds <= MaxVerificationRuns

\* A late start spends the one approval that was pending.
Late ==
    /\ lateStarts <= 1
    /\ ~aborted \/ pc = "approval" => lateStarts = 0

\* A verdict ends the loop; while the checks run, nothing is edited.
Verdict ==
    /\ report # "none" => pc \in {"repair_out", "idle"}
    /\ pc = "checks" => touched /\ ~dirty
    /\ PassedIsCurrent

\* The labels a turn can have, phase by phase, whatever has failed before.
LoopLabels == {"exploring", "implementing", "repairing", "verifying",
               "cancelled"}
Labels ==
    /\ pc \in {"repair_in", "save_prompt"}
         => machine \in LoopLabels \cup {"classifying"}
    /\ pc \in PC \ {"idle", "repair_in", "save_prompt", "repair_out"}
         => machine \in LoopLabels
    /\ pc = "repair_out" => machine \in LoopLabels \cup {"failed"}
    /\ pc = "idle" => machine \in LoopLabels \cup {"idle", "classifying",
                                                   "completed", "failed"}
    /\ sessionFailed => /\ pc \in {"repair_out", "idle"}
                        /\ machine \in {"failed", "cancelled"}
    /\ completed => pc = "idle" /\ machine = "completed"
    /\ returned => pc = "idle" /\ (touched => report # "none")

\* The narrower labels of a session whose store has never failed.
CleanLabels ==
    faults = 0 =>
      /\ pc = "idle" => machine \in {"idle", "completed", "failed", "cancelled"}
      /\ pc \in {"repair_in", "save_prompt"} => machine = "classifying"
      /\ pc \in {"loop", "rate", "room", "stream", "save_assistant"}
           => \/ machine \in {"exploring", "implementing", "repairing"}
              \/ machine = "cancelled" /\ aborted
      /\ pc \in {"tools", "batch", "approval", "execute", "record",
                 "save_result"}
           => machine = "implementing" \/ (machine = "cancelled" /\ aborted)
      /\ pc = "checks"
           => machine = "verifying" \/ (machine = "cancelled" /\ aborted)
      /\ NoSpuriousRefusal

\* Where the calls and results of a session whose store has never failed are.
ToolPhase == {"tools", "batch", "approval", "execute", "record", "save_result"}
Sound ==
    faults = 0 =>
      /\ stResults \subseteq stCalls /\ unsaved \subseteq stCalls
      /\ ctxResults \subseteq ctxCalls
      /\ pc # "save_assistant" => ctxCalls \subseteq stCalls
      /\ pc = "save_assistant" => ctxCalls \subseteq stCalls \cup ReplyCalls
      /\ pc \in ToolPhase \cup {"save_assistant"} => ReplyCalls \subseteq ctxCalls

\* Rounds are numbered: what the session holds is no newer than its round,
\* and a request is newer than the history it carries.
Fresh ==
    /\ \A c \in ctxCalls \cup ctxResults \cup stCalls \cup stResults \cup unsaved :
         c[1] <= round
    /\ pc = "stream" => \A c \in ctxCalls \cup ctxResults : c[1] < round
    /\ pc = "save_assistant" => ReplyCalls \cap ctxResults = {}

\* A stored call lacking its stored result is on its way there.
Pending ==
    /\ pc \notin {"repair_in", "repair_out"} => unsaved = {}
    /\ faults = 0 /\ resumes = 0 =>
         stCalls \ stResults \subseteq
             unsaved \cup (ctxCalls \ ctxResults)
             \cup (IF pc = "save_result" THEN {Current} ELSE {})

-----------------------------------------------------------------------------
(* What the shared helpers leave behind. *)

LEMMA TypeParts == TypeOK <=> Flags /\ Shape
  BY Zenon DEF TypeOK, Flags, Shape

\* No operation of the state machine leaves the thirteen states.
LEMMA TryTransitionType ==
    ASSUME NEW s \in AgentState, NEW t \in AgentState
    PROVE  TryTransition(s, t) \in AgentState
  BY DEF TryTransition

LEMMA TransitionType ==
    ASSUME Shape, NEW to \in AgentState, Transition(to)
    PROVE  machine' \in AgentState
  BY TryTransitionType DEF Shape, Transition

LEMMA SynthesizeType ==
    ASSUME Shape, SynthesizeResults
    PROVE  /\ ctxCalls' \in SUBSET CallId /\ ctxResults' \in SUBSET CallId
           /\ unsaved' \in SUBSET CallId
  BY DEF Shape, SynthesizeResults

LEMMA DropReplyType ==
    ASSUME DropReply
    PROVE  calls' \in Seq(Kinds) /\ Len(calls') = 0 /\ idx' = 1
  BY SMT DEF DropReply

LEMMA LeaveLoopType ==
    ASSUME Shape, LeaveLoop
    PROVE  /\ pc' = "repair_out"
           /\ ctxCalls' \in SUBSET CallId /\ ctxResults' \in SUBSET CallId
           /\ unsaved' \in SUBSET CallId
           /\ calls' \in Seq(Kinds) /\ Len(calls') = 0 /\ idx' = 1
  BY SynthesizeType, DropReplyType DEF LeaveLoop

LEMMA ReplyCallsType == Shape => ReplyCalls \in SUBSET CallId
  BY DEF Shape, ReplyCalls, CallId

LEMMA DispatchTargets == Dispatch \in {"batch", "approval", "execute"}
<1>1. CASE Batched(idx)
  BY <1>1 DEF Dispatch
<1>2. CASE ~Batched(idx) /\ calls[idx] = "edit"
  BY <1>2 DEF Dispatch
<1>3. CASE ~Batched(idx) /\ calls[idx] # "edit"
  BY <1>3 DEF Dispatch
<1> QED
  BY <1>1, <1>2, <1>3

-----------------------------------------------------------------------------
(* Every action preserves every invariant. *)

\* The flags stay Booleans.
LEMMA FlagsStep ==
    Flags /\ [Next]_vars => Flags'
<1> SUFFICES ASSUME Flags, [Next]_vars PROVE Flags'
  OBVIOUS
<1> USE DEF Flags
<1>1. CASE StartTurn
  BY <1>1, Zenon DEF StartTurn, ResetLocals, Accepts, CanTransition
<1>2. CASE PromptSaved
  BY <1>2, Zenon DEF PromptSaved, Transition, Accepts
<1>3. CASE SessionFails
  BY <1>3, Zenon DEF SessionFails, Transition, Accepts, LeaveLoop,
     SynthesizeResults, DropReply
<1>4. CASE GiveUpTruncated
  BY <1>4, Zenon DEF GiveUpTruncated, AssistantStored, Transition, Accepts,
     LeaveLoop, SynthesizeResults, DropReply
<1>5. CASE BeginTools
  BY <1>5, Zenon DEF BeginTools, AssistantStored, Transition, Accepts
<1>6. CASE BeginGate
  BY <1>6, Zenon DEF BeginGate, AssistantStored, Transition, Accepts
<1>7. CASE Repair
  BY <1>7, Zenon DEF Repair, Transition, Accepts, DropReply
<1>8. CASE LoopAborted
  BY <1>8, Zenon DEF LoopAborted, LeaveLoop, SynthesizeResults, DropReply
<1>9. CASE RequestFails
  BY <1>9, Zenon DEF RequestFails, LeaveLoop, SynthesizeResults, DropReply
<1>10. CASE Overflow
  BY <1>10, Zenon DEF Overflow, LeaveLoop, SynthesizeResults, DropReply
<1>11. CASE SkipGate
  BY <1>11, Zenon DEF SkipGate, AssistantStored, LeaveLoop,
     SynthesizeResults, DropReply
<1>12. CASE ToolsAborted
  BY <1>12, Zenon DEF ToolsAborted, LeaveLoop, SynthesizeResults, DropReply
<1>13. CASE SaveFails
  BY <1>13, Zenon DEF SaveFails, LeaveLoop, SynthesizeResults, DropReply
<1>14. CASE ChecksPass
  BY <1>14, Zenon DEF ChecksPass, LeaveLoop, SynthesizeResults, DropReply
<1>15. CASE ChecksFail
  BY <1>15, Zenon DEF ChecksFail, LeaveLoop, SynthesizeResults, DropReply
<1>16. CASE Reply
  BY <1>16, Zenon DEF Reply
<1>17. CASE ContinueTruncated
  BY <1>17, Zenon DEF ContinueTruncated, AssistantStored, DropReply
<1>18. CASE RoundDone
  BY <1>18, Zenon DEF RoundDone, DropReply
<1>19. CASE Deny
  BY <1>19, Zenon DEF Deny
<1>20. CASE ToolDone
  BY <1>20, Zenon DEF ToolDone
<1>21. CASE BatchDone
  BY <1>21, Zenon DEF BatchDone
<1>22. CASE TurnThrows
  BY <1>22, Zenon DEF TurnThrows, ResetLocals
<1>23. CASE CrashAndResume
  BY <1>23, Zenon DEF CrashAndResume, DropReply, ResetLocals
<1>24. CASE Finish
  <2>1. PICK s : completed' = CanTransition(s, "completed")
    BY <1>24, Zenon DEF Finish
  <2>2. completed' \in BOOLEAN
    BY <2>1, SMT DEF CanTransition
  <2> QED
    BY <1>24, <2>2, Zenon DEF Finish, ResetLocals
<1>25. CASE SaveRepair
  BY <1>25, Zenon DEF SaveRepair
<1>26. CASE RepairedIn
  BY <1>26, Zenon DEF RepairedIn
<1>27. CASE AskRateLimiter
  BY <1>27, Zenon DEF AskRateLimiter
<1>28. CASE RateAllows
  BY <1>28, Zenon DEF RateAllows
<1>29. CASE SendRequest
  BY <1>29, Zenon DEF SendRequest
<1>30. CASE ProposeTool
  BY <1>30, Zenon DEF ProposeTool
<1>31. CASE Approve
  BY <1>31, Zenon DEF Approve
<1>32. CASE ExecutionRecorded
  BY <1>32, Zenon DEF ExecutionRecorded
<1>33. CASE ResultSaved
  BY <1>33, Zenon DEF ResultSaved
<1>34. CASE Abort
  BY <1>34, Zenon DEF Abort
<1>35. CASE Expire
  BY <1>35, Zenon DEF Expire
<1>36. CASE UNCHANGED vars
  BY <1>36
<1> QED
  BY <1>1, <1>2, <1>3, <1>4, <1>5, <1>6, <1>7, <1>8, <1>9, <1>10, <1>11,
     <1>12, <1>13, <1>14, <1>15, <1>16, <1>17, <1>18, <1>19, <1>20, <1>21,
     <1>22, <1>23, <1>24, <1>25, <1>26, <1>27, <1>28, <1>29, <1>30, <1>31,
     <1>32, <1>33, <1>34, <1>35, <1>36 DEF Next, TurnStep

\* The other variables stay in their ranges, and the cursor in the reply.
LEMMA ShapeStep ==
    Shape /\ Cursor /\ [Next]_vars => Shape' /\ Cursor'
<1> SUFFICES ASSUME Shape, Cursor, [Next]_vars PROVE Shape' /\ Cursor'
  OBVIOUS
<1> USE BoundsAssumption DEF Shape, Cursor, PC
<1>1. CASE StartTurn
  BY <1>1, TryTransitionType, SynthesizeType DEF StartTurn, ResetLocals,
     AgentState, Reports
<1>2. CASE SaveRepair
  BY <1>2 DEF SaveRepair
<1>3. CASE PromptSaved
  BY <1>3, TransitionType DEF PromptSaved, AgentState
<1>4. CASE TurnThrows
  BY <1>4 DEF TurnThrows, StoreFault, ResetLocals
<1>5. CASE LoopAborted
  BY <1>5, LeaveLoopType DEF LoopAborted
<1>6. CASE RequestFails
  BY <1>6, LeaveLoopType DEF RequestFails, StoreFault
<1>7. CASE ToolsAborted
  BY <1>7, LeaveLoopType DEF ToolsAborted
<1>8. CASE SaveFails
  BY <1>8, LeaveLoopType DEF SaveFails, StoreFault
<1>9. CASE SessionFails
  BY <1>9, TransitionType, LeaveLoopType DEF SessionFails, AgentState
<1>10. CASE GiveUpTruncated
  BY <1>10, TransitionType, LeaveLoopType, ReplyCallsType DEF
     GiveUpTruncated, AssistantStored, AgentState
<1>11. CASE SkipGate
  BY <1>11, LeaveLoopType, ReplyCallsType DEF SkipGate, AssistantStored,
     Reports
<1>12. CASE ChecksPass
  BY <1>12, LeaveLoopType DEF ChecksPass, Reports
<1>13. CASE ChecksFail
  BY <1>13, LeaveLoopType DEF ChecksFail, Reports
<1>14. CASE Overflow
  BY <1>14, LeaveLoopType, DropReplyType DEF Overflow, Fold
<1>15. CASE SendRequest
  BY <1>15 DEF SendRequest, Fold, CountRequest
<1>16. CASE Reply
  BY <1>16, SMTT(30) DEF Reply, CallId
<1>17. CASE ContinueTruncated
  BY <1>17, ReplyCallsType, DropReplyType DEF ContinueTruncated,
     AssistantStored
<1>18. CASE BeginTools
  BY <1>18, TransitionType, ReplyCallsType DEF BeginTools, AssistantStored,
     AgentState
<1>19. CASE BeginGate
  BY <1>19, TransitionType, ReplyCallsType DEF BeginGate, AssistantStored,
     AgentState
<1>20. CASE RoundDone
  BY <1>20, DropReplyType DEF RoundDone
<1>21. CASE Repair
  BY <1>21, TransitionType, DropReplyType DEF Repair, AgentState
<1>22. CASE ProposeTool
  BY <1>22, DispatchTargets DEF ProposeTool
<1>23. CASE Deny
  BY <1>23 DEF Deny, Current, CallId
<1>24. CASE ExecutionRecorded
  BY <1>24 DEF ExecutionRecorded, Current, CallId
<1>25. CASE ToolDone
  BY <1>25 DEF ToolDone
<1>26. CASE BatchDone
  BY <1>26 DEF BatchDone
<1>27. CASE ResultSaved
  BY <1>27, SMTT(30) DEF ResultSaved, Current, MoreInBatch, CallId
<1>28. CASE Finish
  BY <1>28, TryTransitionType DEF Finish, FinalReport, ResetLocals,
     AgentState, Reports
<1>29. CASE Abort
  BY <1>29, TryTransitionType DEF Abort, AgentState
<1>30. CASE CrashAndResume
  BY <1>30, DropReplyType DEF CrashAndResume, ResetLocals, AgentState,
     Reports
<1>31. CASE RepairedIn
  BY <1>31 DEF RepairedIn
<1>32. CASE AskRateLimiter
  BY <1>32 DEF AskRateLimiter
<1>33. CASE RateAllows
  BY <1>33 DEF RateAllows
<1>34. CASE Approve
  BY <1>34 DEF Approve
<1>35. CASE Expire
  BY <1>35 DEF Expire
<1>36. CASE UNCHANGED vars
  BY <1>36
<1> QED
  BY <1>1, <1>2, <1>3, <1>4, <1>5, <1>6, <1>7, <1>8, <1>9, <1>10, <1>11,
     <1>12, <1>13, <1>14, <1>15, <1>16, <1>17, <1>18, <1>19, <1>20, <1>21,
     <1>22, <1>23, <1>24, <1>25, <1>26, <1>27, <1>28, <1>29, <1>30, <1>31,
     <1>32, <1>33, <1>34, <1>35, <1>36 DEF Next, TurnStep

\* Each handled call gets its result before the cursor moves on.
LEMMA AnsweredStep ==
    TypeOK /\ Cursor /\ Answered /\ [Next]_vars => Answered'
<1> SUFFICES ASSUME TypeOK, Cursor, Answered, [Next]_vars PROVE Answered'
  OBVIOUS
<1> USE DEF Answered, OpenPhase, TypeOK, Cursor, PC
<1>1. CASE StartTurn
  BY <1>1 DEF StartTurn, SynthesizeResults
<1>2. CASE CrashAndResume
  BY <1>2 DEF CrashAndResume
<1>3. CASE LoopAborted \/ SessionFails \/ RequestFails \/ GiveUpTruncated \/
        SkipGate \/ ToolsAborted \/ SaveFails \/ ChecksPass \/ ChecksFail
  BY <1>3 DEF LoopAborted, SessionFails, RequestFails, GiveUpTruncated,
     SkipGate, ToolsAborted, SaveFails, ChecksPass, ChecksFail, LeaveLoop,
     SynthesizeResults
<1>4. CASE SendRequest \/ Overflow
  BY <1>4 DEF SendRequest, Overflow, Fold, LeaveLoop, SynthesizeResults
<1>5. CASE Reply
  BY <1>5 DEF Reply
<1>6. CASE ContinueTruncated \/ BeginTools \/ BeginGate
  BY <1>6, SMTT(30) DEF ContinueTruncated, BeginTools, BeginGate, AssistantStored
<1>7. CASE RoundDone
  BY <1>7 DEF RoundDone
<1>8. CASE ProposeTool
  BY <1>8 DEF ProposeTool, Dispatch
<1>9. CASE Deny \/ ExecutionRecorded
  BY <1>9, SMTT(30) DEF Deny, ExecutionRecorded, Current
<1>10. CASE ResultSaved
  BY <1>10 DEF ResultSaved
<1>11. CASE SaveRepair \/ RepairedIn \/ PromptSaved \/ TurnThrows \/
        AskRateLimiter \/ RateAllows \/ Approve \/ ToolDone \/ BatchDone \/
        Repair \/ Finish \/ Abort \/ Expire
  BY <1>11 DEF SaveRepair, RepairedIn, PromptSaved, TurnThrows,
     AskRateLimiter, RateAllows, Approve, ToolDone, BatchDone, Repair,
     Finish, Abort, Expire
<1>12. CASE UNCHANGED vars
  BY <1>12
<1> QED
  BY <1>1, <1>2, <1>3, <1>4, <1>5, <1>6, <1>7, <1>8, <1>9, <1>10, <1>11,
     <1>12 DEF Next, TurnStep

\* A round starts within the limits and pays for its calls one by one.
LEMMA SpentStep ==
    TypeOK /\ Cursor /\ Spent /\ [Next]_vars => Spent'
<1> SUFFICES ASSUME TypeOK, Cursor, Spent, [Next]_vars PROVE Spent'
  OBVIOUS
<1> USE BoundsAssumption DEF Spent, TypeOK, Cursor, PC
<1>1. CASE StartTurn
  BY <1>1 DEF StartTurn, ResetLocals
<1>2. CASE TurnThrows
  BY <1>2 DEF TurnThrows, ResetLocals
<1>3. CASE Finish
  BY <1>3 DEF Finish, ResetLocals
<1>4. CASE CrashAndResume
  BY <1>4 DEF CrashAndResume, ResetLocals
<1>5. CASE LoopAborted \/ SessionFails \/ RequestFails \/ Overflow \/
        GiveUpTruncated \/ SkipGate \/ ToolsAborted \/ SaveFails \/
        ChecksPass \/ ChecksFail
  BY <1>5 DEF LoopAborted, SessionFails, RequestFails, Overflow,
     GiveUpTruncated, SkipGate, ToolsAborted, SaveFails, ChecksPass,
     ChecksFail, LeaveLoop
<1>6. CASE AskRateLimiter
  BY <1>6 DEF AskRateLimiter, Exhausted
<1>7. CASE SendRequest
  BY <1>7 DEF SendRequest, CountRequest
<1>8. CASE Reply
  BY <1>8 DEF Reply
<1>9. CASE ContinueTruncated \/ BeginTools \/ BeginGate
  BY <1>9, SMTT(30) DEF ContinueTruncated, BeginTools, BeginGate, AssistantStored
<1>10. CASE ProposeTool
  BY <1>10 DEF ProposeTool, Dispatch
<1>11. CASE Deny
  BY <1>11 DEF Deny
<1>12. CASE ToolDone
  BY <1>12 DEF ToolDone
<1>13. CASE BatchDone
  BY <1>13 DEF BatchDone
<1>14. CASE ExecutionRecorded
  BY <1>14 DEF ExecutionRecorded
<1>15. CASE ResultSaved
  BY <1>15 DEF ResultSaved, MoreInBatch
<1>16. CASE Repair
  BY <1>16 DEF Repair
<1>17. CASE SaveRepair \/ RepairedIn \/ PromptSaved \/ RateAllows \/
        RoundDone \/ Approve \/ Abort \/ Expire
  BY <1>17, ZenonT(30) DEF SaveRepair, RepairedIn, PromptSaved, RateAllows, RoundDone,
     Approve, Abort, Expire
<1>18. CASE UNCHANGED vars
  BY <1>18
<1> QED
  BY <1>1, <1>2, <1>3, <1>4, <1>5, <1>6, <1>7, <1>8, <1>9, <1>10, <1>11,
     <1>12, <1>13, <1>14, <1>15, <1>16, <1>17, <1>18 DEF Next, TurnStep

\* A late start uses up the approval that was pending.
LEMMA LateStep ==
    TypeOK /\ Late /\ [Next]_vars => Late'
<1> SUFFICES ASSUME TypeOK, Late, [Next]_vars PROVE Late'
  OBVIOUS
<1> USE DEF Late, TypeOK, PC
<1>1. CASE StartTurn \/ TurnThrows \/ Finish \/ CrashAndResume
  BY <1>1 DEF StartTurn, TurnThrows, Finish, CrashAndResume, ResetLocals
<1>2. CASE Approve
  BY <1>2 DEF Approve
<1>3. CASE ProposeTool
  BY <1>3 DEF ProposeTool, Dispatch
<1>4. CASE Abort
  BY <1>4 DEF Abort
<1>5. CASE LoopAborted \/ SessionFails \/ RequestFails \/ Overflow \/
        GiveUpTruncated \/ SkipGate \/ ToolsAborted \/ SaveFails \/
        ChecksPass \/ ChecksFail
  BY <1>5 DEF LoopAborted, SessionFails, RequestFails, Overflow,
     GiveUpTruncated, SkipGate, ToolsAborted, SaveFails, ChecksPass,
     ChecksFail, LeaveLoop
<1>6. CASE SaveRepair \/ RepairedIn \/ PromptSaved \/ AskRateLimiter \/
        RateAllows \/ SendRequest \/ Reply \/ ContinueTruncated \/ BeginTools
        \/ BeginGate \/ RoundDone \/ Deny \/ ToolDone \/ BatchDone \/
        ExecutionRecorded \/ ResultSaved \/ Repair \/ Expire
  BY <1>6 DEF SaveRepair, RepairedIn, PromptSaved, AskRateLimiter,
     RateAllows, SendRequest, Reply, ContinueTruncated, BeginTools,
     BeginGate, RoundDone, Deny, ToolDone, BatchDone, ExecutionRecorded,
     ResultSaved, Repair, Expire
<1>7. CASE UNCHANGED vars
  BY <1>7
<1> QED
  BY <1>1, <1>2, <1>3, <1>4, <1>5, <1>6, <1>7 DEF Next, TurnStep

\* Only the gate passes a turn, and it does so on its way out.
LEMMA VerdictStep ==
    TypeOK /\ Verdict /\ [Next]_vars => Verdict'
<1> SUFFICES ASSUME TypeOK, Verdict, [Next]_vars PROVE Verdict'
  OBVIOUS
<1> USE DEF Verdict, PassedIsCurrent, TypeOK, PC
<1>1. CASE StartTurn \/ TurnThrows \/ CrashAndResume
  BY <1>1 DEF StartTurn, TurnThrows, CrashAndResume
<1>2. CASE LoopAborted \/ SessionFails \/ RequestFails \/ Overflow \/
        GiveUpTruncated \/ SkipGate \/ ToolsAborted \/ SaveFails \/
        ChecksPass \/ ChecksFail
  BY <1>2 DEF LoopAborted, SessionFails, RequestFails, Overflow,
     GiveUpTruncated, SkipGate, ToolsAborted, SaveFails, ChecksPass,
     ChecksFail, LeaveLoop
<1>3. CASE BeginGate
  BY <1>3 DEF BeginGate, AssistantStored
<1>4. CASE ProposeTool
  BY <1>4 DEF ProposeTool, Dispatch
<1>5. CASE Finish
  BY <1>5 DEF Finish, FinalReport
<1>6. CASE ToolDone
  BY <1>6 DEF ToolDone
<1>7. CASE SaveRepair \/ RepairedIn \/ PromptSaved \/ AskRateLimiter \/
        RateAllows \/ SendRequest \/ Reply \/ ContinueTruncated \/ BeginTools
        \/ RoundDone \/ Approve \/ Deny \/ BatchDone \/ ExecutionRecorded \/
        ResultSaved \/ Repair \/ Abort \/ Expire
  BY <1>7 DEF SaveRepair, RepairedIn, PromptSaved, AskRateLimiter,
     RateAllows, SendRequest, Reply, ContinueTruncated, BeginTools,
     RoundDone, Approve, Deny, BatchDone, ExecutionRecorded, ResultSaved,
     Repair, Abort, Expire, AssistantStored
<1>8. CASE UNCHANGED vars
  BY <1>8
<1> QED
  BY <1>1, <1>2, <1>3, <1>4, <1>5, <1>6, <1>7, <1>8 DEF Next, TurnStep

\* Whatever failed before, a phase knows its labels.
LEMMA LabelsStep ==
    TypeOK /\ Verdict /\ Labels /\ [Next]_vars => Labels'
<1> SUFFICES ASSUME TypeOK, Verdict, Labels, [Next]_vars PROVE Labels'
  OBVIOUS
<1> USE DEF Labels, LoopLabels, TypeOK, PC, TryTransition, CanTransition,
      LegalTargets, Terminal, TerminalTargets, AgentState
<1>1. CASE StartTurn
  BY <1>1 DEF StartTurn
<1>2. CASE PromptSaved \/ BeginTools \/ BeginGate \/ Repair
  BY <1>2 DEF PromptSaved, BeginTools, BeginGate, Repair, Transition,
     AssistantStored
<1>3. CASE SessionFails
  BY <1>3 DEF SessionFails, Transition, LeaveLoop
<1>4. CASE GiveUpTruncated
  BY <1>4 DEF GiveUpTruncated, Transition, LeaveLoop, AssistantStored
<1>5. CASE LoopAborted \/ RequestFails \/ Overflow \/ SkipGate \/
        ToolsAborted \/ SaveFails \/ ChecksPass \/ ChecksFail
  BY <1>5 DEF LoopAborted, RequestFails, Overflow, SkipGate, ToolsAborted,
     SaveFails, ChecksPass, ChecksFail, LeaveLoop, AssistantStored
<1>6. CASE ProposeTool
  BY <1>6 DEF ProposeTool, Dispatch
<1>7. CASE Finish
  BY <1>7 DEF Finish, FinalReport
<1>8. CASE Abort
  BY <1>8 DEF Abort
<1>9. CASE TurnThrows \/ CrashAndResume
  BY <1>9 DEF TurnThrows, CrashAndResume
<1>10. CASE Reply
  BY <1>10 DEF Reply
<1>11. CASE ContinueTruncated
  BY <1>11 DEF ContinueTruncated, AssistantStored
<1>12. CASE ToolDone
  BY <1>12 DEF ToolDone
<1>13. CASE SaveRepair \/ RepairedIn \/ AskRateLimiter \/ RateAllows \/
        SendRequest \/ RoundDone \/ Approve \/ Deny \/ BatchDone \/
        ExecutionRecorded \/ ResultSaved \/ Expire
  BY <1>13 DEF SaveRepair, RepairedIn, AskRateLimiter, RateAllows,
     SendRequest, RoundDone, Approve, Deny, BatchDone, ExecutionRecorded,
     ResultSaved, Expire
<1>14. CASE UNCHANGED vars
  BY <1>14
<1> QED
  BY <1>1, <1>2, <1>3, <1>4, <1>5, <1>6, <1>7, <1>8, <1>9, <1>10, <1>11,
     <1>12, <1>13, <1>14 DEF Next, TurnStep

\* While the store works, every transition asked for is legal.
LEMMA CleanLabelsStep ==
    TypeOK /\ Labels /\ CleanLabels /\ [Next]_vars => CleanLabels'
<1> SUFFICES ASSUME TypeOK, Labels, CleanLabels, [Next]_vars PROVE CleanLabels'
  OBVIOUS
<1> USE DEF CleanLabels, NoSpuriousRefusal, Labels, LoopLabels, TypeOK, PC,
      TryTransition, Accepts, CanTransition, LegalTargets, Terminal,
      TerminalTargets, AgentState
<1>1. CASE StartTurn
  BY <1>1 DEF StartTurn
<1>2. CASE PromptSaved \/ BeginTools \/ BeginGate \/ Repair
  BY <1>2 DEF PromptSaved, BeginTools, BeginGate, Repair, Transition,
     AssistantStored
<1>3. CASE SessionFails \/ GiveUpTruncated
  BY <1>3 DEF SessionFails, GiveUpTruncated, Transition, LeaveLoop,
     AssistantStored
<1>4. CASE LoopAborted \/ RequestFails \/ Overflow \/ SkipGate \/
        ToolsAborted \/ SaveFails \/ ChecksPass \/ ChecksFail
  BY <1>4 DEF LoopAborted, RequestFails, Overflow, SkipGate, ToolsAborted,
     SaveFails, ChecksPass, ChecksFail, LeaveLoop, StoreFault
<1>5. CASE ProposeTool
  BY <1>5 DEF ProposeTool, Dispatch
<1>6. CASE Finish
  BY <1>6 DEF Finish
<1>7. CASE Abort
  BY <1>7 DEF Abort
<1>8. CASE TurnThrows \/ CrashAndResume
  BY <1>8 DEF TurnThrows, CrashAndResume, StoreFault
<1>9. CASE SaveRepair \/ RepairedIn \/ AskRateLimiter \/ RateAllows \/
        SendRequest \/ Reply \/ ContinueTruncated \/ RoundDone \/ Approve \/
        Deny \/ ToolDone \/ BatchDone \/ ExecutionRecorded \/ ResultSaved \/
        Expire
  BY <1>9, SMTT(30) DEF SaveRepair, RepairedIn, AskRateLimiter, RateAllows,
     SendRequest, Reply, ContinueTruncated, RoundDone, Approve, Deny,
     ToolDone, BatchDone, ExecutionRecorded, ResultSaved, Expire,
     AssistantStored
<1>10. CASE UNCHANGED vars
  BY <1>10
<1> QED
  BY <1>1, <1>2, <1>3, <1>4, <1>5, <1>6, <1>7, <1>8, <1>9, <1>10 DEF Next,
     TurnStep

\* Nothing but a failing store separates a result from its call.
LEMMA SoundStep ==
    TypeOK /\ Cursor /\ Sound /\ [Next]_vars => Sound'
<1> SUFFICES ASSUME TypeOK, Cursor, Sound, [Next]_vars PROVE Sound'
  OBVIOUS
<1> USE DEF Sound, ToolPhase, ReplyCalls, Current, TypeOK, Cursor, PC
<1>1. CASE StartTurn
  BY <1>1 DEF StartTurn, SynthesizeResults
<1>2. CASE TurnThrows \/ SaveFails
  BY <1>2 DEF TurnThrows, SaveFails, StoreFault
<1>3. CASE LoopAborted \/ SessionFails \/ ToolsAborted \/ ChecksPass \/
        ChecksFail
  BY <1>3 DEF LoopAborted, SessionFails, ToolsAborted, ChecksPass,
     ChecksFail, LeaveLoop, SynthesizeResults, DropReply
<1>4. CASE RequestFails
  BY <1>4 DEF RequestFails, LeaveLoop, SynthesizeResults, DropReply,
     StoreFault
<1>5. CASE GiveUpTruncated \/ SkipGate
  BY <1>5 DEF GiveUpTruncated, SkipGate, LeaveLoop, SynthesizeResults,
     DropReply, AssistantStored
<1>6. CASE SendRequest
  BY <1>6 DEF SendRequest, Fold
<1>7. CASE Overflow
  BY <1>7 DEF Overflow, Fold, LeaveLoop, SynthesizeResults, DropReply
<1>8. CASE Reply
  BY <1>8 DEF Reply
<1>9. CASE ContinueTruncated \/ BeginTools \/ BeginGate \/ RoundDone \/
        Repair
  BY <1>9 DEF ContinueTruncated, BeginTools, BeginGate, RoundDone, Repair,
     AssistantStored, DropReply
<1>10. CASE ProposeTool
  BY <1>10 DEF ProposeTool, Dispatch
<1>11. CASE Deny \/ ExecutionRecorded \/ ResultSaved
  BY <1>11 DEF Deny, ExecutionRecorded, ResultSaved
<1>12. CASE CrashAndResume
  BY <1>12 DEF CrashAndResume, DropReply
<1>13. CASE SaveRepair \/ RepairedIn \/ PromptSaved \/ AskRateLimiter \/
        RateAllows \/ Approve \/ ToolDone \/ BatchDone \/ Finish \/ Abort \/
        Expire
  BY <1>13, SMTT(30) DEF SaveRepair, RepairedIn, PromptSaved, AskRateLimiter,
     RateAllows, Approve, ToolDone, BatchDone, Finish, Abort, Expire
<1>14. CASE UNCHANGED vars
  BY <1>14
<1> QED
  BY <1>1, <1>2, <1>3, <1>4, <1>5, <1>6, <1>7, <1>8, <1>9, <1>10, <1>11,
     <1>12, <1>13, <1>14 DEF Next, TurnStep

\* No call or result is newer than the round.
LEMMA FreshStep ==
    TypeOK /\ Cursor /\ Fresh /\ [Next]_vars => Fresh'
<1> SUFFICES ASSUME TypeOK, Cursor, Fresh, [Next]_vars PROVE Fresh'
  OBVIOUS
<1> USE DEF Fresh, ReplyCalls, Current, TypeOK, Cursor, PC, CallId
<1>1. CASE StartTurn
  BY <1>1 DEF StartTurn, SynthesizeResults
<1>2. CASE SaveRepair
  BY <1>2 DEF SaveRepair
<1>3. CASE LoopAborted \/ SessionFails \/ RequestFails \/ ToolsAborted \/
        SaveFails \/ ChecksPass \/ ChecksFail
  BY <1>3 DEF LoopAborted, SessionFails, RequestFails, ToolsAborted,
     SaveFails, ChecksPass, ChecksFail, LeaveLoop, SynthesizeResults
<1>4. CASE GiveUpTruncated \/ SkipGate
  BY <1>4 DEF GiveUpTruncated, SkipGate, LeaveLoop, SynthesizeResults,
     AssistantStored
<1>5. CASE SendRequest
  BY <1>5, SMTT(30) DEF SendRequest, Fold, CountRequest
<1>6. CASE Overflow
  BY <1>6 DEF Overflow, Fold, LeaveLoop, SynthesizeResults
<1>7. CASE Reply
  BY <1>7 DEF Reply
<1>8. CASE ContinueTruncated \/ BeginTools \/ BeginGate
  BY <1>8 DEF ContinueTruncated, BeginTools, BeginGate, AssistantStored
<1>9. CASE ProposeTool
  BY <1>9 DEF ProposeTool, Dispatch
<1>10. CASE Deny \/ ExecutionRecorded \/ ResultSaved
  BY <1>10, SMTT(30) DEF Deny, ExecutionRecorded, ResultSaved
<1>11. CASE CrashAndResume
  BY <1>11 DEF CrashAndResume
<1>12. CASE RepairedIn \/ PromptSaved \/ TurnThrows \/ AskRateLimiter \/
        RateAllows \/ RoundDone \/ Approve \/ ToolDone \/ BatchDone \/ Repair
        \/ Finish \/ Abort \/ Expire
  BY <1>12 DEF RepairedIn, PromptSaved, TurnThrows, AskRateLimiter,
     RateAllows, RoundDone, Approve, ToolDone, BatchDone, Repair, Finish,
     Abort, Expire
<1>13. CASE UNCHANGED vars
  BY <1>13
<1> QED
  BY <1>1, <1>2, <1>3, <1>4, <1>5, <1>6, <1>7, <1>8, <1>9, <1>10, <1>11,
     <1>12, <1>13 DEF Next, TurnStep

\* A stored call waits for its result in memory or among the repairs.
LEMMA PendingStep ==
    TypeOK /\ Cursor /\ Answered /\ Sound /\ Fresh /\ Pending /\ [Next]_vars
      => Pending'
<1> SUFFICES ASSUME TypeOK, Cursor, Answered, Sound, Fresh, Pending, [Next]_vars PROVE Pending'
  OBVIOUS
<1> USE DEF Pending, Answered, OpenPhase, Sound, ToolPhase, Fresh,
      ReplyCalls, Current, TypeOK, Cursor, PC
<1>1. CASE StartTurn
  BY <1>1 DEF StartTurn, SynthesizeResults
<1>2. CASE SaveRepair
  BY <1>2 DEF SaveRepair
<1>3. CASE TurnThrows \/ SaveFails
  BY <1>3 DEF TurnThrows, SaveFails, StoreFault, LeaveLoop
<1>4. CASE LoopAborted \/ SessionFails \/ ToolsAborted \/ ChecksPass \/
        ChecksFail
  BY <1>4 DEF LoopAborted, SessionFails, ToolsAborted, ChecksPass,
     ChecksFail, LeaveLoop, SynthesizeResults, DropReply
<1>5. CASE RequestFails
  BY <1>5 DEF RequestFails, LeaveLoop, SynthesizeResults, DropReply,
     StoreFault
<1>6. CASE GiveUpTruncated \/ SkipGate
  BY <1>6 DEF GiveUpTruncated, SkipGate, LeaveLoop, SynthesizeResults,
     DropReply, AssistantStored
<1>7. CASE SendRequest
  BY <1>7 DEF SendRequest, Fold
<1>8. CASE Overflow
  BY <1>8 DEF Overflow, Fold, LeaveLoop, SynthesizeResults, DropReply
<1>9. CASE Reply
  BY <1>9 DEF Reply
<1>10. CASE ContinueTruncated \/ BeginTools \/ BeginGate \/ RoundDone \/
        Repair
  BY <1>10 DEF ContinueTruncated, BeginTools, BeginGate, RoundDone, Repair,
     AssistantStored, DropReply
<1>11. CASE ProposeTool
  BY <1>11 DEF ProposeTool, Dispatch
<1>12. CASE Deny
  BY <1>12 DEF Deny
<1>13. CASE ExecutionRecorded
  BY <1>13 DEF ExecutionRecorded
<1>14. CASE ResultSaved
  BY <1>14 DEF ResultSaved
<1>15. CASE CrashAndResume
  BY <1>15 DEF CrashAndResume, DropReply
<1>16. CASE RepairedIn \/ PromptSaved \/ AskRateLimiter \/ RateAllows \/
        Approve \/ ToolDone \/ BatchDone \/ Finish \/ Abort \/ Expire
  BY <1>16 DEF RepairedIn, PromptSaved, AskRateLimiter, RateAllows, Approve,
     ToolDone, BatchDone, Finish, Abort, Expire
<1>17. CASE UNCHANGED vars
  BY <1>17
<1> QED
  BY <1>1, <1>2, <1>3, <1>4, <1>5, <1>6, <1>7, <1>8, <1>9, <1>10, <1>11,
     <1>12, <1>13, <1>14, <1>15, <1>16, <1>17 DEF Next, TurnStep

-----------------------------------------------------------------------------
(* The invariants hold initially, hence always. *)

LEMMA InitInv ==
    Init => /\ Flags /\ Shape /\ Cursor /\ Answered /\ Spent /\ Late
            /\ Verdict /\ Labels /\ CleanLabels /\ Sound /\ Fresh /\ Pending
<1> SUFFICES ASSUME Init
             PROVE  /\ Flags /\ Shape /\ Cursor /\ Answered /\ Spent /\ Late
                    /\ Verdict /\ Labels /\ CleanLabels /\ Sound /\ Fresh
                    /\ Pending
  OBVIOUS
<1> USE BoundsAssumption DEF Init
<1>1. Flags
  BY Zenon DEF Flags
<1>2. Shape /\ Cursor
  BY DEF Shape, Cursor, PC, AgentState, Reports
<1>3. Answered /\ Spent /\ Late
  BY DEF Answered, OpenPhase, Spent, Late
<1>4. Verdict /\ Labels /\ CleanLabels
  BY DEF Verdict, PassedIsCurrent, Labels, LoopLabels, CleanLabels,
         NoSpuriousRefusal
<1>5. Sound /\ Fresh /\ Pending
  BY DEF Sound, ToolPhase, Fresh, Pending
<1> QED
  BY <1>1, <1>2, <1>3, <1>4, <1>5

\* AgentTurn's variables keep the types the code gives them, and the cursor
\* over a reply's calls (the "for" over pendingToolCalls) never leaves it.
THEOREM TypeCorrect == Spec => [](TypeOK /\ Cursor)
<1>1. Init => Flags /\ Shape /\ Cursor
  BY InitInv
<1>2. Flags /\ Shape /\ Cursor /\ [Next]_vars => Flags' /\ Shape' /\ Cursor'
  BY FlagsStep, ShapeStep
<1>3. Flags /\ Shape => TypeOK
  BY TypeParts
<1> QED
  BY <1>1, <1>2, <1>3, PTL DEF Spec

\* No request ever carries a tool call without its result, however earlier
\* turns ended: repairHistoryIntegrity and the loop leave none behind.
THEOREM NoDanglingRequestHolds == Spec => []NoDanglingRequest
<1>1. Init => Answered
  BY InitInv
<1>2. TypeOK /\ Cursor /\ Answered /\ [Next]_vars => Answered'
  BY AnsweredStep
<1>3. Answered => NoDanglingRequest
  BY DEF Answered, OpenPhase, NoDanglingRequest
<1> QED
  BY <1>1, <1>2, <1>3, TypeCorrect, PTL DEF Spec

\* checkLimits between rounds bounds model turns, tool calls (up to one
\* reply's overrun) and repair attempts over a whole session.
THEOREM BudgetBoundHolds == Spec => []BudgetBound
<1>1. Init => Spent
  BY InitInv
<1>2. TypeOK /\ Cursor /\ Spent /\ [Next]_vars => Spent'
  BY SpentStep
<1>3. Spent => BudgetBound
  BY DEF Spent, BudgetBound
<1> QED
  BY <1>1, <1>2, <1>3, TypeCorrect, PTL DEF Spec

\* After abort() at most the one call whose approval was pending starts.
THEOREM AbortStopsToolsHolds == Spec => []AbortStopsTools
<1>1. Init => Late
  BY InitInv
<1>2. TypeOK /\ Late /\ [Next]_vars => Late'
  BY LateStep
<1>3. Late => AbortStopsTools
  BY DEF Late, AbortStopsTools
<1> QED
  BY <1>1, <1>2, <1>3, TypeCorrect, PTL DEF Spec

LEMMA VerdictHolds == Spec => []Verdict
<1>1. Init => Verdict
  BY InitInv
<1>2. TypeOK /\ Verdict /\ [Next]_vars => Verdict'
  BY VerdictStep
<1> QED
  BY <1>1, <1>2, TypeCorrect, PTL DEF Spec

\* A turn reported as "passed" has no edit its gate did not see.
THEOREM PassedIsCurrentHolds == Spec => []PassedIsCurrent
<1>1. Verdict => PassedIsCurrent
  BY DEF Verdict
<1> QED
  BY <1>1, VerdictHolds, PTL

LEMMA LabelsHold == Spec => []Labels
<1>1. Init => Labels
  BY InitInv
<1>2. TypeOK /\ Verdict /\ Labels /\ [Next]_vars => Labels'
  BY LabelsStep
<1> QED
  BY <1>1, <1>2, TypeCorrect, VerdictHolds, PTL DEF Spec

\* What a TurnResult claims of verification and completion is true, also
\* after any number of store failures that left the label behind.
THEOREM HonestResultHolds == Spec => []HonestResult
<1>1. Labels => HonestResult
  BY DEF Labels, HonestResult
<1> QED
  BY <1>1, LabelsHold, PTL

\* The table of legal transitions is complete for what turns ask of it.
THEOREM NoSpuriousRefusalHolds == Spec => []NoSpuriousRefusal
<1>1. Init => CleanLabels /\ NoSpuriousRefusal
  BY InitInv DEF Init, NoSpuriousRefusal
<1>2. TypeOK /\ Labels /\ CleanLabels /\ [Next]_vars => CleanLabels'
  BY CleanLabelsStep
<1>3. TypeOK /\ CleanLabels => NoSpuriousRefusal
  BY DEF CleanLabels, NoSpuriousRefusal, TypeOK
<1> QED
  BY <1>1, <1>2, <1>3, TypeCorrect, LabelsHold, PTL DEF Spec

LEMMA SoundHolds == Spec => []Sound
<1>1. Init => Sound
  BY InitInv
<1>2. TypeOK /\ Cursor /\ Sound /\ [Next]_vars => Sound'
  BY SoundStep
<1> QED
  BY <1>1, <1>2, TypeCorrect, PTL DEF Spec

\* While the store works, a crash at any point and the resume that follows
\* leave no tool result without its call.
THEOREM NoOrphanResultHolds == Spec => []NoOrphanResult
<1>1. Sound => NoOrphanResult
  BY DEF Sound, NoOrphanResult
<1> QED
  BY <1>1, SoundHolds, PTL

\* While the store works and the process lives, the stored transcript is
\* replayable whenever no turn runs.
THEOREM StoredTranscriptPairedHolds == Spec => []StoredTranscriptPaired
<1>1. Init => Answered /\ Fresh /\ Pending
  BY InitInv
<1>2. TypeOK /\ Cursor /\ Answered /\ [Next]_vars => Answered'
  BY AnsweredStep
<1>3. TypeOK /\ Cursor /\ Fresh /\ [Next]_vars => Fresh'
  BY FreshStep
<1>4. TypeOK /\ Cursor /\ Answered /\ Sound /\ Fresh /\ Pending /\ [Next]_vars
        => Pending'
  BY PendingStep
<1>5. Answered /\ Sound /\ Pending => StoredTranscriptPaired
  BY DEF Answered, OpenPhase, Sound, Pending, StoredTranscriptPaired
<1> QED
  BY <1>1, <1>2, <1>3, <1>4, <1>5, TypeCorrect, SoundHolds, PTL DEF Spec

\* An interrupted turn stays "cancelled" whatever its last steps are.
THEOREM CancelledSticksHolds == Spec => CancelledSticks
<1> DEFINE Sticks ==
      (/\ machine = "cancelled" /\ resumes' = resumes
       /\ pc \notin {"idle", "repair_in", "save_prompt"})
        => machine' = "cancelled"
<1>1. TypeOK /\ [Next]_vars => Sticks
  <2> SUFFICES ASSUME TypeOK, [Next]_vars, machine = "cancelled",
                      resumes' = resumes,
                      pc \notin {"idle", "repair_in", "save_prompt"}
               PROVE  machine' = "cancelled"
    OBVIOUS
  <2> USE DEF TypeOK, TryTransition, CanTransition, LegalTargets, Terminal,
              TerminalTargets, AgentState
  <2>1. CASE StartTurn \/ PromptSaved \/ CrashAndResume
    BY <2>1 DEF StartTurn, PromptSaved, CrashAndResume
  <2>2. CASE SessionFails \/ GiveUpTruncated \/ BeginTools \/ BeginGate \/ Repair
    BY <2>2 DEF SessionFails, GiveUpTruncated, BeginTools, BeginGate, Repair,
                Transition
  <2>3. CASE Finish
    BY <2>3 DEF Finish
  <2>4. CASE Abort
    BY <2>4 DEF Abort
  <2>5. CASE \/ SaveRepair \/ RepairedIn \/ TurnThrows \/ LoopAborted
             \/ AskRateLimiter \/ RateAllows \/ SendRequest \/ Reply
             \/ RequestFails \/ Overflow \/ ContinueTruncated \/ SkipGate
             \/ RoundDone \/ ToolsAborted \/ ProposeTool \/ Approve \/ Deny
             \/ ToolDone \/ BatchDone \/ ExecutionRecorded \/ ResultSaved
             \/ SaveFails \/ ChecksPass \/ ChecksFail \/ Expire
    BY <2>5 DEF SaveRepair, RepairedIn, TurnThrows, LoopAborted,
                AskRateLimiter, RateAllows, SendRequest, Reply, RequestFails,
                Overflow, ContinueTruncated, SkipGate, RoundDone, ToolsAborted,
                ProposeTool, Approve, Deny, ToolDone, BatchDone,
                ExecutionRecorded, ResultSaved, SaveFails, ChecksPass,
                ChecksFail, Expire
  <2>6. CASE UNCHANGED vars
    BY <2>6
  <2> QED
    BY <2>1, <2>2, <2>3, <2>4, <2>5, <2>6 DEF Next, TurnStep
<1>2. TypeOK /\ [Next]_vars => [Sticks]_vars
  BY <1>1
<1> QED
  BY <1>2, TypeCorrect, PTL DEF Spec, CancelledSticks
=============================================================================
