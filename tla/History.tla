------------------------------- MODULE History -------------------------------
(***************************************************************************)
(* ExecutionContext.history, the messages the next request is made of, and *)
(* everything AgentOrchestrator does to their order: prompts, replies and  *)
(* their tool results, images, the repair of an interrupted round, the     *)
(* compaction that folds an old slice into one summary, and the resume of  *)
(* a session from its stored transcript after the process died.            *)
(*                                                                         *)
(* Providers refuse a history in which a tool call is not followed by its  *)
(* results, or a result does not follow its call.  Of a message only its   *)
(* role, its calls, the call it answers and whether it is the task are     *)
(* kept; eviction rewrites the text of a message and is not visible here.  *)
(***************************************************************************)
EXTENDS Naturals, Sequences, SequencesExt, FiniteSetsExt

CONSTANTS
    Keep,       \* keepRecentMessages, at least 4
    FreshIds,   \* FALSE: the provider gives no ids, the adapter numbers calls
                \* within one reply (gemini)
    Images,     \* the tool results that may carry images: "any" of a round,
                \* or only its "last"
    MaxCalls,   \* bound: tool calls in a reply
    MaxReplies, \* bound: replies of the model
    MaxNotes,   \* bound: prompts and notes of the user
    MaxResumes  \* bound: crashes followed by a resume

VARIABLES
    history,  \* conversationHistory
    pc,       \* where the orchestrator is suspended
    todo,     \* calls of the reply not yet answered
    plan,     \* the CompactionPlan held across the summarizer's answer
    stored,   \* the transcript in the session store
    unsaved,  \* stubs of a repair still to be stored
    replies, notes, resumes  \* counters of the bounds

vars == <<history, pc, todo, plan, stored, unsaved, replies, notes, resumes>>

NoId == 0
Message == [role : {"system", "user", "assistant", "tool"},
            calls : Seq(Nat), answers : Nat, task : BOOLEAN]
NoPlan == [start |-> 0, end |-> 0]

System == [role |-> "system", calls |-> <<>>, answers |-> NoId, task |-> FALSE]
User(isTask) == [role |-> "user", calls |-> <<>>, answers |-> NoId, task |-> isTask]
Assistant(ids) == [role |-> "assistant", calls |-> ids, answers |-> NoId, task |-> FALSE]
Tool(id) == [role |-> "tool", calls |-> <<>>, answers |-> id, task |-> FALSE]

PC == {"idle", "loop", "room", "stream", "tools", "compact", "repair",
       "result"}

-----------------------------------------------------------------------------
(* ensureHistoryIntegrity. *)

Answered(h) == {h[i].answers : i \in {j \in DOMAIN h : h[j].role = "tool"}}

\* A call of message i that gets a stub: nothing answers it, and no earlier
\* message called by that id (its stub would answer it).
Unanswered(h, i, c) ==
    c \notin Answered(h) /\ \A j \in 1..(i - 1) : c \notin ToSet(h[j].calls)

\* The last of the tool results that follow message i.
RunEnd(h, i) ==
    CHOOSE k \in i..Len(h) :
        /\ \A j \in (i + 1)..k : h[j].role = "tool"
        /\ k = Len(h) \/ h[k + 1].role # "tool"

\* The stubs of message i.
StubsFor(h, i) ==
    FlattenSeq([n \in DOMAIN h[i].calls |->
        IF Unanswered(h, i, h[i].calls[n]) THEN <<Tool(h[i].calls[n])>> ELSE <<>>])

\* The stubs that go right after message k: those of the round it ends.
StubsAfter(h, k) ==
    LET round == {i \in 1..k : h[i].calls # <<>> /\ RunEnd(h, i) = k}
    IN IF round = {} THEN <<>> ELSE StubsFor(h, CHOOSE i \in round : TRUE)

EnsureIntegrity(h) ==
    FlattenSeq([k \in DOMAIN h |-> <<h[k]>> \o StubsAfter(h, k)])

\* The stubs it synthesized, for the caller to store.
Stubs(h) == FlattenSeq([k \in DOMAIN h |-> StubsAfter(h, k)])

-----------------------------------------------------------------------------
(* compactionPlan and applyCompaction.  A plan folds start+1..end. *)

\* The first request of the user, which stays, like all before it.
FirstUser(h) == Min({i \in DOMAIN h : h[i].role = "user"})

\* Mutant of FoldStart: the first request is folded into its own summary.
FoldStartAtTask(h) == FirstUser(h) - 1

FoldStart(h) == FirstUser(h)

\* Past the results of a call inside the fold ...
PushedEnd(h) ==
    LET e == Len(h) - Keep
    IN IF e <= FoldStart(h) THEN e ELSE RunEnd(h, e)

\* ... and back before a call whose results stay outside.
FoldEnd(h) ==
    LET e == PushedEnd(h)
        stop(k) == k <= FoldStart(h) + 1 \/ h[k].calls = <<>>
    IN IF e <= FoldStart(h) THEN e
       ELSE CHOOSE k \in 1..e : stop(k) /\ \A j \in (k + 1)..e : ~stop(j)

\* At least three messages; their weight in characters is left open.
MayFold(h) == Len(h) > Keep + 2 /\ FoldEnd(h) - FoldStart(h) >= 3

Folded(h, p) == SubSeq(h, 1, p.start) \o <<User(FALSE)>> \o SubSeq(h, p.end + 1, Len(h))

-----------------------------------------------------------------------------
Init ==
    /\ history = <<System>> /\ pc = "idle" /\ todo = <<>> /\ plan = NoPlan
    /\ stored = <<>> /\ unsaved = <<>>
    /\ replies = 0 /\ notes = 0 /\ resumes = 0

\* setSystemPrompt, for a session that has none yet.
WithSystem(h) == IF h # <<>> /\ h[1] = System THEN h ELSE <<System>> \o h

\* A message joins the history and the store.
Say(m) == history' = Append(history, m) /\ stored' = Append(stored, m)

\* The caller may set the system prompt; runTurn repairs and takes the
\* prompt.
Prompt ==
    /\ pc = "idle" /\ notes < MaxNotes
    /\ \E h \in {history, WithSystem(history)} :
         LET m == User(\A i \in DOMAIN h : ~h[i].task) IN
         /\ history' = Append(EnsureIntegrity(h), m)
         /\ stored' = stored \o Stubs(h) \o <<m>>
    /\ notes' = notes + 1
    /\ pc' = "loop"
    /\ UNCHANGED <<todo, plan, unsaved, replies, resumes>>

\* A note of the orchestrator at the prompt: what /undo took back.
Note ==
    /\ pc = "idle" /\ notes > 0 /\ notes < MaxNotes
    /\ history' = Append(history, User(FALSE))
    /\ notes' = notes + 1
    /\ UNCHANGED <<pc, todo, plan, stored, unsaved, replies, resumes>>

\* makeRoomInWindow before a request, /compact at the prompt: plan a fold
\* and wait for its summary.
PlanFold ==
    /\ \/ pc = "loop" /\ pc' = "room"
       \/ pc = "idle" /\ pc' = "compact"
    /\ MayFold(history)
    /\ plan' = [start |-> FoldStart(history), end |-> FoldEnd(history)]
    /\ UNCHANGED <<history, todo, stored, unsaved, replies, notes, resumes>>

\* The summary came, or there was none worth having.
Fold ==
    /\ \/ pc = "room" /\ pc' = "stream"
       \/ pc = "compact" /\ pc' = "idle"
    /\ \/ history' = Folded(history, plan)
       \/ UNCHANGED history
    /\ plan' = NoPlan
    /\ UNCHANGED <<todo, stored, unsaved, replies, notes, resumes>>

\* No room needed, or nothing to fold.
Send ==
    /\ pc = "loop" /\ replies < MaxReplies
    /\ pc' = "stream"
    /\ UNCHANGED <<history, todo, plan, stored, unsaved, replies, notes, resumes>>

\* The provider says the prompt is too long: make room and try again.
Overflow ==
    /\ pc = "stream"
    /\ pc' = "loop"
    /\ UNCHANGED <<history, todo, plan, stored, unsaved, replies, notes, resumes>>

\* The ids of n calls of a reply.
NewIds(n) == [i \in 1..n |-> IF FreshIds THEN replies * MaxCalls + i ELSE i]

Reply ==
    /\ pc = "stream" /\ replies < MaxReplies
    /\ replies' = replies + 1
    /\ \E n \in 1..MaxCalls : Say(Assistant(NewIds(n))) /\ todo' = NewIds(n)
    /\ pc' = "tools"
    /\ UNCHANGED <<plan, unsaved, notes, resumes>>

\* No calls: the turn ends, or (cut off, or sent back by the gate) a user
\* message that is not stored asks for more.
PlainReply ==
    /\ pc = "stream" /\ replies < MaxReplies
    /\ replies' = replies + 1
    /\ stored' = Append(stored, Assistant(<<>>))
    /\ \/ /\ history' = history \o <<Assistant(<<>>), User(FALSE)>>
          /\ pc' = "loop"
       \/ /\ history' = Append(history, Assistant(<<>>))
          /\ pc' = "repair"
    /\ UNCHANGED <<todo, plan, unsaved, notes, resumes>>

\* A result, or the refusal of a call.
ToolResult ==
    /\ pc = "tools" /\ todo # <<>>
    /\ Say(Tool(Head(todo)))
    /\ todo' = Tail(todo)
    /\ pc' = "result"
    /\ UNCHANGED <<plan, unsaved, replies, notes, resumes>>

\* The image of a result follows it as a user message.
Image ==
    /\ pc = "result" /\ (Images = "any" \/ todo = <<>>)
    /\ Say(User(FALSE))
    /\ pc' = "tools"
    /\ UNCHANGED <<todo, plan, unsaved, replies, notes, resumes>>

NoImage ==
    /\ pc = "result"
    /\ pc' = "tools"
    /\ UNCHANGED <<history, todo, plan, stored, unsaved, replies, notes, resumes>>

ToolsDone ==
    /\ pc = "tools" /\ todo = <<>>
    /\ pc' = "loop"
    /\ UNCHANGED <<history, todo, plan, stored, unsaved, replies, notes, resumes>>

\* An abort, a spent budget, an error.
LeaveLoop ==
    /\ pc \in {"loop", "stream", "tools"}
    /\ todo' = <<>>
    /\ pc' = "repair"
    /\ UNCHANGED <<history, plan, stored, unsaved, replies, notes, resumes>>

\* The repair at the end of every turn: in memory at once, then stub by
\* stub to the store.
Repair ==
    /\ pc = "repair" /\ unsaved = <<>>
    /\ history' = EnsureIntegrity(history)
    /\ unsaved' = Stubs(history)
    /\ pc' = IF unsaved' = <<>> THEN "idle" ELSE "repair"
    /\ UNCHANGED <<todo, plan, stored, replies, notes, resumes>>

SaveStub ==
    /\ pc = "repair" /\ unsaved # <<>>
    /\ stored' = Append(stored, Head(unsaved))
    /\ unsaved' = Tail(unsaved)
    /\ pc' = IF unsaved' = <<>> THEN "idle" ELSE "repair"
    /\ UNCHANGED <<history, todo, plan, replies, notes, resumes>>

\* The process dies; resumeSession reads the transcript back and repairs it
\* in memory.
CrashAndResume ==
    /\ resumes < MaxResumes /\ resumes' = resumes + 1
    /\ history' = EnsureIntegrity(stored)
    /\ pc' = "idle" /\ todo' = <<>> /\ plan' = NoPlan /\ unsaved' = <<>>
    /\ UNCHANGED <<stored, replies, notes>>

Next ==
    \/ Prompt \/ Note \/ PlanFold \/ Fold \/ Send \/ Overflow \/ Reply
    \/ PlainReply \/ ToolResult \/ Image \/ NoImage \/ ToolsDone
    \/ LeaveLoop \/ Repair \/ SaveStub \/ CrashAndResume

Spec == Init /\ [][Next]_vars
-----------------------------------------------------------------------------
(* Properties. *)

\* Every variable stays in its type, and a plan fits the history it is for.
TypeOK ==
    /\ history \in Seq(Message)
    /\ pc \in PC
    /\ todo \in Seq(Nat)
    /\ plan # NoPlan => plan.start + 3 <= plan.end /\ plan.end <= Len(history)
    /\ stored \in Seq(Message) /\ unsaved \in Seq(Message)
    /\ replies \in 0..MaxReplies /\ notes \in 0..MaxNotes
    /\ resumes \in 0..MaxResumes

\* Each call is followed at once by the results of its round, in order, and
\* each result belongs to such a round.
WellFormed(h) ==
    /\ \A i \in DOMAIN h : \A k \in DOMAIN h[i].calls :
         i + k <= Len(h) /\ h[i + k] = Tool(h[i].calls[k])
    /\ \A j \in DOMAIN h : h[j].role = "tool" =>
         \E i \in 1..(j - 1) : j - i \in DOMAIN h[i].calls

\* Whatever was aborted, repaired or folded, the provider gets a history it
\* accepts.
RequestWellFormed == pc = "stream" => WellFormed(history)

\* No sequence of compactions and resumes loses what the user asked for
\* first: it is still the first user message, with nothing but the system
\* prompt before it.
TaskStays ==
    pc # "idle" => history[IF history[1] = System THEN 2 ELSE 1].task

\* The repair is safe to call at the start and at the end of a turn.
RepairIdempotent ==
    EnsureIntegrity(EnsureIntegrity(history)) = EnsureIntegrity(history)

\* What ensureHistoryIntegrity says it does: between turns every call of
\* the assistant has a tool response.
CallsAnswered ==
    pc = "idle" => \A i \in DOMAIN history : \A k \in DOMAIN history[i].calls :
        \E j \in (i + 1)..Len(history) : history[j] = Tool(history[i].calls[k])
                /\ \A m \in (i + 1)..j : history[m].role # "assistant"
=============================================================================
