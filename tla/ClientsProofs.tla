------------------------------ MODULE ClientsProofs ------------------------------
(***************************************************************************)
(* What the clients promise their user, for all sessions, calls, streams,  *)
(* models and processes.  The three clients share no state, so each has an *)
(* invariant of its own, and a step of another leaves it alone.            *)
(***************************************************************************)
EXTENDS MCClients, Integers, Sequences, TLAPS

Answers == {"approved", "denied"}

\* The user said so: to this call, to all of its session, or once for all.
Allowed(r) == r \in clicked \/ AutoApproveAll \/ \E q \in clicked : q[1] = r[1]

ChatShape ==
    /\ waiting \subseteq Chat!Requests /\ pending \subseteq Chat!Requests
    /\ toasts \subseteq Chat!Requests /\ dialog \in Chat!Requests \cup {None}
    /\ posted \subseteq Chat!Requests \X Answers
    /\ verdict \in [Chat!Requests -> Answers \cup {"none"}]
    /\ forgotten \subseteq Chat!Requests

\* An approval that is under way, or standing, is the user's.
Vouched ==
    /\ \A p \in posted : p[2] = "approved" => Allowed(p[1])
    /\ \A s \in always : \E q \in clicked : q[1] = s
    /\ Chat!ApprovedByUser

\* A request is asked once: what the registry has met is not asked again.
Met ==
    \A r \in Chat!Requests :
        r \in pending \cup forgotten \/ (\E p \in posted : p[1] = r)
            => r \in waiting \/ verdict[r] # "none"

\* A request that is pending has no answer yet, and one that was forgotten
\* gets none that approves.
Undecided ==
    \A r \in Chat!Requests :
        r \in pending \cup forgotten => verdict[r] # "approved" /\ <<r, "approved">> \notin posted

Apart == pending \cap forgotten = {}

ChatIInv == ChatShape /\ Vouched /\ Met /\ Undecided /\ Apart

-----------------------------------------------------------------------------
LEMMA ChatInit == Chat!Init => ChatIInv
  BY DEF Chat!Init, ChatIInv, ChatShape, Vouched, Met, Undecided, Apart, Chat!ApprovedByUser, Allowed

\* Nothing that counts for an approval changes, but what is on the screen.
LEMMA ChatElsewhere ==
  ASSUME ChatIInv, UNCHANGED <<waiting, verdict, pending, always, posted, clicked, forgotten>>,
         toasts' \subseteq toasts, dialog' \in {dialog, None}
  PROVE  ChatIInv'
  BY DEF ChatIInv, ChatShape, Vouched, Met, Undecided, Apart, Chat!ApprovedByUser, Allowed

LEMMA ChatAsk ==
  ASSUME ChatIInv, NEW r \in Chat!Requests, Chat!Ask(r)
  PROVE  ChatIInv'
<1> USE DEF ChatIInv
<1>1. /\ verdict[r] = "none" /\ r \notin waiting /\ waiting' = waiting \cup {r}
      /\ verdict' = verdict /\ always' = always /\ forgotten' = forgotten /\ clicked' = clicked
  BY DEF Chat!Ask, Chat!service, Chat!surface
<1>2. r \notin pending \cup forgotten
  BY <1>1 DEF Met
<1>3. CASE AutoApproveAll \/ r[1] \in always
  <2>1. posted' = posted \cup {<<r, "approved">>} /\ UNCHANGED <<pending, dialog, toasts>>
    BY <1>3 DEF Chat!Ask
  <2>2. ChatShape'
    BY <1>1, <2>1 DEF ChatShape, Answers
  <2>3. Allowed(r)
    BY <1>3 DEF Vouched, Allowed
  <2>4. Vouched'
    BY <1>1, <2>1, <2>3 DEF Vouched, Allowed, Chat!ApprovedByUser
  <2>5. Met' /\ Undecided' /\ Apart'
    BY <1>1, <1>2, <2>1 DEF Met, Undecided, Apart
  <2> QED BY <2>2, <2>4, <2>5
<1>4. CASE ~(AutoApproveAll \/ r[1] \in always)
  <2>1. /\ pending' = pending \cup {r} /\ posted' = posted
        /\ dialog' \in {r, dialog} /\ toasts' \in {toasts, toasts \cup {r}}
    BY <1>4 DEF Chat!Ask, Chat!Track, Chat!Prompt
  <2>2. ChatShape'
    BY <1>1, <2>1 DEF ChatShape
  <2>3. <<r, "approved">> \notin posted
    BY <1>1 DEF Met
  <2>4. Vouched' /\ Met' /\ Apart'
    BY <1>1, <1>2, <2>1 DEF Vouched, Allowed, Chat!ApprovedByUser, Met, Apart
  <2>5. Undecided'
    BY <1>1, <2>1, <2>3 DEF Undecided
  <2> QED BY <2>2, <2>4, <2>5
<1> QED BY <1>3, <1>4

\* An answer settles the request it is for, if that is pending.
LEMMA ChatSettle ==
  ASSUME ChatIInv, NEW r \in Chat!Requests, NEW choice \in Answers,
         Chat!Settle(r, choice), Chat!Said(r, choice),
         always' \in {always, IF choice = "approved" THEN always \cup {r[1]} ELSE always},
         UNCHANGED <<waiting, verdict>>, toasts' \subseteq toasts, dialog' \in {dialog, None}
  PROVE  ChatIInv'
<1> USE DEF ChatIInv
<1>1. clicked \subseteq clicked' /\ (choice = "approved" => r \in clicked')
  BY DEF Chat!Said, Answers
<1>2. /\ pending' = pending \ {r} /\ forgotten' = forgotten
      /\ posted' = posted \cup {<<q, choice>> : q \in pending \cap {r}}
  BY DEF Chat!Settle, Chat!Key
<1>3. ChatShape'
  BY <1>2 DEF ChatShape
<1>4. Vouched'
  BY <1>1, <1>2 DEF Vouched, Allowed, Chat!ApprovedByUser, ChatShape
<1>5. Met'
  BY <1>2 DEF Met
<1>6. Undecided' /\ Apart'
  BY <1>2 DEF Undecided, Apart
<1> QED BY <1>3, <1>4, <1>5, <1>6

LEMMA ChatDeliver ==
  ASSUME ChatIInv, NEW p \in posted, Chat!Deliver(p)
  PROVE  ChatIInv'
<1> USE DEF ChatIInv
<1>1. PICK r \in Chat!Requests, a \in Answers : p = <<r, a>>
  BY DEF ChatShape
<1>2. /\ posted' = posted \ {p} /\ dialog' \in {dialog, None}
      /\ UNCHANGED <<pending, always, forgotten, toasts, clicked>>
  BY DEF Chat!Deliver, Chat!ClosesDialog, Chat!user
<1>3. CASE r \in waiting
  <2>1. waiting' = waiting \ {r} /\ verdict' = [verdict EXCEPT ![r] = a]
    BY <1>1, <1>3 DEF Chat!Deliver
  <2>2. ChatShape'
    BY <1>2, <2>1 DEF ChatShape
  <2>3. /\ verdict'[r] = a
        /\ \A q \in Chat!Requests : q # r => verdict'[q] = verdict[q]
    BY <2>1 DEF ChatShape
  <2>4. a = "approved" => Allowed(r)
    BY <1>1 DEF Vouched
  <2>5. Vouched'
    BY <1>2, <2>3, <2>4 DEF Vouched, Allowed, Chat!ApprovedByUser
  <2>6. Met'
    BY <1>2, <2>1, <2>3 DEF Met, Answers
  <2>7. Undecided' /\ Apart'
    BY <1>1, <1>2, <2>3 DEF Undecided, Apart
  <2> QED BY <2>2, <2>5, <2>6, <2>7
<1>4. CASE r \notin waiting
  <2>1. UNCHANGED <<waiting, verdict>>
    BY <1>1, <1>4 DEF Chat!Deliver, Chat!server
  <2> QED BY <1>2, <2>1 DEF ChatShape, Vouched, Allowed, Chat!ApprovedByUser, Met, Undecided, Apart
<1> QED BY <1>3, <1>4

\* Requests are refused: because nobody answered, or with the turn they are of.
LEMMA ChatRefused ==
  ASSUME ChatIInv, NEW R \in SUBSET waiting,
         verdict' = [r \in Chat!Requests |-> IF r \in R THEN "denied" ELSE verdict[r]],
         waiting' = waiting \ R,
         UNCHANGED <<pending, always, posted, clicked, forgotten, toasts>>,
         dialog' \in {dialog, None}
  PROVE  ChatIInv'
<1> USE DEF ChatIInv
<1>1. ChatShape'
  BY DEF ChatShape, Answers
<1>2. Vouched' /\ Met' /\ Undecided' /\ Apart'
  BY DEF Vouched, Allowed, Chat!ApprovedByUser, Met, Undecided, Apart
<1> QED BY <1>1, <1>2

\* What was pending is dropped unanswered.
LEMMA ChatForget ==
  ASSUME ChatIInv, NEW R \in SUBSET pending,
         pending' = pending \ R, forgotten' = forgotten \cup R, always' \subseteq always,
         UNCHANGED <<waiting, verdict, posted, clicked, toasts>>,
         dialog' \in {dialog, None}
  PROVE  ChatIInv'
  BY DEF ChatIInv, ChatShape, Vouched, Allowed, Chat!ApprovedByUser, Met, Undecided, Apart

\* What the panel, the notifications or the streams do among themselves.
LEMMA ChatNext ==
  ASSUME ChatIInv, Chat!Next
  PROVE  ChatIInv'
<1> USE DEF Chat!server, Chat!registry, Chat!surface, Chat!busy, Chat!panel, Chat!service, Chat!user
<1>1. ASSUME NEW s \in Sessions, Chat!OpenSession(s)
      PROVE  ChatIInv'
  <2>1. dialog' \in {dialog, None} /\ UNCHANGED <<waiting, verdict, toasts, clicked>>
    BY <1>1 DEF Chat!OpenSession, Chat!ShowsSession, Chat!Shows
  <2>2. CASE UNCHANGED <<pending, always, posted, forgotten>>
    BY <2>1, <2>2, ChatElsewhere
  <2>3. CASE Chat!ForgetSession(current)
    <3> DEFINE R == {r \in pending : r[1] = current}
    <3>1. pending' = pending \ R /\ forgotten' = forgotten \cup R /\ UNCHANGED <<posted, always>>
      BY <2>3 DEF Chat!ForgetSession, Chat!Dropped
    <3> HIDE DEF R
    <3>2. R \in SUBSET pending
      BY DEF R
    <3> QED BY <2>1, <3>1, <3>2, ChatForget
  <2> QED BY <1>1, <2>2, <2>3 DEF Chat!OpenSession, Chat!TakesSession, Chat!LeavesFor
<1>2. ASSUME NEW t \in Chat!Turns, Chat!StreamEnds(t)
      PROVE  ChatIInv'
  BY <1>2, ChatElsewhere DEF Chat!StreamEnds, Chat!ShowsIdle, Chat!EndsSilently, Chat!Shows
<1>3. ASSUME NEW accepted \in BOOLEAN, Chat!SendPrompt(accepted) \/ Chat!SendPromptFromExtension(accepted)
      PROVE  ChatIInv'
  BY <1>3, ChatElsewhere DEF Chat!SendPrompt, Chat!SendPromptFromExtension, Chat!ShowsPrompt, Chat!Shows
<1>4. ASSUME NEW r \in Chat!Requests, Chat!TimeOut(r)
      PROVE  ChatIInv'
  <2>1. {r} \in SUBSET waiting /\ waiting' = waiting \ {r} /\ dialog' = dialog
    BY <1>4 DEF Chat!TimeOut
  <2>2. verdict' = [q \in Chat!Requests |-> IF q \in {r} THEN "denied" ELSE verdict[q]]
    BY <1>4 DEF Chat!TimeOut, ChatIInv, ChatShape
  <2> QED BY <1>4, <2>1, <2>2, ChatRefused DEF Chat!TimeOut
<1>5. ASSUME NEW choice \in {"approved", "denied"}, Chat!AnswerDialog(choice)
      PROVE  ChatIInv'
  <2>1. dialog \in Chat!Requests
    BY <1>5 DEF Chat!AnswerDialog, ChatIInv, ChatShape
  <2> QED BY <1>5, <2>1, ChatSettle DEF Chat!AnswerDialog, Answers
<1>6. ASSUME NEW choice \in {"approved", "denied"}, NEW r \in Chat!Requests, NEW forSession \in BOOLEAN,
             Chat!AnswerToast(r, choice, forSession)
      PROVE  ChatIInv'
  <2>1. always' \in {always, IF choice = "approved" THEN always \cup {r[1]} ELSE always}
    BY <1>6 DEF Chat!AnswerToast
  <2> QED BY <1>6, <2>1, ChatSettle DEF Chat!AnswerToast, Answers
<1>7. ASSUME NEW p \in posted, Chat!Lose(p)
      PROVE  ChatIInv'
  BY <1>7 DEF Chat!Lose, ChatIInv, ChatShape, Vouched, Allowed, Chat!ApprovedByUser, Met, Undecided, Apart
<1>8. CASE Chat!Abort
  <2>1. dialog' \in {dialog, None} /\ UNCHANGED <<pending, always, posted, forgotten, toasts, clicked>>
    BY <1>8 DEF Chat!Abort, Chat!ShowsIdle, Chat!Shows
  <2>2. CASE UNCHANGED <<waiting, verdict>>
    BY <2>1, <2>2, ChatElsewhere
  <2>3. CASE /\ verdict' = [r \in Chat!Requests |-> IF r \in waiting /\ r[1] = current THEN "denied" ELSE verdict[r]]
             /\ waiting' = {r \in waiting : r[1] # current}
    <3> DEFINE R == {r \in waiting : r[1] = current}
    <3>1. /\ R \in SUBSET waiting /\ waiting' = waiting \ R
          /\ verdict' = [r \in Chat!Requests |-> IF r \in R THEN "denied" ELSE verdict[r]]
      BY <2>3
    <3> HIDE DEF R
    <3> QED BY <2>1, <3>1, ChatRefused
  <2> QED BY <1>8, <2>2, <2>3 DEF Chat!Abort, Chat!AbortsTurn
<1>9. CASE Chat!ResolveView \/ Chat!Ready \/ Chat!Reload \/ Chat!Hide
  BY <1>9, ChatElsewhere DEF Chat!ResolveView, Chat!Ready, Chat!Reload, Chat!Hide
<1>10. CASE Chat!DisposeView
  <2>1. pending' = pending \ pending /\ forgotten' = forgotten \cup pending /\ always' \subseteq always
    BY <1>10 DEF Chat!DisposeView, Chat!ClearsSessionState
  <2> QED BY <1>10, <2>1, ChatForget DEF Chat!DisposeView
<1> QED
  BY <1>1, <1>2, <1>3, <1>4, <1>5, <1>6, <1>7, <1>8, <1>9, <1>10, ChatAsk, ChatDeliver DEF Chat!Next

THEOREM ChatStep == ChatIInv /\ (Chat!Next \/ UNCHANGED chatVars) => ChatIInv'
<1>1. ASSUME ChatIInv, UNCHANGED chatVars PROVE ChatIInv'
  BY <1>1, ChatElsewhere DEF chatVars
<1> QED BY <1>1, ChatNext

-----------------------------------------------------------------------------
(* The steps of the three. *)

LEMMA ClientStep ==
  ASSUME [Next]_<<client, terminalVars, chatVars, launcherVars>>
  PROVE  /\ Terminal!Next \/ UNCHANGED terminalVars
         /\ Chat!Next \/ UNCHANGED chatVars
         /\ Launcher!Next \/ UNCHANGED launcherVars
  BY DEF Next

\* A call is approved by the user's answer to that call or for its session,
\* and one that was left unanswered stays denied (approvalRegistry.ts,
\* approvalManager.ts).
THEOREM ApprovalsAreTheUsers == Spec => []AnswersAreTheUsers
<1>1. Init => ChatIInv
  BY ChatInit DEF Init
<1>2. ChatIInv /\ [Next]_<<client, terminalVars, chatVars, launcherVars>> => ChatIInv'
  BY ClientStep, ChatStep
<1>3. ChatIInv => AnswersAreTheUsers
  BY DEF ChatIInv, ChatShape, Vouched, Undecided, AnswersAreTheUsers, Chat!ForgottenStaysDenied
<1> QED BY <1>1, <1>2, <1>3, PTL DEF Spec

-----------------------------------------------------------------------------
(* The terminal. *)

Modes == Terminal!CliModes \cup {"none"}
Snapshots == [mode : Modes, model : Models]

CliShape ==
    /\ orch \in [id : Nat, mode : Modes, model : Models]
    /\ stored \in Seq(Snapshots)
    /\ activeMode \in Modes /\ before \in Modes
    /\ attached \in BOOLEAN /\ rode \in BOOLEAN

\* Outside a turn of research the mode is the one that was set last, unless
\* such a turn ended since; in one, both are its own.
Told == activeModel = orch.model /\ (drifted \/ activeMode = orch.mode)

\* What rides is not in the queue, and rides in a turn.
Rides == rode => ~attached /\ at \in {"turn", "asking", "gone"}

CliIInv == CliShape /\ Told /\ Rides /\ Terminal!OpenSessionReaped

LEMMA CliInit == Terminal!Init => CliIInv
<1> SUFFICES ASSUME Terminal!Init PROVE CliIInv
  OBVIOUS
<1>1. "agent" \in Modes /\ "none" \in Modes
  BY DEF Modes, Terminal!CliModes
<1>2. [mode |-> activeMode, model |-> activeModel] \in Snapshots
  BY <1>1 DEF Terminal!Init, Snapshots
<1>3. stored \in Seq(Snapshots)
  BY <1>2 DEF Terminal!Init
<1>4. orch \in [id : Nat, mode : Modes, model : Models]
  BY <1>1 DEF Terminal!Init
<1>5. CliShape
  BY <1>1, <1>3, <1>4 DEF Terminal!Init, CliShape
<1>6. Told /\ Rides /\ Terminal!OpenSessionReaped
  BY DEF Terminal!Init, Told, Rides, Terminal!OpenSessionReaped
<1> QED BY <1>5, <1>6 DEF CliIInv

\* What the actions of the prompt do to the orchestrator keeps it in step
\* with what the prompt believes.
LEMMA CliReplaced ==
  ASSUME CliShape, NEW id \in Nat, NEW mode \in Modes, NEW model \in Models,
         Terminal!Replace(id, mode, model), stored' = stored \/ stored' = Append(stored, [mode |-> mode, model |-> model])
  PROVE  /\ orch' \in [id : Nat, mode : Modes, model : Models]
         /\ orch'.mode = mode /\ orch'.model = model /\ liveShells' = FALSE
         /\ stored' \in Seq(Snapshots)
<1>1. orch' = [id |-> id, mode |-> mode, model |-> model] /\ liveShells' = FALSE
  BY DEF Terminal!Replace
<1>2. [mode |-> mode, model |-> model] \in Snapshots
  BY DEF Snapshots
<1>3. stored' \in Seq(Snapshots)
  BY <1>2 DEF CliShape
<1> QED BY <1>1, <1>3

LEMMA CliEnters ==
  ASSUME CliIInv, NEW how, Terminal!EntersMode(how)
  PROVE  /\ orch' \in [id : Nat, mode : Modes, model : Models] /\ activeMode' \in Modes
         /\ orch'.model = orch.model /\ (drifted' \/ activeMode' = orch'.mode)
<1>1. CASE how = "prompt"
  BY <1>1 DEF Terminal!EntersMode, CliIInv, CliShape, Told
<1>2. CASE how # "prompt"
  <2>1. Terminal!ModeFor(how) \in Modes
    BY DEF Terminal!ModeFor, Modes, Terminal!CliModes, CliIInv, CliShape
  <2>2. activeMode' = Terminal!ModeFor(how) /\ orch' = [orch EXCEPT !.mode = Terminal!ModeFor(how)]
    BY <1>2 DEF Terminal!EntersMode
  <2> QED BY <2>1, <2>2 DEF CliIInv, CliShape
<1> QED BY <1>1, <1>2

LEMMA CliNext ==
  ASSUME CliIInv, Terminal!Next
  PROVE  CliIInv'
<1> USE DEF CliIInv, Told, Rides, Terminal!OpenSessionReaped, Terminal!beliefs, Terminal!shells,
            Terminal!turn, Terminal!approvals
<1>1. ASSUME NEW m \in Terminal!CliModes, Terminal!SetMode(m) PROVE CliIInv'
  BY <1>1 DEF Terminal!SetMode, CliShape, Modes
<1>2. ASSUME NEW s \in 1..MaxSessions, Terminal!Resume(s) PROVE CliIInv'
  <2>1. s \in 1..Len(stored) /\ s \in Nat
    BY <1>2 DEF Terminal!Resume, CliShape
  <2>2. stored[s] \in Snapshots
    BY <2>1 DEF CliShape
  <2>3. stored[s].mode \in Modes /\ stored[s].model \in Models
    BY <2>2 DEF Snapshots
  <2> QED BY <1>2, <2>1, <2>3, CliReplaced DEF Terminal!Resume, Terminal!Adopt, CliShape
<1>3. CASE Terminal!Clear
  <2>1. Len(stored) + 1 \in Nat /\ activeModel \in Models
    BY DEF CliShape
  <2> QED BY <1>3, <2>1, CliReplaced DEF Terminal!Clear, Terminal!NewSession, Terminal!Adopt, CliShape
<1>4. ASSUME NEW m \in Models, Terminal!Switch(m) PROVE CliIInv'
  <2>1. CASE m = orch.model
    BY <1>4, <2>1 DEF Terminal!Switch, CliShape
  <2>2. CASE m # orch.model
    <3>1. Len(stored) + 1 \in Nat /\ orch.mode \in Modes
      BY DEF CliShape
    <3> QED BY <1>4, <2>2, <3>1, CliReplaced DEF Terminal!Switch, Terminal!NewSession, CliShape
  <2> QED BY <2>1, <2>2
<1>5. ASSUME NEW how, Terminal!NoKey(how) PROVE CliIInv'
  BY <1>5, CliEnters DEF Terminal!NoKey, CliShape
<1>6. ASSUME NEW how, Terminal!NotSignedIn(how) PROVE CliIInv'
  BY <1>6, CliEnters DEF Terminal!NotSignedIn, CliShape
<1>7. ASSUME NEW how, Terminal!BeginTurn(how) PROVE CliIInv'
  BY <1>7, CliEnters DEF Terminal!BeginTurn, Terminal!TakesAttached, CliShape
<1>8. CASE Terminal!Research
  BY <1>8 DEF Terminal!Research, CliShape, Modes, Terminal!CliModes
<1>9. CASE Terminal!ResearchEnds
  BY <1>9 DEF Terminal!ResearchEnds, CliShape, Modes
<1>10. ASSUME NEW choice, Terminal!Answer(choice) PROVE CliIInv'
  BY <1>10 DEF Terminal!Answer, CliShape
<1>11. ASSUME NEW c, Terminal!AskApproval(c) PROVE CliIInv'
  BY <1>11 DEF Terminal!AskApproval, CliShape
<1>12. CASE Terminal!RemoveProfile \/ Terminal!Sign \/ Terminal!RunAllowed
            \/ Terminal!Interrupt \/ Terminal!HeadlessTurn
  <2>1. at' = at /\ at # "gone" /\ UNCHANGED <<activeMode, activeModel, drifted, orch, stored, attached, rode, before>>
    BY <1>12 DEF Terminal!RemoveProfile, Terminal!Sign, Terminal!RunAllowed, Terminal!Interrupt, Terminal!HeadlessTurn
  <2> QED BY <2>1 DEF CliShape
<1>14. CASE Terminal!Attach
  BY <1>14 DEF Terminal!Attach, CliShape
<1>15. CASE Terminal!TurnEnds
  BY <1>15 DEF Terminal!TurnEnds, CliShape
<1>13. CASE Terminal!HeadlessEnds \/ Terminal!Exit \/ Terminal!Sigint
  BY <1>13 DEF Terminal!HeadlessEnds, Terminal!Exit, Terminal!Sigint, Terminal!ExitInflynx, Terminal!Reaped, CliShape
<1> QED
  BY <1>1, <1>2, <1>3, <1>4, <1>5, <1>6, <1>7, <1>8, <1>9, <1>10, <1>11, <1>12, <1>13, <1>14, <1>15 DEF Terminal!Next

THEOREM CliStep == CliIInv /\ (Terminal!Next \/ UNCHANGED terminalVars) => CliIInv'
<1>1. ASSUME CliIInv, UNCHANGED terminalVars PROVE CliIInv'
  BY <1>1 DEF terminalVars, CliIInv, CliShape, Told, Rides, Terminal!OpenSessionReaped
<1> QED BY <1>1, CliNext

LEMMA CliInvariant == Spec => []CliIInv
<1>1. Init => CliIInv
  BY CliInit DEF Init
<1>2. CliIInv /\ [Next]_<<client, terminalVars, chatVars, launcherVars>> => CliIInv'
  BY ClientStep, CliStep
<1> QED BY <1>1, <1>2, PTL DEF Spec

\* The prompt of the terminal names the mode that is enforced and the model
\* that answers, but for the mode after a research turn (index.ts of the CLI).
THEOREM PromptIsTrue == Spec => []PromptTellsTruth
<1>1. CliIInv => PromptTellsTruth
  BY DEF CliIInv, Told, PromptTellsTruth, Terminal!PromptTellsTruth
<1> QED BY <1>1, CliInvariant, PTL

\* No step empties the queue but into the turn it begins, or for want of a
\* login.
LEMMA AttachmentStep ==
  ASSUME CliIInv, CliIInv', Terminal!Next \/ UNCHANGED Terminal!vars
  PROVE  /\ attached /\ ~attached' => rode' \/ (RequireLogin /\ ~signedIn)
         /\ rode' => ~attached'
<1>1. rode' => ~attached'
  BY DEF CliIInv, Rides
<1>2. ASSUME attached, ~attached' PROVE rode' \/ (RequireLogin /\ ~signedIn)
  <2>1. CASE UNCHANGED attached
    BY <1>2, <2>1
  <2>2. ASSUME NEW how, Terminal!NotSignedIn(how) PROVE RequireLogin /\ ~signedIn
    BY <2>2 DEF Terminal!NotSignedIn
  <2>3. ASSUME NEW how, Terminal!BeginTurn(how) PROVE rode'
    BY <1>2, <2>3 DEF Terminal!BeginTurn, Terminal!TakesAttached
  <2>4. CASE Terminal!Attach
    BY <1>2, <2>4 DEF Terminal!Attach
  <2>5. \/ UNCHANGED attached \/ Terminal!Attach
        \/ \E how : Terminal!NotSignedIn(how) \/ Terminal!BeginTurn(how)
    BY DEF Terminal!Next, Terminal!vars, Terminal!SetMode, Terminal!Resume, Terminal!Clear, Terminal!Switch,
           Terminal!NoKey, Terminal!Research, Terminal!ResearchEnds, Terminal!Answer, Terminal!AskApproval,
           Terminal!RemoveProfile, Terminal!Sign, Terminal!RunAllowed, Terminal!TurnEnds, Terminal!Interrupt,
           Terminal!HeadlessTurn, Terminal!HeadlessEnds, Terminal!Exit, Terminal!Sigint, Terminal!ExitInflynx
  <2> QED BY <2>1, <2>2, <2>3, <2>4, <2>5
<1> QED BY <1>1, <1>2

\* An attachment leaves the queue into exactly one turn, or with a prompt
\* that was refused for want of a login.
THEOREM AttachmentRides == Spec => AttachmentRidesOnce
<1>1. CliIInv /\ CliIInv' /\ [Next]_<<client, terminalVars, chatVars, launcherVars>>
      => [/\ attached /\ ~attached' => rode' \/ (RequireLogin /\ ~signedIn)
          /\ rode' => ~attached']_(Terminal!vars)
  BY ClientStep, AttachmentStep DEF terminalVars, Terminal!vars
<1> QED BY <1>1, CliInvariant, PTL DEF Spec, AttachmentRidesOnce, Terminal!AttachmentRidesOnce

-----------------------------------------------------------------------------
(* The launcher of the server. *)

Running(p) == state[p] \in {"starting", "serving"}

LauncherShape ==
    /\ state \in [Launcher!Procs -> {"unborn", "starting", "serving", "dying", "dead"}]
    /\ child \in Launcher!Procs \cup {None}

\* While no two processes lived at the same time, the handle names the one
\* that runs, and after the extension is gone none does.
Handled ==
    ~overlapped =>
        /\ \A p, q \in Launcher!Procs : p \in Launcher!Alive /\ q \in Launcher!Alive => p = q
        /\ \A p \in Launcher!Procs : Running(p) => host /\ child = p

LauncherIInv == LauncherShape /\ Handled

LEMMA LauncherInit == Launcher!Init => LauncherIInv
  BY DEF Launcher!Init, LauncherIInv, LauncherShape, Handled, Running, Launcher!Procs, Launcher!Alive

LEMMA LauncherSame ==
  ASSUME LauncherIInv, UNCHANGED <<host, state, child, overlapped>>
  PROVE  LauncherIInv'
  BY DEF LauncherIInv, LauncherShape, Handled, Running, Launcher!Alive

LEMMA LauncherLaunches ==
  ASSUME LauncherIInv, host, UNCHANGED host, Launcher!Launches
  PROVE  LauncherIInv'
<1>1. ASSUME NEW p \in Launcher!Procs, child' = p, state' = [state EXCEPT ![p] = "starting"],
             overlapped' = (overlapped \/ Launcher!Alive # {})
      PROVE  LauncherIInv'
  <2>1. LauncherShape'
    BY <1>1 DEF LauncherIInv, LauncherShape
  <2>2. Handled'
    BY <1>1 DEF LauncherIInv, LauncherShape, Handled, Running, Launcher!Alive
  <2> QED BY <2>1, <2>2 DEF LauncherIInv
<1> QED BY <1>1, LauncherSame DEF Launcher!Launches

LEMMA LauncherStarts ==
  ASSUME LauncherIInv, host, UNCHANGED host, Launcher!StartServer \/ UNCHANGED Launcher!launch
  PROVE  LauncherIInv'
  BY LauncherLaunches, LauncherSame DEF Launcher!StartServer, Launcher!launch

\* The handle's process is told to stop, and the handle is dropped.
LEMMA LauncherStops ==
  ASSUME LauncherIInv, host, host' \in BOOLEAN, child' = None, overlapped' = overlapped,
         IF child # None THEN Launcher!KillChild ELSE UNCHANGED state
  PROVE  LauncherIInv'
<1>1. CASE child # None
  <2>1. child \in Launcher!Procs
    BY <1>1 DEF LauncherIInv, LauncherShape
  <2>2. state' = [state EXCEPT ![child] = IF @ \in {"starting", "serving"} THEN "dying" ELSE @]
    BY <1>1 DEF Launcher!KillChild
  <2>3. LauncherShape'
    BY <2>1, <2>2 DEF LauncherIInv, LauncherShape
  <2>4. Handled'
    BY <2>1, <2>2 DEF LauncherIInv, LauncherShape, Handled, Running, Launcher!Alive
  <2> QED BY <2>3, <2>4 DEF LauncherIInv
<1>2. CASE child = None
  BY <1>2, ProcsAssumption DEF LauncherIInv, LauncherShape, Handled, Running, Launcher!Alive, Launcher!Procs
<1> QED BY <1>1, <1>2

\* A process ends, or takes the port; the handle is dropped with it or stays.
LEMMA LauncherMoves ==
  ASSUME LauncherIInv, NEW p \in Launcher!Procs, p \in Launcher!Alive, NEW to \in {"serving", "dead"},
         to = "serving" => Running(p) /\ child' = child,
         state' = [state EXCEPT ![p] = to], child' \in {child, None}, UNCHANGED <<host, overlapped>>
  PROVE  LauncherIInv'
<1>1. LauncherShape'
  BY DEF LauncherIInv, LauncherShape
<1>2. Handled'
  BY DEF LauncherIInv, LauncherShape, Handled, Running, Launcher!Alive
<1> QED BY <1>1, <1>2 DEF LauncherIInv

LEMMA LauncherNext ==
  ASSUME LauncherIInv, Launcher!Next
  PROVE  LauncherIInv'
<1>1. CASE Launcher!CheckHealth \/ Launcher!PollEnds
  BY <1>1, LauncherSame DEF Launcher!CheckHealth, Launcher!PollEnds, Launcher!launch
<1>2. CASE Launcher!EnsureServerRunning \/ Launcher!StartCommand
  BY <1>2, LauncherStarts DEF Launcher!EnsureServerRunning, Launcher!StartCommand
<1>3. CASE Launcher!RestartStarts
  BY <1>3, LauncherStarts DEF Launcher!RestartStarts
<1>9. CASE Launcher!CheckAnswered
  BY <1>9, LauncherLaunches, LauncherSame DEF Launcher!CheckAnswered, Launcher!launch
<1>4. ASSUME NEW p \in Launcher!Procs, Launcher!Bind(p) PROVE LauncherIInv'
  BY <1>4, LauncherMoves DEF Launcher!Bind, Launcher!Alive, Running
<1>5. ASSUME NEW p \in Launcher!Procs, Launcher!Exit(p) PROVE LauncherIInv'
  BY <1>5, LauncherMoves DEF Launcher!Exit
<1>6. ASSUME NEW p \in Launcher!Procs, Launcher!SpawnFails(p) PROVE LauncherIInv'
  BY <1>6, LauncherMoves DEF Launcher!SpawnFails, Launcher!Alive
<1>7. CASE Launcher!StopServer \/ Launcher!Restart
  BY <1>7, LauncherStops DEF Launcher!StopServer, Launcher!Restart
<1>8. CASE Launcher!Dispose
  BY <1>8, LauncherStops DEF Launcher!Dispose
<1> QED BY <1>1, <1>2, <1>3, <1>4, <1>5, <1>6, <1>7, <1>8, <1>9 DEF Launcher!Next

\* No shell of the session that is open outlives the program, and no server
\* the editor that started it, unless two of its processes once lived
\* together (index.ts of the CLI, ServerManager.ts).
THEOREM ProcessesEnd == Spec => []ProcessesReaped
<1>1. Init => LauncherIInv
  BY LauncherInit DEF Init
<1>2. LauncherIInv /\ [Next]_<<client, terminalVars, chatVars, launcherVars>> => LauncherIInv'
  BY ClientStep, LauncherNext, LauncherSame DEF launcherVars
<1>3. CliIInv /\ LauncherIInv => ProcessesReaped
  BY DEF CliIInv, LauncherIInv, Handled, Running, ProcessesReaped, Launcher!ServerReaped, Terminal!OpenSessionReaped
<1> QED BY <1>1, <1>2, <1>3, CliInvariant, PTL DEF Spec

================================================================================
