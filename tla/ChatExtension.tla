----------------------------- MODULE ChatExtension -----------------------------
(***************************************************************************)
(* The VS Code chat: the service that reads the event streams of turns, the *)
(* approval manager between the server's questions and the two surfaces     *)
(* that can put them to the user (the dialog of the panel and a native      *)
(* notification), and the panel.  The user can change to another session    *)
(* while the turn of the first goes on: its events then reach a panel that  *)
(* shows the other one.  The server takes a second turn in a session, too;  *)
(* which of the two an abort reaches is a matter of ServerSessions, and     *)
(* either way here.                                                         *)
(***************************************************************************)
EXTENDS Naturals

CONSTANTS
    Sessions, Calls,  \* a tool call id is unique within its session only
    AutoApproveAll,   \* the setting of that name
    MaxStreams,       \* bound: turns of a session that are read at once
    None

Requests == Sessions \X Calls
Turns == Sessions \X (1..MaxStreams)

VARIABLES
    current,      \* currentSessionId
    streams,      \* turns whose event stream is read
    ending,       \* those of them the server was told to abort
    controller,   \* the stream activeAbortController aborts
    waiting,      \* requests the server waits for
    verdict,      \* what the server took for an answer
    pending,      \* the map of the registry; settled, which only words a report, is left out
    always,       \* alwaysApprovedSessions
    posted,       \* answers under way to the server
    view, mounted, ready,  \* the panel exists; it listens; it counts as a surface
    running, dialog,  \* what the panel shows
    toasts,       \* notifications on the screen
    clicked,      \* history: requests the user approved
    forgotten,    \* history: requests that were dropped unanswered
    silent        \* history: a stream ended without a word since the panel was told last

vars == <<current, streams, ending, controller, waiting, verdict, pending, always, posted,
          view, mounted, ready, running, dialog, toasts, clicked, forgotten, silent>>
server == <<waiting, verdict>>
registry == <<pending, always, posted, forgotten>>
surface == <<view, mounted, ready>>
busy == <<running, silent>>
panel == <<surface, busy, dialog>>
service == <<current, streams, ending, controller>>
user == <<toasts, clicked>>

Init ==
    /\ current = None /\ streams = {} /\ ending = {} /\ controller = None
    /\ waiting = {} /\ verdict = [r \in Requests |-> "none"]
    /\ pending = {} /\ always = {} /\ posted = {}
    /\ view = FALSE /\ mounted = FALSE /\ ready = FALSE /\ running = FALSE /\ dialog = None
    /\ toasts = {} /\ clicked = {} /\ forgotten = {} /\ silent = FALSE

-----------------------------------------------------------------------------
(* The registry. *)

\* Mutant of Key: calls are told apart by their id alone.
KeyOfCall(r, q) == r[2] = q[2]

\* The key names the session and the call.
Key(r, q) == r = q

\* An answer settles a pending request; to others it is a duplicate, or
\* unknown, and nothing is sent.
Settle(r, approved) ==
    LET hit == {q \in pending : Key(q, r)}
    IN  /\ pending' = pending \ hit
        /\ posted' = posted \cup {<<q, approved>> : q \in hit}
        /\ UNCHANGED forgotten

\* What forgetting a session takes out of the map.
Dropped(s) == {r \in pending : r[1] = s}

ForgetSession(s) ==
    /\ pending' = pending \ Dropped(s)
    /\ forgotten' = forgotten \cup {r \in pending : r[1] = s}
    /\ UNCHANGED <<posted, always>>

-----------------------------------------------------------------------------
(* What the panel shows: what is posted to it before it listens is lost. *)

Shows(works, question) ==
    IF mounted THEN running' = works /\ silent' = FALSE /\ dialog' = question
    ELSE UNCHANGED <<busy, dialog>>

\* Mutant of ShowsIdle: the panel is not told.
ShowsNothing == UNCHANGED <<busy, dialog>>

\* turn.completed, turn.failed and turn.cancelled, whichever turn it was.
ShowsIdle == Shows(FALSE, None)

\* session.loaded: whatever it showed, it starts over.
ShowsSession == Shows(FALSE, None)

\* turn.started, and turn.failed if the prompt is refused.
ShowsPrompt(accepted) == Shows(accepted, None)

\* tool.approved: whatever dialog is open closes.
ClosesDialog(p) ==
    dialog' = IF p[1] \in waiting /\ p[2] = "approved" /\ \E t \in streams : t[1] = p[1][1]
              THEN None ELSE dialog

-----------------------------------------------------------------------------
(* Sessions and turns. *)

\* The requests of the session before are forgotten.
LeavesFor(s) == IF current \notin {None, s} THEN ForgetSession(current) ELSE UNCHANGED registry

\* A session is created or hydrated; streams go on.
TakesSession(s) == current' = s /\ LeavesFor(s) /\ UNCHANGED <<streams, ending, controller>>

\* The new-session button, a session of the list, or their commands.
OpenSession(s) ==
    /\ TakesSession(s) /\ ShowsSession
    /\ UNCHANGED <<server, surface, user>>

\* The service posts the prompt.  The server may refuse it (limits, credits,
\* no connection); the controller of the turn before is replaced either way.
PostsTurn(accepted) ==
    /\ UNCHANGED ending
    /\ \/ ~accepted /\ controller' = None /\ UNCHANGED streams
       \/ accepted /\ \E t \in Turns \ streams :
              /\ t[1] = current /\ \A i \in 1..t[2] - 1 : <<current, i>> \in streams
              /\ controller' = t /\ streams' = streams \cup {t}

\* A prompt is typed in the panel, which offers it only when it is idle.
SendPrompt(accepted) ==
    /\ current # None /\ mounted /\ ~running
    /\ PostsTurn(accepted) /\ ShowsPrompt(accepted)
    /\ UNCHANGED <<current, server, registry, surface, user>>

\* A command of the editor (explain, fix, refactor, test, execute the plan)
\* brings the panel up and sends a prompt, whatever the panel shows.
SendPromptFromExtension(accepted) ==
    /\ current # None /\ view
    /\ PostsTurn(accepted) /\ ShowsPrompt(accepted)
    /\ UNCHANGED <<current, server, registry, surface, user>>

\* A stream that just ends resolves the prompt, and the panel is not told.
EndsSilently == silent' = TRUE /\ UNCHANGED <<running, dialog>>

\* The stream ends, with the last event of the turn, an error or neither; the
\* controller is dropped, whichever stream it is of.
StreamEnds(t) ==
    /\ t \in streams /\ streams' = streams \ {t} /\ ending' = ending \ {t}
    /\ controller' = None /\ (ShowsIdle \/ EndsSilently)
    /\ UNCHANGED <<current, server, registry, surface, user>>

\* The stream of the controller is closed.  The server aborts one turn of the
\* session that is shown and refuses what it asks, unless it is not reached.
AbortsTurn ==
    /\ controller' = None /\ streams' = streams \ {controller}
    /\ \/ /\ verdict' = [r \in Requests |-> IF r \in waiting /\ r[1] = current THEN "denied" ELSE verdict[r]]
          /\ waiting' = {r \in waiting : r[1] # current}
          /\ \E t \in Turns : t[1] = current /\ ending' = (ending \cup ({t} \cap streams)) \ {controller}
       \/ ending' = ending \ {controller} /\ UNCHANGED server

Abort ==
    /\ current # None /\ AbortsTurn /\ ShowsIdle
    /\ UNCHANGED <<current, registry, surface, user>>

-----------------------------------------------------------------------------
(* Approvals. *)

\* The request is new to the registry.
Track(r) == pending' = pending \cup {r}

\* The dialog if the panel counts as a surface, or a notification; never both,
\* and none while the panel is loaded again.
Prompt(r) ==
    IF ready THEN dialog' = (IF mounted THEN r ELSE dialog) /\ UNCHANGED toasts
    ELSE toasts' = toasts \cup {r} /\ UNCHANGED dialog

\* A turn asks, and the manager handles the event: with an answer at once if
\* there is a standing approval.
Ask(r) ==
    /\ \E t \in streams \ ending : t[1] = r[1]
    /\ verdict[r] = "none" /\ r \notin waiting
    /\ waiting' = waiting \cup {r}
    /\ IF AutoApproveAll \/ r[1] \in always
       THEN /\ posted' = posted \cup {<<r, "approved">>}
            /\ UNCHANGED <<pending, dialog, toasts>>
       ELSE Track(r) /\ Prompt(r) /\ UNCHANGED posted
    /\ UNCHANGED <<service, verdict, always, forgotten, surface, busy, clicked>>

Said(r, choice) == clicked' = IF choice = "denied" THEN clicked ELSE clicked \cup {r}

\* The dialog is answered against the session it came from.
AnswerDialog(choice) ==
    /\ mounted /\ dialog # None
    /\ Settle(dialog, choice) /\ Said(dialog, choice) /\ dialog' = None
    /\ UNCHANGED <<service, server, always, surface, busy, toasts>>

\* A notification is answered, or dismissed.
AnswerToast(r, choice, forSession) ==
    /\ r \in toasts /\ toasts' = toasts \ {r}
    /\ Settle(r, choice) /\ Said(r, choice)
    /\ always' = IF forSession /\ choice = "approved" THEN always \cup {r[1]} ELSE always
    /\ UNCHANGED <<service, server, panel>>

\* An answer reaches the server; one that comes too late is not found.
Deliver(p) ==
    /\ p \in posted /\ posted' = posted \ {p}
    /\ IF p[1] \in waiting
       THEN waiting' = waiting \ {p[1]} /\ verdict' = [verdict EXCEPT ![p[1]] = p[2]]
       ELSE UNCHANGED server
    /\ ClosesDialog(p)
    /\ UNCHANGED <<service, pending, always, forgotten, surface, busy, user>>

\* The request fails; nobody sends it again.
Lose(p) ==
    /\ p \in posted /\ posted' = posted \ {p}
    /\ UNCHANGED <<service, server, pending, always, forgotten, panel, user>>

\* Nobody answers: the server refuses the call.
TimeOut(r) ==
    /\ r \in waiting /\ waiting' = waiting \ {r}
    /\ verdict' = [verdict EXCEPT ![r] = "denied"]
    /\ UNCHANGED <<service, registry, panel, user>>

-----------------------------------------------------------------------------
(* The panel comes and goes. *)

ResolveView ==
    /\ ~view /\ view' = TRUE
    /\ UNCHANGED <<service, server, registry, mounted, ready, busy, dialog, user>>

\* The panel has mounted, or somebody pressed "Retry"; its session is hydrated
\* again.
Ready ==
    /\ view /\ ready' = TRUE /\ mounted' = TRUE
    /\ IF current = None THEN UNCHANGED <<busy, dialog>>
       ELSE running' = FALSE /\ silent' = FALSE /\ dialog' = None
    /\ UNCHANGED <<service, server, registry, view, user>>

\* The command that loads the panel again: until it has mounted it is a
\* surface that shows nothing.
Reload ==
    /\ view /\ mounted' = FALSE /\ running' = FALSE /\ silent' = FALSE /\ dialog' = None
    /\ UNCHANGED <<service, server, registry, view, ready, user>>

\* A hidden panel keeps its contents and is no surface any more.
Hide ==
    /\ view /\ ready /\ ready' = FALSE
    /\ UNCHANGED <<service, server, registry, view, mounted, busy, dialog, user>>

\* The maps and every standing approval are cleared.
ClearsSessionState ==
    /\ pending' = {} /\ always' = {}
    /\ forgotten' = forgotten \cup pending

DisposeView ==
    /\ view /\ view' = FALSE /\ mounted' = FALSE /\ ready' = FALSE
    /\ running' = FALSE /\ silent' = FALSE /\ dialog' = None
    /\ ClearsSessionState
    /\ UNCHANGED <<service, server, posted, user>>

Next ==
    \/ \E s \in Sessions : OpenSession(s)
    \/ \E t \in Turns : StreamEnds(t)
    \/ \E accepted \in BOOLEAN : SendPrompt(accepted) \/ SendPromptFromExtension(accepted)
    \/ \E r \in Requests : Ask(r) \/ TimeOut(r)
    \/ \E choice \in {"approved", "denied"} :
          \/ AnswerDialog(choice)
          \/ \E r \in Requests, forSession \in BOOLEAN : AnswerToast(r, choice, forSession)
    \/ \E p \in posted : Deliver(p) \/ Lose(p)
    \/ Abort \/ ResolveView \/ Ready \/ Reload \/ Hide \/ DisposeView

\* The server's approval timer (ServerSessions); a turn and its stream end
\* when the model lets them.
Fairness == WF_vars(\E r \in Requests : TimeOut(r))

Spec == Init /\ [][Next]_vars /\ Fairness
-----------------------------------------------------------------------------
(* Properties. *)

\* The server runs a call only if the user approved that very call, or
\* everything, or everything of its session: never because of an answer that
\* was meant for another session's call of the same id.
ApprovedByUser ==
    \A r \in Requests :
        verdict[r] = "approved" =>
            r \in clicked \/ AutoApproveAll \/ \E q \in clicked : q[1] = r[1]

\* A request that was dropped when the user left its session stays denied,
\* whichever surface still shows it and however late it is answered.
ForgottenStaysDenied == \A r \in forgotten : verdict[r] # "approved"

\* A turn that is read and waits for nothing but its model, which has no
\* timer here or in the server.
Works(t) == t \in streams /\ \A r \in waiting : r[1] # t[1]

\* The panel does not stay busy behind a request nobody answers, an answer
\* that is lost, or a stream that is over: only behind a turn whose model
\* never comes to an end, or after a stream that ended without a word.
ComposerUnlocks == running ~> ~running \/ silent \/ \E t \in Turns : []Works(t)
================================================================================
