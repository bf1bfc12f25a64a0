------------------------------ MODULE MCClients --------------------------------
(* One run for the clients, which share no state: each behaviour is one of   *)
(* the terminal client, of the chat of VS Code, or of its server process.    *)
EXTENDS Naturals

CONSTANTS Models, Commands, RequireLogin, MaxSessions,
          Sessions, Calls, AutoApproveAll, MaxStreams, MaxProcs, None

ASSUME ProcsAssumption == None \notin 1..MaxProcs

VARIABLES client,
          at, activeMode, activeModel, hasKey, orch, stored, liveShells, strayShells, attached, rode,
          sessionApprovedCommands, asked, turnInFlight, interruptRequested, before, drifted, signedIn,
          current, streams, ending, controller, waiting, verdict, pending, always, posted,
          view, mounted, ready, running, dialog, toasts, clicked, forgotten, silent,
          host, state, child, isStarting, ensuring, checks, polls, restarting, isConnected, overlapped

terminalVars == <<at, activeMode, activeModel, hasKey, orch, stored, liveShells, strayShells, attached, rode,
                  sessionApprovedCommands, asked, turnInFlight, interruptRequested, before, drifted, signedIn>>
chatVars == <<current, streams, ending, controller, waiting, verdict, pending, always, posted,
              view, mounted, ready, running, dialog, toasts, clicked, forgotten, silent>>
launcherVars == <<host, state, child, isStarting, ensuring, checks, polls, restarting, isConnected, overlapped>>

Terminal == INSTANCE Cli
Chat == INSTANCE ChatExtension
Launcher == INSTANCE ServerLauncher

\* The frozen terminal of the other two starts in one way only.
Init ==
    /\ client \in {"terminal", "chat", "launcher"}
    /\ Terminal!Init /\ Chat!Init /\ Launcher!Init
    /\ client # "terminal" => at = "prompt" /\ hasKey /\ signedIn /\ activeModel = CHOOSE m \in Models : TRUE

Next ==
    /\ UNCHANGED client
    /\ \/ client = "terminal" /\ Terminal!Next /\ UNCHANGED <<chatVars, launcherVars>>
       \/ client = "chat" /\ Chat!Next /\ UNCHANGED <<terminalVars, launcherVars>>
       \/ client = "launcher" /\ Launcher!Next /\ UNCHANGED <<terminalVars, chatVars>>

Spec == Init /\ [][Next]_<<client, terminalVars, chatVars, launcherVars>>
        /\ Chat!Fairness /\ Launcher!Fairness

\* The prompt names the mode that is enforced and the model that answers.
PromptTellsTruth == Terminal!PromptTellsTruth
\* No shell of the open session outlives the program, and no server its editor.
ProcessesReaped == Terminal!OpenSessionReaped /\ Launcher!ServerReaped
\* An attachment rides with exactly one turn.
AttachmentRidesOnce == Terminal!AttachmentRidesOnce
\* A call is approved by an answer to that call, or for its session, and one
\* that was left unanswered stays denied.
AnswersAreTheUsers == Chat!ApprovedByUser /\ Chat!ForgottenStaysDenied
\* The panel stays busy only while a model does, or after a stream that ended
\* without a word; a start of the server does not block the next one for good.
ClientsUnblock == Chat!ComposerUnlocks /\ Launcher!StartSettles
================================================================================
