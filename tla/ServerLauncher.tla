----------------------------- MODULE ServerLauncher ----------------------------
(***************************************************************************)
(* The backend server as the VS Code extension starts, watches and stops    *)
(* it.  A start spawns a process and asks for its health for ten seconds;   *)
(* the events of the process come at any time, and the extension keeps one  *)
(* handle.  Only one process can listen on the port.                        *)
(***************************************************************************)
EXTENDS Naturals

CONSTANTS MaxProcs, None  \* bound: processes ever spawned

Procs == 1..MaxProcs

VARIABLES
    host,       \* the extension is active
    state,      \* of each process
    child,      \* childProcess
    isStarting,
    ensuring,   \* the activation asks for the health
    checks,     \* starts that ask whether the process there is serves
    polls,      \* starts that ask for the health of the one they spawned
    restarting, \* a restart waits its second
    isConnected,
    overlapped  \* history: two processes lived at the same time

vars == <<host, state, child, isStarting, ensuring, checks, polls, restarting,
          isConnected, overlapped>>
launch == <<state, child, isStarting, polls, overlapped>>
Unborn(p) == state[p] = "unborn" /\ \A q \in 1..p - 1 : state[q] # "unborn"
Alive == {p \in Procs : state[p] \in {"starting", "serving", "dying"}}
Healthy == \E p \in Procs : state[p] = "serving"

Init ==
    /\ host = TRUE /\ state = [p \in Procs |-> "unborn"] /\ child = None
    /\ isStarting = FALSE /\ ensuring = TRUE /\ checks = 0 /\ polls = 0 /\ restarting = FALSE
    /\ isConnected = FALSE /\ overlapped = FALSE

\* What checkHealth answers: a server that is busy for three seconds does not.
Answers == {Healthy, FALSE}

\* checkHealth from the timer; "connected" and "disconnected" are said when it
\* changes.
CheckHealth ==
    /\ host /\ isConnected' \in Answers
    /\ UNCHANGED <<host, ensuring, checks, restarting, launch>>

\* The rest of startServer: a process is spawned, or there is no entry point.
Launches ==
    \/ /\ \E p \in Procs : Unborn(p) /\ child' = p /\ state' = [state EXCEPT ![p] = "starting"]
       /\ isStarting' = TRUE /\ polls' = polls + 1
       /\ overlapped' = (overlapped \/ Alive # {})
    \/ isStarting' = FALSE /\ UNCHANGED <<state, child, polls, overlapped>>

\* startServer: not while a start goes on; it asks the process it has first,
\* and until the answer comes another start may begin.
StartServer ==
    /\ ~isStarting
    /\ \/ child = None /\ Launches /\ UNCHANGED checks
       \/ child # None /\ checks < MaxProcs /\ checks' = checks + 1 /\ UNCHANGED launch

\* Unless the process answers, the start goes on as if nothing had happened.
CheckAnswered ==
    /\ host /\ checks > 0 /\ checks' = checks - 1
    /\ \E healthy \in Answers :
          isConnected' = healthy /\ IF healthy THEN UNCHANGED launch ELSE Launches
    /\ UNCHANGED <<host, ensuring, restarting>>

\* ensureServerRunning, at the activation: only when nothing answers, and
\* then at once or by the button, which is StartCommand.
EnsureServerRunning ==
    /\ host /\ ensuring /\ ensuring' = FALSE
    /\ \E healthy \in Answers :
          /\ isConnected' = healthy
          /\ IF healthy THEN UNCHANGED <<checks, launch>>
             ELSE StartServer \/ UNCHANGED <<checks, launch>>
    /\ UNCHANGED <<host, restarting>>

StartCommand == host /\ StartServer /\ UNCHANGED <<host, ensuring, restarting, isConnected>>

\* The process listens, or finds the port taken and exits.
Bind(p) ==
    /\ state[p] = "starting" /\ ~Healthy /\ \A q \in Procs : state[q] # "dying"
    /\ state' = [state EXCEPT ![p] = "serving"]
    /\ UNCHANGED <<host, child, isStarting, ensuring, checks, polls, restarting, isConnected, overlapped>>

\* The exit handler clears the handle, whichever process it is now.
Exit(p) ==
    /\ p \in Alive /\ state' = [state EXCEPT ![p] = "dead"]
    /\ child' = IF host THEN None ELSE child
    /\ UNCHANGED <<host, isStarting, ensuring, checks, polls, restarting, isConnected, overlapped>>

\* The program cannot be run: the error handler also ends the start, whose
\* loop goes on.
SpawnFails(p) ==
    /\ host /\ state[p] = "starting" /\ state' = [state EXCEPT ![p] = "dead"]
    /\ child' = None /\ isStarting' = FALSE
    /\ UNCHANGED <<host, ensuring, checks, polls, restarting, isConnected, overlapped>>

EndsStart == isStarting' = FALSE

\* A start sees a healthy server, or its ten seconds are over.
PollEnds ==
    /\ host /\ polls > 0 /\ polls' = polls - 1
    /\ EndsStart /\ isConnected' \in Answers
    /\ UNCHANGED <<host, state, child, ensuring, checks, restarting, overlapped>>

\* SIGTERM to the process group.
KillChild == state' = [state EXCEPT ![child] = IF @ \in {"starting", "serving"} THEN "dying" ELSE @]

StopServer ==
    /\ host /\ child # None /\ KillChild /\ child' = None
    /\ UNCHANGED <<host, isStarting, ensuring, checks, polls, restarting, isConnected, overlapped>>

\* restartServer: stop, one second, start - unless a start goes on still.
\* Bound: one at a time.
Restart ==
    /\ host /\ ~restarting /\ restarting' = TRUE
    /\ IF child # None THEN KillChild ELSE UNCHANGED state
    /\ child' = None
    /\ UNCHANGED <<host, isStarting, ensuring, checks, polls, isConnected, overlapped>>

RestartStarts ==
    /\ host /\ restarting /\ restarting' = FALSE
    /\ IF isStarting THEN UNCHANGED <<checks, launch>> ELSE StartServer
    /\ UNCHANGED <<host, ensuring, isConnected>>

\* deactivate.
Dispose ==
    /\ host /\ host' = FALSE
    /\ IF child # None THEN KillChild ELSE UNCHANGED state
    /\ child' = None /\ ensuring' = FALSE /\ checks' = 0 /\ polls' = 0 /\ restarting' = FALSE
    /\ UNCHANGED <<isStarting, isConnected, overlapped>>

Next ==
    \/ CheckHealth \/ EnsureServerRunning \/ StartCommand \/ CheckAnswered \/ PollEnds
    \/ \E p \in Procs : Bind(p) \/ Exit(p) \/ SpawnFails(p)
    \/ StopServer \/ Restart \/ RestartStarts \/ Dispose

Fairness == WF_vars(PollEnds)

Spec == Init /\ [][Next]_vars /\ Fairness
-----------------------------------------------------------------------------
(* Properties. *)

\* The server the extension started does not outlive it.  The code keeps one
\* handle, so this is only so if no two of its processes ever lived together.
ServerReaped == ~host => overlapped \/ \A p \in Procs : state[p] \notin {"starting", "serving"}

\* A start never blocks the next one for good.
StartSettles == isStarting ~> ~isStarting \/ ~host
================================================================================
