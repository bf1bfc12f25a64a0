-------------------------------- MODULE ShellLine ------------------------------
(***************************************************************************)
(* runShellLine: a command a turn waits for.  The shell leads a process    *)
(* group; a member of it is what the command left in the background; a     *)
(* stray has left the group.  Each may ignore SIGTERM and each but the     *)
(* shell may have let go of the pipes.  The command has a time limit, the  *)
(* user may interrupt the turn at any moment, and the program that waits   *)
(* may leave before a timer has fired.                                     *)
(***************************************************************************)
EXTENDS FiniteSets

Group == {"shell", "member"}
Processes == Group \cup {"stray"}

VARIABLES
    phase,    \* "idle", "running" or "settled"
    code,     \* "none", "exit", "killed" or "error"
    live,     \* the processes that are there
    doomed,   \* those a signal is about to end
    deaf,     \* those that ignore SIGTERM
    holding,  \* those that hold the pipes
    timers,   \* the armed ones of "term", "kill", "hard" and "escalate"
    timedOut, aborted,
    here      \* the program that runs the command is

lineVars == <<phase, code, live, doomed, deaf, holding, timers, timedOut, aborted, here>>

Init ==
    /\ phase = "idle" /\ code = "none"
    /\ live = {} /\ doomed = {} /\ deaf = {} /\ holding = {}
    /\ timers = {} /\ timedOut = FALSE /\ aborted = FALSE
    /\ here = TRUE

-----------------------------------------------------------------------------

\* killGroup: SIGTERM spares the deaf, SIGKILL nobody in the group.
Term == doomed \cup ((live \cap Group) \ deaf)
Kill == doomed \cup (live \cap Group)

\* finish, once: the timers of the time limit go, that of the interrupt stays.
Finish(c) ==
    /\ phase' = "settled" /\ code' = c
    /\ timers' = timers \cap {"escalate"}

\* The shell is spawned, or the error is the output.  A signal that was aborted
\* before is heard at once.
Start ==
    /\ phase = "idle" /\ here
    /\ \/ /\ phase' = "running" /\ code' = code
          /\ \E others \in SUBSET (Processes \ {"shell"}) :
              /\ live' = others \cup {"shell"}
              /\ deaf' \in SUBSET live'
              /\ \E quiet \in SUBSET others : holding' = live' \ quiet
          /\ doomed' = IF aborted THEN (live' \cap Group) \ deaf' ELSE {}
          /\ timers' = {"term"} \cup (IF aborted THEN {"escalate"} ELSE {})
       \/ /\ Finish("error")
          /\ UNCHANGED <<live, doomed, deaf, holding>>
    /\ UNCHANGED <<timedOut, aborted, here>>

\* A process ends by itself or of a signal.
Exit(p) ==
    /\ p \in live
    /\ live' = live \ {p} /\ doomed' = doomed \ {p} /\ holding' = holding \ {p}
    /\ UNCHANGED <<phase, code, deaf, timers, timedOut, aborted, here>>

\* The close event: the shell is gone and nobody holds the pipes.
Close ==
    /\ phase = "running" /\ here /\ "shell" \notin live /\ holding = {}
    /\ \E c \in {"exit", "killed"} : Finish(c)
    /\ UNCHANGED <<live, doomed, deaf, holding, timedOut, aborted, here>>

\* The time limit: SIGTERM, and two timers for what may come after it.
TermTimer ==
    /\ "term" \in timers
    /\ timedOut' = TRUE
    /\ doomed' = Term
    /\ timers' = (timers \ {"term"}) \cup {"kill", "hard"}
    /\ UNCHANGED <<phase, code, live, deaf, holding, aborted, here>>

KillTimer ==
    /\ "kill" \in timers
    /\ doomed' = Kill
    /\ timers' = timers \ {"kill"}
    /\ UNCHANGED <<phase, code, live, deaf, holding, timedOut, aborted, here>>

\* Mutant of HardKillTimer: there is none.
NoHardKillTimer == FALSE /\ UNCHANGED lineVars

\* Five seconds after the limit, three after SIGKILL, nothing is waited for.
HardKillTimer ==
    /\ "hard" \in timers /\ "kill" \notin timers
    /\ Finish("killed")
    /\ UNCHANGED <<live, doomed, deaf, holding, timedOut, aborted, here>>

\* onAbort, or an interrupt before the command.
Abort ==
    /\ ~aborted /\ phase # "settled" /\ here
    /\ aborted' = TRUE
    /\ IF phase = "running" THEN doomed' = Term /\ timers' = timers \cup {"escalate"}
                            ELSE UNCHANGED <<doomed, timers>>
    /\ UNCHANGED <<phase, code, live, deaf, holding, timedOut, here>>

\* Two seconds after the interrupt, whether or not the command has settled.
Escalate ==
    /\ "escalate" \in timers
    /\ doomed' = Kill
    /\ timers' = timers \ {"escalate"}
    /\ UNCHANGED <<phase, code, live, deaf, holding, timedOut, aborted, here>>

\* The program exits, on a second Ctrl+C or of itself: the interrupt's timer is
\* unref'd and holds nothing back.  No timer survives it, the children do, being
\* detached.
HostExits ==
    /\ here
    /\ here' = FALSE /\ timers' = {}
    /\ UNCHANGED <<phase, code, live, doomed, deaf, holding, timedOut, aborted>>

Next ==
    \/ Start \/ Close \/ TermTimer \/ KillTimer \/ HardKillTimer \/ Abort \/ Escalate
    \/ HostExits
    \/ \E p \in Processes : Exit(p)

\* While the program is there timers fire and events are delivered; what a signal
\* ends does end.
Runtime ==
    \/ Close \/ TermTimer \/ KillTimer \/ HardKillTimer \/ Escalate
    \/ \E p \in doomed : Exit(p)

Spec == Init /\ [][Next]_lineVars /\ WF_lineVars(Runtime)

-----------------------------------------------------------------------------

\* While the program stays a command settles, whatever it leaves behind: "a
\* process that traps TERM can no longer hold the session open forever"
\* (command-policy.ts:244-245).
LineSettles == phase = "running" ~> (phase = "settled" \/ ~here)

\* Of an interrupted command nothing in the group is left running; only what is
\* deaf to SIGTERM may be, and only where the program left before its SIGKILL.
AbortedLineDies ==
    phase = "running" /\ aborted ~>
        (live \cap Group = {} \/ (~here /\ live \cap Group \subseteq deaf))

\* Nor is anything left of one that ran into its limit, "so `pnpm test` -> `node`
\* -> `jest` all die" (command-policy.ts:240-243).
TimedOutLineDies == phase = "running" /\ timedOut ~> (live \cap Group = {} \/ ~here)
================================================================================
