---------------------------- MODULE StateMachine ----------------------------
(***************************************************************************)
(* The agent's lifecycle state machine (orchestrator/StateMachine.ts): the *)
(* thirteen states, the table of legal transitions, and the two operations *)
(* the orchestrator applies to a state.  The machine has no state of its   *)
(* own beyond its current label, so it is a module of operators; AgentTurn *)
(* keeps the label in its variable "machine".                              *)
(***************************************************************************)

AgentState == {"idle", "classifying", "planning", "exploring",
               "hypothesizing", "implementing", "verifying", "repairing",
               "reviewing", "waiting_for_approval", "completed", "failed",
               "cancelled"}

\* A finished turn leaves one of these.
Terminal == {"completed", "failed", "cancelled"}

\* One session runs many turns, so all three may start a new one.
TerminalTargets == {"idle", "classifying", "planning", "exploring"}

LegalTargets ==
    [s \in AgentState |->
        CASE s = "idle"          -> {"classifying", "planning", "exploring"}
          [] s = "classifying"   -> {"planning", "exploring", "failed"}
          [] s = "planning"      -> {"exploring", "waiting_for_approval",
                                     "implementing", "failed", "cancelled"}
          [] s = "exploring"     -> {"planning", "hypothesizing",
                                     "implementing", "verifying", "reviewing",
                                     "completed", "failed", "cancelled"}
          [] s = "hypothesizing" -> {"exploring", "implementing", "verifying",
                                     "failed", "cancelled"}
          [] s = "implementing"  -> {"verifying", "failed", "cancelled"}
          [] s = "verifying"     -> {"reviewing", "repairing", "completed",
                                     "failed", "cancelled"}
          [] s = "repairing"     -> {"implementing", "verifying", "failed",
                                     "cancelled"}
          [] s = "reviewing"     -> {"completed", "failed", "cancelled"}
          [] s = "waiting_for_approval" -> {"implementing", "cancelled",
                                            "planning", "exploring", "failed"}
          [] s \in Terminal      -> TerminalTargets]

\* canTransitionTo: a state is not its own legal target.
CanTransition(s, t) == t \in LegalTargets[s]

\* tryTransitionTo answers TRUE for a legal move and for staying put...
Accepts(s, t) == s = t \/ CanTransition(s, t)

\* Mutant of TryTransition: the move is made whatever the table says.
TryTransitionForced(s, t) == t

\* ...and leaves the state alone when it refuses.
TryTransition(s, t) == IF CanTransition(s, t) THEN t ELSE s
=============================================================================
