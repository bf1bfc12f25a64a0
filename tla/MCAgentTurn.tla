---------------------------- MODULE MCAgentTurn ----------------------------
(* Three small instances of AgentTurn for TLC, in one run: a long turn with   *)
(* every kind of call and failing writes, two shorter ones after each other,  *)
(* and two that may crash.                                                    *)
EXTENDS AgentTurn

VARIABLE instance

Long == INSTANCE AgentTurn WITH MaxPrompts <- 1, MaxResumes <- 0

Two == INSTANCE AgentTurn WITH MaxModelTurns <- 2, MaxResumes <- 0

Crash == INSTANCE AgentTurn WITH
    MaxModelTurns <- 2, MaxRaises <- 0, Kinds <- {"read", "edit"}, MaxFaults <- 0

MCInit == Init /\ instance \in {"long", "two", "crash"}

MCNext ==
    /\ UNCHANGED instance
    /\ \/ instance = "long" /\ Long!Next
       \/ instance = "two" /\ Two!Next
       \/ instance = "crash" /\ Crash!Next

MCSpec ==
    /\ MCInit /\ [][MCNext]_<<vars, instance>>
    /\ WF_vars(\/ instance = "long" /\ Long!Settles
               \/ instance = "two" /\ Two!Settles
               \/ instance = "crash" /\ Crash!Settles)
=============================================================================
