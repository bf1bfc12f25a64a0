------------------------------- MODULE MCSession --------------------------------
(* One run for what a session remembers, in three modules that share no      *)
(* state: each behaviour is one of the messages of its requests, of the      *)
(* journal on the disk, or of the checkpoints of its turns.                  *)
EXTENDS Naturals, Sequences, TLC

CONSTANTS Keep, FreshIds, Images, MaxCalls, MaxReplies, MaxNotes, MaxResumes,
          Recorded, Legacy, MaxWrites, None,
          Owners, Paths, AgentBytes, HumanBytes, RetainTurns, MaxTurns, MaxMutations, MaxTrash, MaxOutside

VARIABLES memory,
          history, pc, todo, plan, stored, unsaved, replies, notes, resumes,
          up, legacy, files, states, writes, alive, deleted, spared, acked, glued, redone,
          disk, trashed, open, saved, undoing, begun, mutations, outside

historyVars == <<history, pc, todo, plan, stored, unsaved, replies, notes, resumes>>
journalVars == <<up, legacy, files, states, writes, alive, deleted, spared, acked, glued, redone>>
checkpointVars == <<disk, trashed, open, saved, undoing, begun, mutations, outside>>

Context == INSTANCE History
Store == INSTANCE Journal WITH Sessions <- Recorded, memory <- states
Undo == INSTANCE Checkpoints WITH
    Sessions <- Owners, Keep <- RetainTurns, MaxCalls <- MaxMutations

\* Bounds are counts.
ASSUME HistoryAssumption ==
    {Keep, MaxCalls, MaxReplies, MaxNotes, MaxResumes} \subseteq Nat

\* Bounds are counts, people do not write what tools write, and no file is
\* none, one of the workspace no one of the trash.
ASSUME CheckpointAssumption ==
    /\ {RetainTurns, MaxTurns, MaxMutations, MaxTrash, MaxOutside} \subseteq Nat
    /\ AgentBytes \cap HumanBytes = {} /\ None \notin AgentBytes \cup HumanBytes
    /\ Paths \cap 1..MaxTrash = {} /\ None \notin Paths \cup 1..MaxTrash

ASSUME JournalAssumption ==
    /\ MaxWrites \in Nat /\ Legacy \subseteq Recorded
    /\ None \notin Store!File /\ None \notin Store!State

\* What is frozen starts in one way only.
Init ==
    /\ memory \in {"context", "store", "undo"}
    /\ Context!Init
    /\ Store!Init /\ (memory # "store" => ~legacy)
    /\ Undo!Init /\ (memory # "undo" => \A p \in Paths : disk[p] = None)

Next ==
    /\ UNCHANGED memory
    /\ \/ memory = "context" /\ Context!Next /\ UNCHANGED <<journalVars, checkpointVars>>
       \/ memory = "store" /\ Store!Next /\ UNCHANGED <<historyVars, checkpointVars>>
       \/ memory = "undo" /\ Undo!Next /\ UNCHANGED <<historyVars, journalVars>>

Spec == Init /\ [][Next]_<<memory, historyVars, journalVars, checkpointVars>>

\* The sessions and the files of the checkpoints are alike.
Symmetry == Permutations(Owners) \cup Permutations(Paths)

\* A provider accepts every request, and the task is in it.
RequestsAreSound == Context!TypeOK /\ Context!RequestWellFormed /\ Context!TaskStays
\* What was acknowledged survives, and what was deleted stays deleted.
JournalKeepsItsWord ==
    Store!TypeOK /\ Store!AckedSurvives /\ Store!MemoryNotAhead /\ Store!DeletedStaysDeleted
\* An undo puts back what its turn found.
UndoInverts == Undo!TypeOK /\ Undo!UndoInverts
\* An undo destroys the work of nobody else, and a commit nobody's newest turns.
OthersAreSpared == Undo!HumanWorkSurvivesUndo /\ Undo!PruneSparesNewest
================================================================================
