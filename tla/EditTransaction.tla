---------------------------- MODULE EditTransaction ----------------------------
(***************************************************************************)
(* EditTransactionManager: files are staged, and a commit checks them all, *)
(* writes them all beside themselves, and renames them into place, putting *)
(* back what it renamed when a step fails.  The commit is one synchronous  *)
(* stretch of the process; other processes write between its system calls, *)
(* any of which may fail, and the process may die.                         *)
(*                                                                         *)
(* A file is its text; its hash is injective.  A path that became a        *)
(* symbolic link holds a value of its own, which no tool stages or writes. *)
(***************************************************************************)
EXTENDS Naturals, Sequences, FiniteSets

CONSTANTS
    Paths,
    Texts,       \* what is staged
    HumanTexts,  \* what somebody else writes; a symbolic link is one of them
    None,        \* no file
    MaxStages,   \* bound: stagings
    MaxOutside,  \* bound: writes by somebody else
    MaxFaults    \* bound: system calls that fail, and deaths of the process

Values == Texts \cup HumanTexts \cup {None}

VARIABLES
    disk,      \* path -> its text, or None
    temps,     \* the paths with a temporary file beside them
    staged,    \* stagedPatches, in the order of the Map
    phase,     \* "open", or what the commit is doing
    at,        \* patches done in this phase
    disturbed, \* history: paths somebody else wrote since they were checked
    lost,      \* unrecoverable, of the last commit
    stages, outside, faults

vars == <<disk, temps, staged, phase, at, disturbed, lost, stages, outside, faults>>

\* old = None is !existedAtStage.
Patch == [path : Paths, old : Values, new : Texts]
Phases == {"open", "checking", "writing", "renaming", "failing", "restoring"}

StagedPaths == {staged[i].path : i \in DOMAIN staged}

Init ==
    /\ disk \in [Paths -> HumanTexts \cup {None}]
    /\ temps = {} /\ staged = <<>> /\ phase = "open" /\ at = 0
    /\ disturbed = {} /\ lost = {}
    /\ stages = 0 /\ outside = 0 /\ faults = 0

Counters == <<stages, outside, faults>>

-----------------------------------------------------------------------------
(* stagePatch and stageFileWrite differ in how the new text is made.  A    *)
(* path staged again keeps its place in the Map.                           *)

Stage(p, b) ==
    LET patch == [path |-> p, old |-> disk[p], new |-> b] IN
    /\ phase = "open" /\ stages < MaxStages
    /\ staged' = IF p \in StagedPaths
                 THEN [i \in DOMAIN staged |-> IF staged[i].path = p THEN patch ELSE staged[i]]
                 ELSE Append(staged, patch)
    /\ stages' = stages + 1
    /\ UNCHANGED <<disk, temps, phase, at, disturbed, lost, outside, faults>>

Rollback ==
    /\ phase = "open" /\ staged # <<>> /\ staged' = <<>>
    /\ UNCHANGED <<disk, temps, phase, at, disturbed, lost, Counters>>

-----------------------------------------------------------------------------
(* commit. *)

BeginCommit ==
    /\ phase = "open" /\ staged # <<>>
    /\ phase' = "checking" /\ at' = 0 /\ disturbed' = {} /\ lost' = {}
    /\ UNCHANGED <<disk, temps, staged, Counters>>

Finished(n) == n = Len(staged)

\* The phase goes on with its next patch, or the next phase begins.
Advance(next) ==
    IF Finished(at + 1) THEN phase' = next /\ at' = 0 ELSE at' = at + 1 /\ UNCHANGED phase

\* Mutant of Unchanged: the hash is not compared.
SameExistence(patch) == (disk[patch.path] = None) = (patch.old = None)

\* Same place, same existence, same hash as when it was staged.
Unchanged(patch) == disk[patch.path] = patch.old

\* Phase 0.
Check ==
    /\ phase = "checking" /\ Unchanged(staged[at + 1])
    /\ Advance("writing")
    /\ UNCHANGED <<disk, temps, staged, disturbed, lost, Counters>>

Conflict ==
    /\ phase = "checking" /\ ~Unchanged(staged[at + 1])
    /\ phase' = "open" /\ at' = 0
    /\ UNCHANGED <<disk, temps, staged, disturbed, lost, Counters>>

\* Phase 1.
WriteTemp ==
    /\ phase = "writing"
    /\ temps' = temps \cup {staged[at + 1].path}
    /\ Advance("renaming")
    /\ UNCHANGED <<disk, staged, disturbed, lost, Counters>>

\* Phase 2.  After the last rename the transaction is committed.
Rename ==
    LET patch == staged[at + 1] IN
    /\ phase = "renaming"
    /\ disk' = [disk EXCEPT ![patch.path] = patch.new]
    /\ temps' = temps \ {patch.path}
    /\ IF Finished(at + 1)
       THEN phase' = "open" /\ at' = 0 /\ staged' = <<>>
       ELSE at' = at + 1 /\ UNCHANGED <<phase, staged>>
    /\ UNCHANGED <<disturbed, lost, Counters>>

\* A directory, a temporary or its verification fails, or a rename.  The
\* temporary that failed may be on the disk; nobody knows of it.
Fail ==
    /\ phase \in {"writing", "renaming"} /\ faults < MaxFaults
    /\ faults' = faults + 1
    /\ temps' \in IF phase = "writing" THEN {temps, temps \cup {staged[at + 1].path}} ELSE {temps}
    /\ phase' = "failing"
    /\ at' = IF phase = "writing" THEN 0 ELSE at
    /\ UNCHANGED <<disk, staged, disturbed, lost, stages, outside>>

\* The temporaries go, those that can be unlinked.
Unlink ==
    /\ phase = "failing"
    /\ \E left \in SUBSET temps :
         /\ Cardinality(left) <= MaxFaults - faults
         /\ temps' = left /\ faults' = faults + Cardinality(left)
    /\ phase' = "restoring"
    /\ UNCHANGED <<disk, staged, at, disturbed, lost, stages, outside>>

\* Mutant of Restored: only the files the commit replaced are put back.
RestoredIfReplaced(patch) == IF patch.old = None THEN patch.new ELSE patch.old

\* restoreTo: the old text, or no file.
Restored(patch) == patch.old

\* Newest first; a file that cannot be put back is named in the error.
Restore ==
    LET patch == staged[at] IN
    /\ phase = "restoring" /\ at > 0
    /\ \/ /\ disk' = [disk EXCEPT ![patch.path] = Restored(patch)]
          /\ UNCHANGED <<lost, faults>>
       \/ /\ faults < MaxFaults /\ faults' = faults + 1
          /\ lost' = lost \cup {patch.path}
          /\ UNCHANGED disk
    /\ at' = at - 1
    /\ UNCHANGED <<temps, staged, phase, disturbed, stages, outside>>

\* What is staged stays staged.
Throw ==
    /\ phase = "restoring" /\ at = 0 /\ phase' = "open"
    /\ UNCHANGED <<disk, temps, staged, at, disturbed, lost, Counters>>

-----------------------------------------------------------------------------
(* The others. *)

Checked(p) ==
    /\ phase # "open"
    /\ \E i \in DOMAIN staged : staged[i].path = p /\ (phase = "checking" => i <= at)

Outside(p, b) ==
    /\ outside < MaxOutside /\ disk[p] # b
    /\ outside' = outside + 1
    /\ disk' = [disk EXCEPT ![p] = b]
    /\ disturbed' = IF Checked(p) THEN disturbed \cup {p} ELSE disturbed
    /\ UNCHANGED <<temps, staged, phase, at, lost, stages, faults>>

\* The process dies: nothing cleans up, and a new one stages anew.
Die ==
    /\ phase # "open" /\ faults < MaxFaults
    /\ faults' = faults + 1
    /\ staged' = <<>> /\ phase' = "open" /\ at' = 0
    /\ UNCHANGED <<disk, temps, disturbed, lost, stages, outside>>

Next ==
    \/ \E p \in Paths, b \in Texts : Stage(p, b)
    \/ Rollback \/ BeginCommit \/ Check \/ Conflict \/ WriteTemp \/ Rename
    \/ Fail \/ Unlink \/ Restore \/ Throw \/ Die
    \/ \E p \in Paths, b \in HumanTexts \cup {None} : Outside(p, b)

Spec == Init /\ [][Next]_vars
-----------------------------------------------------------------------------
(* Properties. *)

\* Every variable stays in its type; a path is staged once.
TypeOK ==
    /\ disk \in [Paths -> Values] /\ temps \subseteq Paths
    /\ staged \in Seq(Patch) /\ Cardinality(StagedPaths) = Len(staged)
    /\ phase \in Phases /\ at \in 0..Len(staged)
    /\ disturbed \subseteq Paths /\ lost \subseteq Paths

\* The files this commit has renamed into place and not put back.
Renamed ==
    IF phase \in {"renaming", "failing", "restoring"}
    THEN {staged[i].path : i \in 1..at} ELSE {}

PatchOf(p) == staged[CHOOSE i \in DOMAIN staged : staged[i].path = p]

\* Until the last rename a file stands for what a failure would restore.
Promise(p) ==
    IF phase # "open" /\ p \in disturbed \cup lost THEN "unknown"
    ELSE IF p \in Renamed THEN PatchOf(p).old ELSE disk[p]

Promised == [p \in Paths |-> Promise(p)]

Pending == [p \in StagedPaths |-> PatchOf(p).new]

Abstract == INSTANCE AtomicCommit WITH
    Foreign <- HumanTexts \cup {None},
    Unknown <- "unknown",
    files <- Promised, pending <- Pending, committing <- phase # "open"

\* The three-phase commit implements the atomic one: whichever system call
\* fails, and whoever writes in between, all the files change or none does.
ImplementsAtomicCommit == Abstract!Spec

\* A commit never replaces a text other than the one its edit was staged
\* against, unless that text was written after the check of its file.
NoLostEdit ==
    [][LET patch == staged[at + 1] IN
       Rename /\ patch.path \notin disturbed => disk[patch.path] = patch.old]_vars
================================================================================
