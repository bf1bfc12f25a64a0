------------------------------- MODULE ToolsProofs ------------------------------
(***************************************************************************)
(* What stands behind a tool call promises, for all places, calls, checks, *)
(* shells, terminals and profiles.  The parts share no state: each has an  *)
(* invariant of its own, and a step of another leaves it alone.            *)
(***************************************************************************)
EXTENDS MCTools, Sequences, SequencesExt, WellFoundedInduction, TLAPS

-----------------------------------------------------------------------------
(* Induction over a bounded range, in a form the provers can use: the        *)
(* theorems of the library take an operator as a parameter, which none of    *)
(* them can instantiate.                                                     *)

\* A set of naturals has a least one.
LEMMA Least ==
  ASSUME NEW S \in SUBSET Nat, NEW n \in S
  PROVE  \E m \in S : \A x \in S : m <= x
  <1> DEFINE R == OpToRel(<, Nat)
  <1>1. IsWellFoundedOn(R, Nat)
    BY NatLessThanWellFounded
  <1>2. \A x, y \in Nat : <<y, x>> \in R <=> y < x
    BY DEF OpToRel
  <1> HIDE DEF R
  <1>3. PICK m \in S : \A x \in S : ~(<<x, m>> \in R)
    BY <1>1, WFMin
  <1>4. \A x \in S : ~(x < m)
    BY <1>2, <1>3
  <1> QED BY <1>4

\* What holds of 0 and is passed on holds up to L: there is no least number of
\* which it does not hold.
LEMMA UpTo ==
  ASSUME NEW L \in Nat, NEW S, 0 \in S, \A m \in 0..(L - 1) : m \in S => m + 1 \in S
  PROVE  \A m \in 0..L : m \in S
  <1> DEFINE T == {m \in 0..L : m \notin S}
  <1> SUFFICES ASSUME NEW k \in T PROVE FALSE
    OBVIOUS
  <1>1. PICK m \in T : \A x \in T : m <= x
    <2>1. T \in SUBSET Nat
      OBVIOUS
    <2> QED BY <2>1, Least
  <1>2. m \in 0..L /\ m # 0
    OBVIOUS
  <1>3. m - 1 \in 0..L /\ m - 1 \in 0..(L - 1) /\ (m - 1) + 1 = m /\ ~(m <= m - 1)
    BY <1>2
  <1>4. m - 1 \notin S
    BY <1>3
  <1> QED BY <1>1, <1>3, <1>4


(***************************************************************************)
(* The three-phase commit implements the atomic one, for all paths, texts  *)
(* and numbers of faults.  The invariant says what the checks of phase 0   *)
(* are still worth later: a file that nobody else wrote since its check    *)
(* holds what its edit was staged against, until its rename, and the new   *)
(* text from then on.                                                      *)
(***************************************************************************)
Shape ==
    /\ disk \in [Paths -> Values]
    /\ staged \in Seq(Patch)
    /\ phase \in Phases /\ at \in Nat
    /\ phase # "open" => at < Len(staged)

\* A path is staged once.
Once(s) == \A i, j \in DOMAIN s : s[i].path = s[j].path => i = j

\* The files whose check still counts, and those that are replaced.
Untouched(i) ==
    \/ phase = "checking" /\ i <= at
    \/ phase = "writing"
    \/ phase = "renaming" /\ i > at

Kept ==
    \A i \in DOMAIN staged : staged[i].path \notin disturbed =>
      /\ Untouched(i) => disk[staged[i].path] = staged[i].old
      /\ phase = "renaming" /\ i <= at => disk[staged[i].path] = staged[i].new

IInv == Shape /\ Once(staged) /\ Kept

-----------------------------------------------------------------------------
(* The invariant. *)

LEMMA InitIInv == Init => IInv
  <1> SUFFICES ASSUME Init PROVE IInv  OBVIOUS
  <1>1. Shape
    BY DEF Init, Shape, Values, Phases
  <1>2. Once(staged) /\ Kept
    BY DEF Init, Once, Kept
  <1> QED BY <1>1, <1>2 DEF IInv

LEMMA StageIInv ==
  ASSUME IInv, NEW p \in Paths, NEW b \in Texts, Stage(p, b)
  PROVE  IInv'
  <1> DEFINE patch == [path |-> p, old |-> disk[p], new |-> b]
  <1>0. patch \in Patch /\ patch.path = p
    BY DEF IInv, Shape, Patch
  <1> HIDE DEF patch
  <1>1. CASE p \in StagedPaths
    <2>1. staged' = [i \in DOMAIN staged |-> IF staged[i].path = p THEN patch ELSE staged[i]]
      BY <1>1 DEF Stage, patch
    <2>2. staged' \in Seq(Patch) /\ Len(staged') = Len(staged) /\ DOMAIN staged' = DOMAIN staged
      BY <1>0, <2>1 DEF IInv, Shape
    <2>3. \A i \in DOMAIN staged : staged'[i].path = staged[i].path
      BY <1>0, <2>1
    <2>4. Shape'
      BY <2>2 DEF Stage, IInv, Shape
    <2>5. Once(staged')
      BY <2>2, <2>3 DEF IInv, Once
    <2>6. Kept'
      BY DEF Stage, Kept, Untouched
    <2> QED BY <2>4, <2>5, <2>6 DEF IInv
  <1>2. CASE p \notin StagedPaths
    <2>1. staged' = Append(staged, patch)
      BY <1>2 DEF Stage, patch
    <2>2. /\ staged' \in Seq(Patch) /\ Len(staged') = Len(staged) + 1
          /\ staged'[Len(staged) + 1] = patch
          /\ \A i \in DOMAIN staged : staged'[i] = staged[i]
          /\ DOMAIN staged' = DOMAIN staged \cup {Len(staged) + 1}
      BY <1>0, <2>1 DEF IInv, Shape
    <2>3. \A i \in DOMAIN staged : staged[i].path # p
      BY <1>2 DEF StagedPaths
    <2>4. Shape'
      BY <2>2 DEF Stage, IInv, Shape
    <2>5. Once(staged')
      BY <1>0, <2>2, <2>3 DEF IInv, Once
    <2>6. Kept'
      BY DEF Stage, Kept, Untouched
    <2> QED BY <2>4, <2>5, <2>6 DEF IInv
  <1> QED BY <1>1, <1>2

LEMMA AdvanceMoves ==
  ASSUME Shape, phase # "open", NEW next, Advance(next)
  PROVE  \/ at' = at + 1 /\ at' < Len(staged) /\ phase' = phase
         \/ at' = 0 /\ at + 1 = Len(staged) /\ phase' = next
  BY DEF Shape, Advance, Finished

LEMMA CommitIInv ==
  ASSUME IInv, Rollback \/ BeginCommit \/ Check \/ Conflict \/ WriteTemp \/ Rename
  PROVE  IInv'
  <1> USE DEF IInv
  <1>1. CASE Rollback
    BY <1>1 DEF Rollback, Shape, Once, Kept, Untouched, Counters
  <1>2. CASE BeginCommit
    BY <1>2 DEF BeginCommit, Shape, Once, Kept, Untouched, Phases, Counters
  <1>3. CASE Check
    <2>1. \/ at' = at + 1 /\ at' < Len(staged) /\ phase' = "checking"
          \/ at' = 0 /\ at + 1 = Len(staged) /\ phase' = "writing"
      BY <1>3, AdvanceMoves DEF Check
    <2>2. /\ disk[staged[at + 1].path] = staged[at + 1].old /\ phase = "checking"
          /\ UNCHANGED <<disk, staged, disturbed>>
      BY <1>3 DEF Check, Unchanged
    <2>3. Shape' /\ Once(staged)'
      BY <2>1, <2>2 DEF Shape, Phases, Once
    <2>4. Kept'
      BY <2>1, <2>2 DEF Kept, Untouched, Shape
    <2> QED BY <2>3, <2>4
  <1>4. CASE Conflict
    BY <1>4 DEF Conflict, Shape, Once, Kept, Untouched, Phases, Counters
  <1>5. CASE WriteTemp
    <2>1. \/ at' = at + 1 /\ at' < Len(staged) /\ phase' = "writing"
          \/ at' = 0 /\ at + 1 = Len(staged) /\ phase' = "renaming"
      BY <1>5, AdvanceMoves DEF WriteTemp
    <2>2. phase = "writing" /\ UNCHANGED <<disk, staged, disturbed>>
      BY <1>5 DEF WriteTemp
    <2>3. Shape' /\ Once(staged)'
      BY <2>1, <2>2 DEF Shape, Phases, Once
    <2>4. Kept'
      BY <2>1, <2>2 DEF Kept, Untouched, Shape
    <2> QED BY <2>3, <2>4
  <1>6. CASE Rename
    <2> DEFINE patch == staged[at + 1]
    <2>1. patch \in Patch /\ at + 1 \in DOMAIN staged /\ phase = "renaming"
      BY <1>6 DEF Rename, Shape
    <2>2. disk' = [disk EXCEPT ![patch.path] = patch.new] /\ UNCHANGED disturbed
      BY <1>6 DEF Rename
    <2>3. disk' \in [Paths -> Values]
      BY <2>1, <2>2 DEF Shape, Patch, Values
    <2>4. CASE Finished(at + 1)
      BY <1>6, <2>3, <2>4 DEF Rename, Shape, Once, Kept, Untouched, Phases
    <2>5. CASE ~Finished(at + 1)
      <3>1. at' = at + 1 /\ at' < Len(staged) /\ UNCHANGED <<phase, staged>>
        BY <1>6, <2>1, <2>5 DEF Rename, Finished, Shape
      <3>2. Shape' /\ Once(staged)'
        BY <2>3, <3>1 DEF Shape, Once
      <3>3. \A i \in DOMAIN staged : i # at + 1 => disk'[staged[i].path] = disk[staged[i].path]
        BY <2>1, <2>2 DEF Shape, Once, Patch
      <3>4. disk'[patch.path] = patch.new
        BY <2>1, <2>2 DEF Shape, Patch
      <3>5. Kept'
        BY <2>1, <2>2, <3>1, <3>3, <3>4 DEF Kept, Untouched, Shape
      <3> QED BY <3>2, <3>5
    <2> QED BY <2>4, <2>5
  <1> QED BY <1>1, <1>2, <1>3, <1>4, <1>5, <1>6

LEMMA FailureIInv ==
  ASSUME IInv, Fail \/ Unlink \/ Restore \/ Throw \/ Die
  PROVE  IInv'
  <1> USE DEF IInv
  <1>1. CASE Fail
    BY <1>1 DEF Fail, Shape, Once, Kept, Untouched, Phases
  <1>2. CASE Unlink
    BY <1>2 DEF Unlink, Shape, Once, Kept, Untouched, Phases
  <1>3. CASE Restore
    <2>1. staged[at] \in Patch /\ at - 1 \in Nat /\ at - 1 < Len(staged)
      BY <1>3 DEF Restore, Shape
    <2>2. disk' \in [Paths -> Values]
      BY <1>3, <2>1 DEF Restore, Restored, Shape, Patch
    <2>3. phase' = "restoring" /\ at' = at - 1 /\ UNCHANGED <<staged, disturbed>>
      BY <1>3 DEF Restore
    <2>4. Shape' /\ Once(staged)'
      BY <2>1, <2>2, <2>3 DEF Shape, Phases, Once
    <2>5. Kept'
      BY <2>3 DEF Kept, Untouched
    <2> QED BY <2>4, <2>5
  <1>4. CASE Throw
    BY <1>4 DEF Throw, Shape, Once, Kept, Untouched, Phases, Counters
  <1>5. CASE Die
    BY <1>5 DEF Die, Shape, Once, Kept, Untouched, Phases
  <1> QED BY <1>1, <1>2, <1>3, <1>4, <1>5

LEMMA OutsideIInv ==
  ASSUME IInv, NEW p \in Paths, NEW b \in HumanTexts \cup {None}, Outside(p, b)
  PROVE  IInv'
  <1> USE DEF IInv
  <1>1. Shape' /\ Once(staged)'
    BY DEF Outside, Shape, Once, Values
  <1>2. \A i \in DOMAIN staged : staged[i].path # p => disk'[staged[i].path] = disk[staged[i].path]
    BY DEF Outside, Shape
  <1>3. \A i \in DOMAIN staged :
          staged[i].path = p /\ (Untouched(i) \/ phase = "renaming") => p \in disturbed'
    BY DEF Outside, Checked, Untouched
  <1>4. Kept'
    BY <1>2, <1>3 DEF Outside, Kept, Untouched
  <1> QED BY <1>1, <1>4

LEMMA StepIInv == IInv /\ [Next]_vars => IInv'
  <1> SUFFICES ASSUME IInv, [Next]_vars PROVE IInv'  OBVIOUS
  <1>1. CASE UNCHANGED vars
    BY <1>1 DEF vars, IInv, Shape, Once, Kept, Untouched
  <1> QED BY <1>1, StageIInv, CommitIInv, FailureIInv, OutsideIInv DEF Next

\* A file whose check still counts holds what its edit was staged against.
THEOREM Inductive == Spec => []IInv
  BY InitIInv, StepIInv, PTL DEF Spec

\* A commit replaces no text other than the one its edit was staged against,
\* unless that text was written after the check of its file.
THEOREM NoLostEditHolds == Spec => NoLostEdit
  <1> DEFINE Lossless ==
        Rename /\ staged[at + 1].path \notin disturbed
          => disk[staged[at + 1].path] = staged[at + 1].old
  <1>1. IInv => Lossless
    BY DEF IInv, Shape, Kept, Untouched, Rename
  <1>2. IInv /\ [Next]_vars => [Lossless]_vars
    BY <1>1
  <1> QED BY <1>2, Inductive, PTL DEF Spec, NoLostEdit

-----------------------------------------------------------------------------
(* The refinement.  What is promised of a file, by its place among the     *)
(* staged ones.                                                            *)

Replaced(i) == phase \in {"renaming", "failing", "restoring"} /\ i <= at

Broken(p) == phase # "open" /\ p \in disturbed \cup lost

PromiseFacts ==
    /\ \A i \in DOMAIN staged :
         /\ PatchOf(staged[i].path) = staged[i]
         /\ Promise(staged[i].path) =
              IF Broken(staged[i].path) THEN "unknown"
              ELSE IF Replaced(i) THEN staged[i].old ELSE disk[staged[i].path]
    /\ \A p \in Paths \ StagedPaths : Promise(p) = IF Broken(p) THEN "unknown" ELSE disk[p]

LEMMA PromiseIs == IInv => PromiseFacts
  <1> SUFFICES ASSUME IInv PROVE PromiseFacts  OBVIOUS
  <1>1. ASSUME NEW i \in DOMAIN staged PROVE PatchOf(staged[i].path) = staged[i]
    <2> DEFINE j == CHOOSE k \in DOMAIN staged : staged[k].path = staged[i].path
    <2>1. j \in DOMAIN staged /\ staged[j].path = staged[i].path
      OBVIOUS
    <2>2. j = i
      BY <2>1 DEF IInv, Once
    <2> QED BY <2>2 DEF PatchOf
  <1>2. \A i \in DOMAIN staged : staged[i].path \in Renamed <=> Replaced(i)
    BY DEF IInv, Shape, Once, Renamed, Replaced
  <1>3. Renamed \subseteq StagedPaths
    BY DEF IInv, Shape, Renamed, StagedPaths
  <1> QED BY <1>1, <1>2, <1>3 DEF PromiseFacts, Promise, Broken

LEMMA PromiseWillBe == IInv' => PromiseFacts'
  BY PromiseIs, PTL

LEMMA SameStaged == ASSUME staged' = staged PROVE Pending' = Pending /\ StagedPaths' = StagedPaths
  BY DEF Pending, StagedPaths, PatchOf

\* Nothing is promised but what is there, while no commit is under way.
LEMMA OpenPromises == phase = "open" => \A p \in Paths : Promise(p) = disk[p]
  BY DEF Promise, Renamed

LEMMA OpenWillPromise == phase' = "open" => \A p \in Paths : Promise(p)' = disk'[p]
  BY DEF Promise, Renamed

LEMMA InitMaps == Init => Abstract!Init
  BY OpenPromises DEF Init, Abstract!Init, Promised, Pending, StagedPaths, Values

LEMMA StageMaps ==
  ASSUME IInv, IInv', NEW p \in Paths, NEW b \in Texts, Stage(p, b)
  PROVE  Abstract!Stage(p, b)
  <1>1. phase = "open" /\ phase' = "open" /\ disk' = disk
    BY DEF Stage
  <1>2. Promised' = Promised
    BY <1>1, OpenPromises, OpenWillPromise DEF Promised
  <1> DEFINE patch == [path |-> p, old |-> disk[p], new |-> b]
  <1>3. \A i \in DOMAIN staged' :
          \/ staged'[i] = patch
          \/ i \in DOMAIN staged /\ staged'[i] = staged[i] /\ staged[i].path # p
    <2>1. CASE p \in StagedPaths
      BY <2>1 DEF Stage
    <2>2. CASE p \notin StagedPaths
      <3>1. patch \in Patch /\ staged \in Seq(Patch) /\ staged' = Append(staged, patch)
        BY <2>2 DEF Stage, IInv, Shape, Patch
      <3>2. \A i \in DOMAIN staged : staged[i].path # p
        BY <2>2 DEF StagedPaths
      <3> HIDE DEF patch
      <3> QED BY <3>1, <3>2
    <2> QED BY <2>1, <2>2
  <1>4. StagedPaths' = StagedPaths \cup {p}
    <2>1. CASE p \in StagedPaths
      <3>1. DOMAIN staged' = DOMAIN staged
        BY <2>1 DEF Stage
      <3>2. \A i \in DOMAIN staged : staged'[i].path = staged[i].path
        BY <2>1 DEF Stage
      <3> QED BY <2>1, <3>1, <3>2 DEF StagedPaths
    <2>2. CASE p \notin StagedPaths
      <3>1. patch \in Patch /\ patch.path = p /\ staged \in Seq(Patch) /\ staged' = Append(staged, patch)
        BY <2>2 DEF Stage, IInv, Shape, Patch
      <3> HIDE DEF patch
      <3>2. /\ DOMAIN staged' = DOMAIN staged \cup {Len(staged) + 1}
            /\ staged'[Len(staged) + 1].path = p
            /\ \A i \in DOMAIN staged : staged'[i] = staged[i]
        BY <3>1
      <3> QED BY <3>2 DEF StagedPaths
    <2> QED BY <2>1, <2>2
  <1>5. ASSUME NEW q \in StagedPaths'
        PROVE  PatchOf(q)'.new = IF q = p THEN b ELSE PatchOf(q).new
    <2>1. PICK i \in DOMAIN staged' : staged'[i].path = q
      BY DEF StagedPaths
    <2>2. PatchOf(q)' = staged'[i]
      BY <2>1, PromiseWillBe DEF PromiseFacts
    <2>3. i \in DOMAIN staged => PatchOf(staged[i].path) = staged[i]
      BY PromiseIs DEF PromiseFacts
    <2> QED BY <1>3, <2>1, <2>2, <2>3
  <1>6. Pending' = [q \in DOMAIN Pending \cup {p} |-> IF q = p THEN b ELSE Pending[q]]
    BY <1>4, <1>5 DEF Pending
  <1> QED BY <1>1, <1>2, <1>6 DEF Abstract!Stage

LEMMA StutterMaps ==
  ASSUME IInv, IInv', Check \/ WriteTemp \/ Fail \/ Unlink \/ UNCHANGED vars
  PROVE  UNCHANGED <<Promised, Pending, phase # "open">>
  <1> USE DEF IInv, Shape, Renamed, Phases
  <1>1. UNCHANGED <<disk, staged, disturbed, lost>>
    BY DEF Check, WriteTemp, Fail, Unlink, Counters, vars
  <1>2. (phase # "open") = (phase' # "open") /\ Renamed' = Renamed
    <2>1. CASE Check
      BY <2>1, AdvanceMoves DEF Check
    <2>2. CASE WriteTemp
      BY <2>2, AdvanceMoves DEF WriteTemp
    <2>3. CASE Fail
      BY <2>3 DEF Fail
    <2>4. CASE Unlink \/ UNCHANGED vars
      BY <2>4 DEF Unlink, vars
    <2> QED BY <2>1, <2>2, <2>3, <2>4
  <1>3. \A p \in Paths : Promise(p)' = Promise(p)
    <2> SUFFICES ASSUME NEW p \in Paths PROVE Promise(p)' = Promise(p)  OBVIOUS
    <2>1. PatchOf(p)' = PatchOf(p)
      BY <1>1 DEF PatchOf
    <2> HIDE DEF IInv, Shape, Renamed, Phases
    <2> QED BY <1>1, <1>2, <2>1 DEF Promise
  <1> QED BY <1>1, <1>2, <1>3, SameStaged DEF Promised

\* A commit that is refused, or that was undone.
LEMMA RefuseMaps == ASSUME IInv, Conflict \/ Throw PROVE Abstract!Refuse
  <1>1. phase # "open" /\ phase' = "open" /\ UNCHANGED <<disk, staged>>
    BY DEF Conflict, Throw, Counters
  <1>2. \A p \in Paths : Promise(p) # "unknown" => Promise(p) = disk[p]
    BY DEF Conflict, Throw, Promise, Renamed
  <1>3. Promised' = disk
    BY <1>1, OpenWillPromise DEF Promised, IInv, Shape
  <1>4. Pending' = Pending
    BY <1>1, SameStaged
  <1> QED BY <1>1, <1>2, <1>3, <1>4 DEF Abstract!Refuse, Abstract!Become, Promised, IInv, Shape

LEMMA RollbackMaps == ASSUME IInv, Rollback PROVE Abstract!Rollback
  <1>1. phase = "open" /\ phase' = "open" /\ disk' = disk /\ staged' = <<>>
    BY DEF Rollback
  <1>2. Promised' = Promised
    BY <1>1, OpenPromises, OpenWillPromise DEF Promised
  <1>3. Pending' = <<>>
    BY <1>1 DEF Pending, StagedPaths
  <1> QED BY <1>1, <1>2, <1>3 DEF Abstract!Rollback

LEMMA BeginMaps == ASSUME IInv, BeginCommit PROVE Abstract!Begin
  <1>1. /\ phase = "open" /\ phase' = "checking" /\ UNCHANGED <<disk, staged>>
        /\ disturbed' = {} /\ lost' = {}
    BY DEF BeginCommit
  <1>2. \A p \in Paths : Promise(p)' = disk[p]
    BY <1>1 DEF Promise, Renamed
  <1>3. Promised' = Promised
    BY <1>1, <1>2, OpenPromises DEF Promised
  <1> QED BY <1>1, <1>3, SameStaged DEF Abstract!Begin

LEMMA RenameMaps ==
  ASSUME IInv, IInv', Rename
  PROVE  Abstract!Commit \/ UNCHANGED <<Promised, Pending, phase # "open">>
  <1> DEFINE patch == staged[at + 1]
  <1>1. /\ at + 1 \in DOMAIN staged /\ patch \in Patch /\ phase = "renaming"
        /\ disk' = [disk EXCEPT ![patch.path] = patch.new]
    BY DEF Rename, IInv, Shape
  <1>2. \A i \in DOMAIN staged : i # at + 1 => disk'[staged[i].path] = disk[staged[i].path]
    BY <1>1 DEF IInv, Shape, Once, Patch
  <1>3. disk'[patch.path] = patch.new
    BY <1>1 DEF IInv, Shape, Patch
  <1>4. \A p \in Paths \ StagedPaths : disk'[p] = disk[p]
    BY <1>1 DEF StagedPaths, IInv, Shape
  <1>5. CASE Finished(at + 1)
    <2>1. phase' = "open" /\ staged' = <<>>
      BY <1>5 DEF Rename
    <2>2. Pending' = <<>>
      BY <2>1 DEF Pending, StagedPaths
    <2>3. Promised' = disk' /\ Promised' \in [Paths -> Values]
      BY <2>1, OpenWillPromise DEF Promised, IInv, Shape
    <2>4. ASSUME NEW p \in Paths, Promise(p) # "unknown"
          PROVE  disk'[p] = IF p \in StagedPaths THEN PatchOf(p).new ELSE Promise(p)
      <3>1. CASE p \notin StagedPaths
        BY <2>4, <3>1, <1>4, PromiseIs DEF PromiseFacts
      <3>2. CASE p \in StagedPaths
        <4>1. PICK i \in DOMAIN staged : staged[i].path = p
          BY <3>2 DEF StagedPaths
        <4>2. PatchOf(p) = staged[i] /\ p \notin disturbed
          BY <2>4, <4>1, <1>1, PromiseIs DEF PromiseFacts, Broken
        <4>3. i = at + 1 \/ i <= at
          BY <1>5, <4>1 DEF Finished, IInv, Shape
        <4>4. disk'[p] = staged[i].new
          BY <1>1, <1>2, <1>3, <4>1, <4>2, <4>3 DEF IInv, Kept
        <4> QED BY <3>2, <4>2, <4>4
      <3> QED BY <3>1, <3>2
    <2> QED BY <1>1, <2>1, <2>2, <2>3, <2>4 DEF Abstract!Commit, Abstract!Become, Promised, Pending
  <1>6. CASE ~Finished(at + 1)
    <2>1. at' = at + 1 /\ UNCHANGED <<phase, staged, disturbed, lost>>
      BY <1>6 DEF Rename
    <2>2. ASSUME NEW p \in Paths PROVE Promise(p)' = Promise(p)
      <3>1. CASE p \notin StagedPaths
        BY <3>1, <2>1, <1>4, PromiseIs, PromiseWillBe, SameStaged DEF PromiseFacts, Broken
      <3>2. CASE p \in StagedPaths
        <4>1. PICK i \in DOMAIN staged : staged[i].path = p
          BY <3>2 DEF StagedPaths
        <4>2. CASE Broken(p)
          BY <4>2, <2>1 DEF Promise, Broken
        <4>3. CASE ~Broken(p)
          <5>1. Promise(p) = IF i <= at THEN staged[i].old ELSE disk[p]
            BY <1>1, <4>1, <4>3, PromiseIs DEF PromiseFacts, Replaced
          <5>2. Promise(p)' = IF i <= at + 1 THEN staged[i].old ELSE disk'[p]
            BY <1>1, <2>1, <4>1, <4>3, PromiseWillBe DEF PromiseFacts, Replaced, Broken
          <5>3. i = at + 1 => disk[p] = staged[i].old
            BY <1>1, <4>1, <4>3 DEF IInv, Kept, Untouched, Shape, Broken
          <5> QED BY <1>2, <4>1, <5>1, <5>2, <5>3 DEF IInv, Shape
        <4> QED BY <4>2, <4>3
      <3> QED BY <3>1, <3>2
    <2> QED BY <2>1, <2>2, SameStaged DEF Promised
  <1> QED BY <1>5, <1>6

LEMMA RestoreMaps ==
  ASSUME IInv, IInv', Restore
  PROVE  (\E p \in Paths : Abstract!Lost(p)) \/ UNCHANGED <<Promised, Pending, phase # "open">>
  <1>0. /\ at \in DOMAIN staged /\ phase = "restoring" /\ at' = at - 1
        /\ UNCHANGED <<phase, staged, disturbed>>
    BY DEF Restore, IInv, Shape
  <1> DEFINE patch == staged[at]
  <1>1. PICK q \in Paths : q = patch.path /\ patch \in Patch /\ q \in StagedPaths
    <2>1. patch \in Patch
      BY <1>0 DEF IInv, Shape
    <2>2. patch.path \in StagedPaths
      BY <1>0 DEF StagedPaths
    <2> HIDE DEF patch
    <2>3. patch.path \in Paths
      BY <2>1 DEF Patch
    <2> QED BY <2>1, <2>2, <2>3
  <1>2. Promise(q) = IF Broken(q) THEN "unknown" ELSE patch.old
    BY <1>0, <1>1, PromiseIs DEF PromiseFacts, Replaced, IInv, Shape
  <1>3. Promise(q)' = IF Broken(q)' THEN "unknown" ELSE disk'[q]
    <2>1. at \in DOMAIN staged' /\ staged'[at].path = q
      BY <1>0, <1>1
    <2>2. ~(phase' \in {"renaming", "failing", "restoring"} /\ at <= at')
      BY <1>0 DEF IInv, Shape
    <2> QED BY <2>1, <2>2, PromiseWillBe DEF PromiseFacts, Replaced
  <1>4. ASSUME NEW p \in Paths, p # q, disk'[p] = disk[p], Broken(p)' = Broken(p)
        PROVE  Promise(p)' = Promise(p)
    <2>1. CASE p \notin StagedPaths
      BY <1>0, <1>4, <2>1, PromiseIs, PromiseWillBe, SameStaged DEF PromiseFacts
    <2>2. CASE p \in StagedPaths
      <3>1. PICK i \in DOMAIN staged : staged[i].path = p
        BY <2>2 DEF StagedPaths
      <3>2. i <= at <=> i <= at - 1
        BY <1>0, <1>1, <1>4, <3>1 DEF IInv, Shape
      <3>3. Promise(p) = IF Broken(p) THEN "unknown" ELSE IF i <= at THEN staged[i].old ELSE disk[p]
        BY <1>0, <3>1, PromiseIs DEF PromiseFacts, Replaced
      <3>4. Promise(p)' = IF Broken(p)' THEN "unknown" ELSE IF i <= at - 1 THEN staged[i].old ELSE disk'[p]
        BY <1>0, <3>1, PromiseWillBe DEF PromiseFacts, Replaced
      <3> QED BY <1>4, <3>2, <3>3, <3>4
    <2> QED BY <2>1, <2>2
  <1>5. CASE disk' = [disk EXCEPT ![q] = Restored(patch)] /\ UNCHANGED <<lost, faults>>
    <2>1. \A p \in Paths : Broken(p)' = Broken(p)
      BY <1>0, <1>5 DEF Broken
    <2>2. disk'[q] = patch.old /\ \A p \in Paths : p # q => disk'[p] = disk[p]
      BY <1>0, <1>1, <1>5 DEF Restored, IInv, Shape
    <2>3. \A p \in Paths : Promise(p)' = Promise(p)
      <3>1. Promise(q)' = Promise(q)
        BY <1>2, <1>3, <2>1, <2>2
      <3>2. \A p \in Paths : p # q => Promise(p)' = Promise(p)
        BY <1>4, <2>1, <2>2
      <3> QED BY <3>1, <3>2
    <2> QED BY <1>0, <2>3, SameStaged DEF Promised
  <1>6. CASE lost' = lost \cup {q} /\ UNCHANGED disk
    <2>1. \A p \in Paths : p # q => Broken(p)' = Broken(p)
      BY <1>0, <1>6 DEF Broken
    <2>2. Promise(q)' = "unknown"
      BY <1>0, <1>3, <1>6 DEF Broken
    <2>3. \A p \in Paths : p # q => Promise(p)' = Promise(p)
      BY <1>4, <1>6, <2>1
    <2>4. Promised' = [Promised EXCEPT ![q] = "unknown"]
      <3> HIDE DEF patch
      <3> QED BY <2>2, <2>3 DEF Promised
    <2>5. q \in DOMAIN Pending /\ phase # "open"
      BY <1>0, <1>1 DEF Pending
    <2> QED BY <1>0, <2>4, <2>5, SameStaged DEF Abstract!Lost, Abstract!Others
  <1> QED BY <1>1, <1>5, <1>6 DEF Restore

\* Several staged files: the last of them is not replaced yet.
LEMMA DieMaps == ASSUME IInv, Die PROVE Abstract!Die
  <1>1. phase # "open" /\ phase' = "open" /\ disk' = disk /\ staged' = <<>>
    BY DEF Die
  <1>2. Pending' = <<>>
    BY <1>1 DEF Pending, StagedPaths
  <1>3. Promised' = disk /\ Promised' \in [Paths -> Values]
    BY <1>1, OpenWillPromise DEF Promised, IInv, Shape
  <1>4. ASSUME NEW p \in Paths, Promise(p) # "unknown", p \notin StagedPaths \/ StagedPaths = {p}
        PROVE  disk[p] = Promise(p)
    <2>1. CASE p \notin StagedPaths
      BY <1>4, <2>1, PromiseIs DEF PromiseFacts
    <2>2. CASE StagedPaths = {p}
      <3>1. Len(staged) \in DOMAIN staged /\ at < Len(staged)
        BY <1>1 DEF IInv, Shape
      <3>2. staged[Len(staged)].path = p
        BY <2>2, <3>1 DEF StagedPaths
      <3>3. ~Replaced(Len(staged))
        BY <3>1 DEF Replaced, IInv, Shape
      <3> QED BY <1>4, <3>1, <3>2, <3>3, PromiseIs DEF PromiseFacts
    <2> QED BY <1>4, <2>1, <2>2
  <1> QED BY <1>1, <1>2, <1>3, <1>4 DEF Abstract!Die, Promised, Pending

LEMMA OutsideMaps ==
  ASSUME IInv, IInv', NEW p \in Paths, NEW b \in HumanTexts \cup {None}, Outside(p, b)
  PROVE  \/ Abstract!Others(p, b) \/ Abstract!Lost(p)
         \/ UNCHANGED <<Promised, Pending, phase # "open">>
  <1>1. /\ disk' = [disk EXCEPT ![p] = b] /\ UNCHANGED <<staged, phase, at, lost>>
        /\ disturbed' = IF Checked(p) THEN disturbed \cup {p} ELSE disturbed
    BY DEF Outside
  <1>2. Renamed' = Renamed /\ \A q \in Paths : PatchOf(q)' = PatchOf(q)
    BY <1>1 DEF Renamed, PatchOf
  <1>3. \A q \in Paths : q # p => disk'[q] = disk[q] /\ (q \in disturbed' <=> q \in disturbed)
    BY <1>1 DEF IInv, Shape
  <1>4. \A q \in Paths : q # p => Promise(q)' = Promise(q)
    BY <1>1, <1>2, <1>3 DEF Promise
  <1>5. disk'[p] = b
    BY <1>1 DEF IInv, Shape
  <1>6. CASE phase # "open" /\ p \in disturbed \cup lost
    <2>1. Promise(p)' = Promise(p)
      BY <1>1, <1>6 DEF Promise
    <2> QED BY <1>1, <1>4, <2>1, SameStaged DEF Promised
  <1>7. CASE Checked(p)
    <2>1. Promise(p)' = "unknown" /\ phase # "open"
      BY <1>1, <1>7 DEF Promise, Checked
    <2>2. p \in DOMAIN Pending
      BY <1>7 DEF Checked, Pending, StagedPaths
    <2>3. Promised' = [Promised EXCEPT ![p] = "unknown"]
      BY <1>4, <2>1 DEF Promised
    <2> QED BY <1>1, <2>1, <2>2, <2>3, SameStaged DEF Abstract!Lost, Abstract!Others
  <1>8. CASE ~(phase # "open" /\ p \in disturbed \cup lost) /\ ~Checked(p)
    <2>1. p \notin Renamed
      BY <1>8 DEF Renamed, Checked, IInv, Shape
    <2>2. Promise(p)' = b
      BY <1>1, <1>2, <1>5, <1>8, <2>1 DEF Promise
    <2>3. Promised' = [Promised EXCEPT ![p] = b]
      BY <1>4, <2>2 DEF Promised
    <2> QED BY <1>1, <2>3, SameStaged DEF Abstract!Others
  <1> QED BY <1>6, <1>7, <1>8

LEMMA StepMaps ==
  ASSUME IInv, IInv', [Next]_vars
  PROVE  [Abstract!Next]_<<Promised, Pending, phase # "open">>
  <1>1. CASE Check \/ WriteTemp \/ Fail \/ Unlink \/ UNCHANGED vars
    BY <1>1, StutterMaps
  <1>2. ASSUME NEW p \in Paths, NEW b \in Texts, Stage(p, b) PROVE Abstract!Next
    <2>1. b \in Values
      BY DEF Values
    <2> QED BY <1>2, <2>1, StageMaps DEF Abstract!Next
  <1>3. CASE Rollback \/ BeginCommit \/ Conflict \/ Throw \/ Die
    BY <1>3, RollbackMaps, BeginMaps, RefuseMaps, DieMaps DEF Abstract!Next
  <1>4. CASE Rename \/ Restore
    BY <1>4, RenameMaps, RestoreMaps DEF Abstract!Next
  <1>5. ASSUME NEW p \in Paths, NEW b \in HumanTexts \cup {None}, Outside(p, b)
        PROVE  [Abstract!Next]_<<Promised, Pending, phase # "open">>
    BY <1>5, OutsideMaps DEF Abstract!Next
  <1> QED BY <1>1, <1>2, <1>3, <1>4, <1>5 DEF Next

\* Whichever system call fails, whoever writes in between and whenever the
\* process dies, all the files of a commit change or none does, but for what
\* AtomicCommit leaves open.
THEOREM ImplementsAtomicCommitHolds == Spec => ImplementsAtomicCommit
  <1>1. IInv /\ IInv' /\ [Next]_vars => [Abstract!Next]_<<Promised, Pending, phase # "open">>
    BY StepMaps
  <1> QED BY <1>1, InitMaps, Inductive, PTL
          DEF Spec, ImplementsAtomicCommit, Abstract!Spec, Abstract!vars

(***************************************************************************)
(* What the gateway promises of the moment a tool runs, for all places,    *)
(* calls and changes in between.  Nothing is known there of the mode, the  *)
(* rules and the text, which change during every await; so the invariant   *)
(* is about the call alone: what was written into it when it passed a gate *)
(* stays true of it.  Only what the last gate reads again is of that       *)
(* moment.                                                                 *)
(***************************************************************************)
CallType == [tool : Gateway!Tools \cup {None}, at : Gateway!Places \cup {None}, to : Gateway!Places \cup {None},
         refresh : BOOLEAN, mode : Gateway!Modes \cup {None}, shown : Gateway!Verdicts \cup {None},
         flagged : BOOLEAN, human : BOOLEAN]

GatewayShape ==
    /\ mode \in Gateway!Modes /\ rules \in Gateway!Verdicts /\ unsafe \in BOOLEAN
    /\ gate \in Gateway!Phases
    /\ call \in CallType
    /\ gate # "idle" => call.tool \in Gateway!Tools

\* A call that names places has them.
Placed == gate # "idle" /\ Gateway!NamesPlace(call.tool) => call.at \in Gateway!Places /\ call.to \in Gateway!Places

\* What was proposed, and what the human was shown.
Proposed ==
    gate # "idle" =>
        /\ call.tool = "shell" => call.shown \in Gateway!Verdicts
        /\ call.flagged => Gateway!Reviewed(call.tool)

\* Past the approval: a human said yes, or nobody had to.
Cleared ==
    gate \notin {"idle", "asking"} =>
        \/ call.human
        \/ Gateway!ApprovesItself(call.tool, call.flagged)
        \/ call.tool = "shell" /\ call.shown # "ask"

\* Past the gate of the mode: that mode does not forbid the tool.
ModeAllows ==
    gate \in {"limiting", "checking", "resolving", "running"} =>
        /\ call.mode \in Gateway!Modes
        /\ call.mode = "ask" => ~Gateway!IsMutating(call.tool)
        /\ call.mode = "plan" => Gateway!Permission(call.tool) # "shell" /\ Gateway!Origin(call.tool) # "mcp"

\* Past the fence.
Inside == gate = "resolving" => ~Gateway!Fenced

CallIInv == GatewayShape /\ Placed /\ Proposed /\ Cleared /\ ModeAllows /\ Inside

\* Every place that is remembered was read after the last change.
Remembers ==
    /\ turnCache \subseteq Gateway!Places /\ wrote \in Nat
    /\ seen \in [Gateway!Places -> Nat \cup {None}]
    /\ \A p \in turnCache : seen[p] = wrote

-----------------------------------------------------------------------------
(* The call. *)

LEMMA NoCallIsCall == Gateway!NoCall \in CallType
  BY DEF Gateway!NoCall, CallType

LEMMA InitCall == Gateway!Init => CallIInv
  BY NoCallIsCall DEF Gateway!Init, CallIInv, GatewayShape, Gateway!Phases, Placed, Proposed, Cleared,
                      ModeAllows, Inside

LEMMA OverCall ==
  ASSUME CallIInv, Gateway!Over, UNCHANGED <<mode, rules, unsafe>>
  PROVE  CallIInv'
  BY NoCallIsCall DEF Gateway!Over, CallIInv, GatewayShape, Gateway!Phases, Placed, Proposed, Cleared,
                      ModeAllows, Inside

\* The user and others do not touch the call.
LEMMA OutsideCall ==
  ASSUME CallIInv, UNCHANGED <<gate, call>>,
         mode' \in Gateway!Modes, rules' \in Gateway!Verdicts, unsafe' \in BOOLEAN
  PROVE  CallIInv'
  BY DEF CallIInv, GatewayShape, Placed, Proposed, Cleared, ModeAllows, Inside, Gateway!Fenced,
         Gateway!NamedPlaces

\* One phase further, with the call as it is.
LEMMA FurtherCall ==
  ASSUME CallIInv, UNCHANGED <<mode, rules, unsafe, call>>,
         \/ gate = "limiting" /\ gate' = "checking"
         \/ gate = "checking" /\ gate' = "resolving" /\ ~Gateway!Fenced
         \/ gate \in {"checking", "resolving"} /\ gate' = "running"
  PROVE  CallIInv'
  BY DEF CallIInv, GatewayShape, Gateway!Phases, Placed, Proposed, Cleared, ModeAllows, Inside, Gateway!Fenced,
         Gateway!NamedPlaces

LEMMA ProposeCall ==
  ASSUME CallIInv, NEW t \in Gateway!Tools, NEW p \in Gateway!Places \cup {None}, NEW q \in Gateway!Places \cup {None},
         NEW refresh \in BOOLEAN, Gateway!Propose(t, p, q, refresh)
  PROVE  CallIInv'
  <1>1. CASE Gateway!Over
    BY <1>1, OverCall DEF Gateway!Propose, Gateway!outer
  <1>2. CASE ~Gateway!Over
    <2>1. PICK flagged \in BOOLEAN, shown \in Gateway!Verdicts \cup {None} :
            /\ flagged <=> Gateway!Reviewed(t) /\ unsafe
            /\ shown = IF t = "shell" THEN rules ELSE None
            /\ call' = [Gateway!NoCall EXCEPT !.tool = t, !.at = p, !.to = q, !.refresh = refresh,
                                              !.flagged = flagged, !.shown = shown]
            /\ gate' = IF ~Gateway!NeedsHuman(t) \/ Gateway!ApprovesItself(t, flagged) THEN "approved" ELSE "asking"
      BY <1>2 DEF Gateway!Propose, Gateway!Reviewed, CallIInv, GatewayShape
    <2>2. /\ UNCHANGED <<mode, rules, unsafe>>
          /\ Gateway!NamesPlace(t) => p # None /\ q # None
      BY <1>2 DEF Gateway!Propose, Gateway!outer
    <2>3. flagged => t = "edit" /\ Gateway!NeedsHuman(t)
      BY <2>1 DEF Gateway!Reviewed, Gateway!NeedsHuman
    <2>4. call' = [tool |-> t, at |-> p, to |-> q, refresh |-> refresh, mode |-> None,
                   shown |-> shown, flagged |-> flagged, human |-> FALSE]
      BY <2>1 DEF Gateway!NoCall
    <2>5. call' \in CallType
      BY <2>4 DEF CallType
    <2>6. gate' = "approved" => Gateway!ApprovesItself(t, flagged) \/ (t = "shell" /\ rules # "ask")
      BY <2>1 DEF Gateway!NeedsHuman, Gateway!Reviewed
    <2> QED BY <2>1, <2>2, <2>3, <2>4, <2>5, <2>6
            DEF CallIInv, GatewayShape, Gateway!Phases, Placed, Proposed, Cleared, ModeAllows, Inside,
                Gateway!Reviewed
  <1> QED BY <1>1, <1>2

LEMMA AnswerCall == ASSUME CallIInv, NEW yes \in BOOLEAN, Gateway!Answer(yes) PROVE CallIInv'
  <1>1. CASE Gateway!Over
    BY <1>1, OverCall DEF Gateway!Answer, Gateway!outer
  <1>2. CASE ~Gateway!Over
    <2>1. /\ gate = "asking" /\ gate' = "approved" /\ UNCHANGED <<mode, rules, unsafe>>
          /\ call' = [call EXCEPT !.human = TRUE]
      BY <1>2 DEF Gateway!Answer, Gateway!outer
    <2>2. /\ call' \in CallType /\ call'.human /\ call'.tool = call.tool /\ call'.at = call.at
          /\ call'.to = call.to /\ call'.shown = call.shown /\ call'.flagged = call.flagged
      BY <2>1 DEF CallIInv, GatewayShape, CallType
    <2> QED BY <2>1, <2>2 DEF CallIInv, GatewayShape, Gateway!Phases, Placed, Proposed, Cleared, ModeAllows,
                              Inside
  <1> QED BY <1>1, <1>2

LEMMA EnterCall == ASSUME CallIInv, Gateway!Enter PROVE CallIInv'
  <1>1. CASE Gateway!Over
    BY <1>1, OverCall DEF Gateway!Enter, Gateway!outer
  <1>2. CASE ~Gateway!Over
    <2>1. /\ gate = "approved" /\ gate' \in {"limiting", "checking"}
          /\ call' = [call EXCEPT !.mode = mode]
          /\ ~Gateway!BlockedByMode(call.tool) /\ UNCHANGED <<mode, rules, unsafe>>
      BY <1>2 DEF Gateway!Enter, Gateway!outer
    <2>2. /\ call' \in CallType /\ call'.mode = mode /\ call'.tool = call.tool /\ call'.at = call.at
          /\ call'.to = call.to /\ call'.shown = call.shown /\ call'.flagged = call.flagged
          /\ call'.human = call.human
      BY <2>1 DEF CallIInv, GatewayShape, CallType
    <2> QED BY <2>1, <2>2 DEF CallIInv, GatewayShape, Gateway!Phases, Placed, Proposed, Cleared, ModeAllows,
                              Inside,
                              Gateway!BlockedByMode
  <1> QED BY <1>1, <1>2

LEMMA GateCall ==
  ASSUME CallIInv, Gateway!AwaitRateLimit \/ Gateway!Refuse \/ Gateway!CheckUrl \/ Gateway!RefuseShell \/ Gateway!RefusePatch
                   \/ Gateway!PointToSeen \/ Gateway!Execute
  PROVE  CallIInv'
  <1>1. UNCHANGED <<mode, rules, unsafe>>
    BY DEF Gateway!AwaitRateLimit, Gateway!Refuse, Gateway!CheckUrl, Gateway!RefuseShell, Gateway!RefusePatch,
           Gateway!PointToSeen, Gateway!Execute, Gateway!outer
  <1>2. CASE Gateway!Over
    BY <1>1, <1>2, OverCall
  <1>3. CASE ~Gateway!Over
    BY <1>1, <1>3, FurtherCall
       DEF Gateway!AwaitRateLimit, Gateway!Refuse, Gateway!CheckUrl, Gateway!RefuseShell, Gateway!RefusePatch,
           Gateway!PointToSeen, Gateway!Execute, Gateway!Passed, Gateway!Checked
  <1> QED BY <1>2, <1>3

LEMMA AroundCall ==
  ASSUME CallIInv,
         \/ \E gone \in SUBSET Gateway!Places : Gateway!MakeRoom(gone)
         \/ Gateway!BeginTurn \/ Gateway!OtherText \/ (\E m \in Gateway!Modes : Gateway!SetMode(m)) \/ (\E v \in Gateway!Verdicts : Gateway!EditRules(v))
         \/ UNCHANGED gatewayVars
  PROVE  CallIInv'
  <1>1. UNCHANGED <<gate, call>>
    BY DEF Gateway!MakeRoom, Gateway!BeginTurn, Gateway!OtherText, Gateway!SetMode, Gateway!EditRules,
           gatewayVars
  <1>2. mode' \in Gateway!Modes /\ rules' \in Gateway!Verdicts /\ unsafe' \in BOOLEAN
    BY DEF CallIInv, GatewayShape, Gateway!MakeRoom, Gateway!BeginTurn, Gateway!OtherText, Gateway!SetMode,
           Gateway!EditRules, gatewayVars, Gateway!outer
  <1> QED BY <1>1, <1>2, OutsideCall

LEMMA StepCall == CallIInv /\ [Gateway!Next]_gatewayVars => CallIInv'
  <1> SUFFICES ASSUME CallIInv, [Gateway!Next]_gatewayVars PROVE CallIInv'  OBVIOUS
  <1>1. ASSUME NEW ok \in BOOLEAN, NEW large \in BOOLEAN, Gateway!Finish(ok, large) PROVE CallIInv'
    BY <1>1, OverCall DEF Gateway!Finish, Gateway!outer
  <1> QED BY <1>1, ProposeCall, AnswerCall, EnterCall, GateCall, AroundCall DEF Gateway!Next

-----------------------------------------------------------------------------
(* The steps of all of them. *)

all == <<tool, editVars, gatewayVars, shellVars, lineVars, suiteVars, limiterVars, credentialVars>>

LEMMA ToolStep ==
  ASSUME [MCNext]_all
  PROVE  /\ [Gateway!Next]_gatewayVars
         /\ Background!Next \/ UNCHANGED shellVars
         /\ Suite!Next \/ UNCHANGED suiteVars
         /\ [Credential!Next]_credentialVars
  BY DEF MCNext, all

\* What the gates a call has passed established of it, whatever has changed
\* since.
LEMMA CallHolds == MCSpec => []CallIInv
<1>1. MCInit => CallIInv
  BY InitCall DEF MCInit
<1>2. CallIInv /\ [MCNext]_all => CallIInv'
  BY ToolStep, StepCall
<1> QED BY <1>1, <1>2, PTL DEF MCSpec, all

-----------------------------------------------------------------------------
(* When a tool runs. *)

\* A tool that runs can change nothing in ask mode and only plans in plan
\* mode, the mode being the one it entered the gateway in, whatever the user
\* switched to during the rate limit and the resolution of a URL.
LEMMA ModeHonouredHolds == MCSpec => Gateway!ModeHonoured
  <1>1. ASSUME CallIInv, Gateway!Execute
        PROVE  /\ call.mode = "ask" => Gateway!CanChange = {}
               /\ call.mode = "plan" => Gateway!CanChange \subseteq PlanFiles
    <2>1. /\ call.tool \in Gateway!Tools /\ ~Gateway!Fenced
          /\ call.mode = "ask" => ~Gateway!IsMutating(call.tool)
          /\ call.mode = "plan" => Gateway!Permission(call.tool) # "shell" /\ Gateway!Origin(call.tool) # "mcp"
      BY <1>1 DEF Gateway!Execute, Gateway!Passed, Gateway!Checked, CallIInv, GatewayShape, Inside, ModeAllows
    <2>2. ASSUME call.mode = "ask" PROVE Gateway!CanChange = {}
      BY <2>1, <2>2 DEF Gateway!CanChange, Gateway!IsMutating
    <2>3. ASSUME call.mode = "plan" PROVE Gateway!CanChange \subseteq PlanFiles
      <3>1. call.tool # "shell" /\ call.tool # "mcp"
        BY <2>1, <2>3 DEF Gateway!Permission, Gateway!Origin
      <3>2. call.tool # "git_write"
        BY <2>1, <2>3 DEF Gateway!Fenced, Gateway!IsMutating, Gateway!Grade
      <3>3. call.tool \in {"edit", "move"} => Gateway!NamedPlaces \subseteq PlanFiles
        BY <2>1, <2>3 DEF Gateway!Fenced, Gateway!IsMutating
      <3> QED BY <3>1, <3>2, <3>3 DEF Gateway!CanChange
    <2> QED BY <2>2, <2>3
  <1>2. CallIInv /\ [MCNext]_all =>
          [Gateway!Execute => /\ call.mode = "ask" => Gateway!CanChange = {}
                              /\ call.mode = "plan" => Gateway!CanChange \subseteq PlanFiles]_(Gateway!vars)
    BY <1>1
  <1> QED BY <1>2, CallHolds, PTL DEF MCSpec, all, Gateway!ModeHonoured

\* A command that runs is allowed by the rules as they are then, or asked for
\* by them and approved by a human.
LEMMA ShellClearedHolds == MCSpec => Gateway!ShellCleared
  <1>1. ASSUME CallIInv, Gateway!Execute, call.tool = "shell", call.shown # "deny"
        PROVE  rules = "allow" \/ (rules = "ask" /\ call.human)
    <2>1. /\ ~Gateway!ShellRefused /\ rules \in Gateway!Verdicts /\ call.shown \in Gateway!Verdicts
          /\ call.human \/ call.shown # "ask"
      BY <1>1 DEF Gateway!Execute, Gateway!Passed, Gateway!Checked, CallIInv, GatewayShape, Proposed, Cleared,
                  Gateway!ApprovesItself, Gateway!Permission
    <2> QED BY <1>1, <2>1 DEF Gateway!ShellRefused, Gateway!ShellSource, Gateway!Verdicts
  <1>2. CallIInv /\ [MCNext]_all =>
          [Gateway!Execute /\ call.tool = "shell" /\ call.shown # "deny" =>
             rules = "allow" \/ (rules = "ask" /\ call.human)]_(Gateway!vars)
    BY <1>1
  <1> QED BY <1>2, CallHolds, PTL DEF MCSpec, all, Gateway!ShellCleared

\* An edit that hides a problem when it is made was shown to a human who said
\* yes as one that does.
LEMMA OverrideWasShownHolds == MCSpec => Gateway!OverrideWasShown
  <1>1. ASSUME CallIInv, Gateway!Execute, Gateway!Reviewed(call.tool), unsafe PROVE call.flagged /\ call.human
    BY <1>1 DEF Gateway!Execute, Gateway!Passed, Gateway!Checked, Gateway!PatchRefused, CallIInv, GatewayShape,
                Cleared, Gateway!ApprovesItself, Gateway!Reviewed
  <1>2. CallIInv /\ [MCNext]_all =>
          [Gateway!Execute /\ Gateway!Reviewed(call.tool) /\ unsafe => call.flagged /\ call.human]_(Gateway!vars)
    BY <1>1
  <1> QED BY <1>2, CallHolds, PTL DEF MCSpec, all, Gateway!OverrideWasShown

\* What runs is within the mode it entered the gateway in, by the rules as they
\* are then or with a human's yes to what they asked, and shown to that human
\* as what it is (ToolGateway.ts).
THEOREM OnlyTheAllowed == MCSpec => OnlyTheAllowedRuns
  BY ModeHonouredHolds, ShellClearedHolds, OverrideWasShownHolds DEF OnlyTheAllowedRuns

-----------------------------------------------------------------------------
(* What is remembered of the reads. *)

LEMMA StepRemembers == CallIInv /\ Remembers /\ [Gateway!Next]_gatewayVars => Remembers'
  <1> SUFFICES ASSUME CallIInv, Remembers, [Gateway!Next]_gatewayVars PROVE Remembers'  OBVIOUS
  <1> USE DEF Remembers
  <1>1. ASSUME NEW ok \in BOOLEAN, NEW large \in BOOLEAN, Gateway!Finish(ok, large) PROVE Remembers'
    <2>1. /\ gate = "running" /\ turnCache' = Gateway!Remembered(ok, large)
          /\ wrote' = IF Gateway!IsMutating(call.tool) /\ ok THEN wrote + 1 ELSE wrote
          /\ seen' = IF call.tool = "read" /\ ok THEN [seen EXCEPT ![call.at] = wrote] ELSE seen
      BY <1>1 DEF Gateway!Finish
    <2>2. CASE Gateway!IsMutating(call.tool) /\ ok
      BY <2>1, <2>2 DEF Gateway!Remembered, Gateway!IsMutating
    <2>3. CASE ~(Gateway!IsMutating(call.tool) /\ ok) /\ call.tool = "read" /\ ok
      <3>1. call.at \in Gateway!Places
        BY <2>1, <2>3 DEF CallIInv, Placed, Gateway!NamesPlace
      <3> QED BY <2>1, <2>3, <3>1 DEF Gateway!Remembered
    <2>4. CASE ~(Gateway!IsMutating(call.tool) /\ ok) /\ ~(call.tool = "read" /\ ok)
      BY <2>1, <2>4 DEF Gateway!Remembered, Gateway!Cacheable
    <2> QED BY <2>2, <2>3, <2>4
  <1>2. ASSUME NEW gone \in SUBSET Gateway!Places, Gateway!MakeRoom(gone) PROVE Remembers'
    BY <1>2 DEF Gateway!MakeRoom, Gateway!Forgets
  <1>3. CASE Gateway!BeginTurn
    BY <1>3 DEF Gateway!BeginTurn, Gateway!Forgets
  <1>4. CASE UNCHANGED <<turnCache, seen, wrote>>
    BY <1>4
  <1> QED BY <1>1, <1>2, <1>3, <1>4
          DEF Gateway!Next, Gateway!Propose, Gateway!Answer, Gateway!Enter, Gateway!AwaitRateLimit,
              Gateway!Refuse, Gateway!CheckUrl, Gateway!RefuseShell, Gateway!RefusePatch,
              Gateway!PointToSeen, Gateway!Execute, Gateway!SetMode, Gateway!EditRules, Gateway!OtherText, Gateway!memory, gatewayVars

\* The model is pointed to a result only while it still sees it, and no tool
\* has reported a change since (ToolGateway.ts).
THEOREM CachedTrueHolds == MCSpec => CachedTrue
  <1>1. MCInit => Remembers
    BY DEF MCInit, Gateway!Init, Remembers
  <1>2. ASSUME Remembers, Gateway!PointToSeen PROVE seen[call.at] = wrote
    BY <1>2 DEF Remembers, Gateway!PointToSeen, Gateway!IsRepeat
  <1>3. Remembers /\ [MCNext]_all => [Gateway!PointToSeen => seen[call.at] = wrote]_(Gateway!vars)
    BY <1>2
  <1>4. CallIInv /\ Remembers /\ [MCNext]_all => Remembers'
    BY ToolStep, StepRemembers
  <1> QED BY <1>1, <1>3, <1>4, CallHolds, PTL DEF MCSpec, all, CachedTrue, Gateway!CachedTrue

(***************************************************************************)
(* A listed credential profile has its secret, for every number of         *)
(* terminals and profiles.  That a creation puts the secret away first is  *)
(* not enough: what a terminal has read it writes back later, so what must *)
(* not lose its secret is every profile in somebody's hands, and a cleanup *)
(* may only take the secret of a profile that nobody has seen.             *)
(***************************************************************************)
Stages == {"idle", "set secret", "read", "write", "clean up", "unlist", "forget"}

Work == [at : Stages, profile : Profiles \cup {Credential!NoProfile}, read : SUBSET Profiles]

\* A terminal at work on a profile that is not listed yet.
Creating(t) == terminal[t].at \in {"set secret", "read", "write", "clean up"}

\* A profile may be listed: it has a secret, or somebody set out to delete it.
Vouched(p) == p \in FromEnvironment \cup secrets \cup deleted

\* The terminals are where the code can be, and lists hold created profiles.
CredentialShape ==
    /\ terminal \in [Terminals -> Work]
    /\ created \subseteq Profiles /\ registry \subseteq created
    /\ \A t \in Terminals : terminal[t].read \subseteq created

\* What the file lists and what a terminal may write back is vouched for.
ListsVouched ==
    /\ \A p \in registry : Vouched(p)
    /\ \A t \in Terminals : \A p \in terminal[t].read : Vouched(p)

\* A profile in the making is new: nobody has read of it.
NewIsUnseen ==
    \A t \in Terminals : Creating(t) =>
      /\ terminal[t].profile \in created /\ terminal[t].profile \notin registry
      /\ \A u \in Terminals : terminal[t].profile \notin terminal[u].read

\* It is one terminal's own.
NewIsOwned ==
    \A t, u \in Terminals :
      Creating(t) /\ Creating(u) /\ t # u => terminal[t].profile # terminal[u].profile

\* The secret is there before the file is read, and what is being deleted is
\* known to be.
InOrder ==
    \A t \in Terminals :
      /\ terminal[t].at \in {"read", "write"} => Vouched(terminal[t].profile)
      /\ terminal[t].at \in {"unlist", "forget"} => terminal[t].profile \in deleted

CredentialIInv == CredentialShape /\ ListsVouched /\ NewIsUnseen /\ NewIsOwned /\ InOrder

-----------------------------------------------------------------------------

LEMMA CredentialInit == Credential!Init => CredentialIInv
  <1> SUFFICES ASSUME Credential!Init PROVE CredentialIInv  OBVIOUS
  <1>1. \A t \in Terminals : terminal[t] = Credential!Idle
    BY DEF Credential!Init
  <1>2. CredentialShape
    BY <1>1 DEF Credential!Init, CredentialShape, Work, Stages, Credential!Idle
  <1>3. ListsVouched /\ NewIsUnseen /\ NewIsOwned /\ InOrder
    BY <1>1 DEF Credential!Init, Credential!Idle, ListsVouched, NewIsUnseen, NewIsOwned, InOrder, Creating
  <1> QED BY <1>2, <1>3 DEF CredentialIInv

-----------------------------------------------------------------------------
(* What a step does to the terminals: one of them has moved. *)

Moved(t, stage, p, read) ==
    /\ terminal' \in [Terminals -> Work]
    /\ \A u \in Terminals \ {t} : terminal'[u] = terminal[u]
    /\ terminal'[t].at = stage /\ terminal'[t].profile = p /\ terminal'[t].read = read

LEMMA PutFields ==
  ASSUME NEW w \in Work, NEW v
  PROVE  /\ [w EXCEPT !.at = v] = [at |-> v, profile |-> w.profile, read |-> w.read]
         /\ [w EXCEPT !.profile = v] = [at |-> w.at, profile |-> v, read |-> w.read]
         /\ [w EXCEPT !.read = v] = [at |-> w.at, profile |-> w.profile, read |-> v]
  BY DEF Work

LEMMA BeginFields ==
  ASSUME NEW stage \in Stages, NEW p \in Profiles
  PROVE  [Credential!Idle EXCEPT !.at = stage, !.profile = p] = [at |-> stage, profile |-> p, read |-> {}]
  <1>1. Credential!Idle \in Work /\ Credential!Idle.profile = Credential!NoProfile /\ Credential!Idle.read = {}
    BY DEF Credential!Idle, Work, Stages
  <1>2. [Credential!Idle EXCEPT !.at = stage] = [at |-> stage, profile |-> Credential!NoProfile, read |-> {}]
    <2>1. [Credential!Idle EXCEPT !.at = stage] = [at |-> stage, profile |-> Credential!Idle.profile, read |-> Credential!Idle.read]
      BY <1>1, PutFields
    <2> QED BY <1>1, <2>1
  <1>3. PICK w \in Work : w = [at |-> stage, profile |-> Credential!NoProfile, read |-> {}]
    BY DEF Work
  <1>4. [w EXCEPT !.profile = p] = [at |-> w.at, profile |-> p, read |-> w.read]
    BY PutFields
  <1>5. w.at = stage /\ w.read = {}
    BY <1>3
  <1> QED BY <1>2, <1>3, <1>4, <1>5

LEMMA PutMoves ==
  ASSUME CredentialShape, NEW t \in Terminals, NEW w \in Work,
         terminal' = [terminal EXCEPT ![t] = w]
  PROVE  Moved(t, w.at, w.profile, w.read)
  BY DEF CredentialShape, Moved, Work

LEMMA GotoMoves ==
  ASSUME CredentialShape, NEW t \in Terminals, NEW stage \in Stages, Credential!Goto(t, stage)
  PROVE  Moved(t, stage, terminal[t].profile, terminal[t].read)
  <1>1. terminal[t] \in Work
    BY DEF CredentialShape
  <1>2. [terminal[t] EXCEPT !.at = stage]
          = [at |-> stage, profile |-> terminal[t].profile, read |-> terminal[t].read]
    BY <1>1 DEF Work
  <1>3. terminal' = [terminal EXCEPT ![t] = [terminal[t] EXCEPT !.at = stage]]
    BY DEF Credential!Goto
  <1> QED BY <1>1, <1>2, <1>3 DEF CredentialShape, Moved, Work

LEMMA LeaveMoves ==
  ASSUME CredentialShape, NEW t \in Terminals, Credential!Leave(t)
  PROVE  Moved(t, "idle", Credential!NoProfile, {})
  BY DEF Credential!Leave, Credential!Idle, CredentialShape, Moved, Work, Stages

LEMMA CreateIInv ==
  ASSUME CredentialIInv, NEW t \in Terminals, NEW p \in Profiles, Credential!Create(t, p)
  PROVE  CredentialIInv'
  <1>1. PICK stage \in {"read", "set secret"} :
           /\ Moved(t, stage, p, {})
           /\ stage = "read" => p \in FromEnvironment
    <2> DEFINE w(stage) == [at |-> stage, profile |-> p, read |-> {}]
    <2>1. w("read") \in Work /\ w("set secret") \in Work
      BY DEF Work, Stages
    <2>2. CASE p \in FromEnvironment
      <3>1. [Credential!Idle EXCEPT !.at = "read", !.profile = p] = w("read")
        BY BeginFields DEF Stages
      <3>2. terminal' = [terminal EXCEPT ![t] = w("read")]
        BY <2>2, <3>1 DEF Credential!Create
      <3> QED BY <3>2, <2>1, <2>2, PutMoves DEF CredentialIInv
    <2>3. CASE p \notin FromEnvironment
      <3>1. [Credential!Idle EXCEPT !.at = "set secret", !.profile = p] = w("set secret")
        BY BeginFields DEF Stages
      <3>2. terminal' = [terminal EXCEPT ![t] = w("set secret")]
        BY <2>3, <3>1 DEF Credential!Create
      <3> QED BY <3>2, <2>1, <2>3, PutMoves DEF CredentialIInv
    <2> QED BY <2>2, <2>3
  <1>2. /\ p \notin created /\ created' = created \cup {p}
        /\ UNCHANGED <<registry, secrets, deleted>>
    BY DEF Credential!Create
  <1>3. CredentialShape'
    BY <1>1, <1>2 DEF CredentialIInv, CredentialShape, Moved
  <1>4. ListsVouched'
    BY <1>1, <1>2 DEF CredentialIInv, ListsVouched, Vouched, Moved
  <1>5. NewIsUnseen'
    BY <1>1, <1>2 DEF CredentialIInv, CredentialShape, NewIsUnseen, NewIsOwned, Creating, Moved
  <1>9. NewIsOwned'
    BY <1>1, <1>2, ZenonT(30) DEF CredentialIInv, CredentialShape, NewIsUnseen, NewIsOwned, Creating, Moved
  <1>6. InOrder'
    BY <1>1, <1>2 DEF CredentialIInv, InOrder, Vouched, Moved
  <1> QED BY <1>3, <1>4, <1>5, <1>6, <1>9 DEF CredentialIInv

LEMMA DeleteIInv ==
  ASSUME CredentialIInv, NEW t \in Terminals, NEW p \in Profiles, Credential!Delete(t, p)
  PROVE  CredentialIInv'
  <1>1. Moved(t, "unlist", p, registry)
    <2>1. [at |-> "unlist", profile |-> p, read |-> registry] \in Work
      BY DEF CredentialIInv, CredentialShape, Work, Stages
    <2>2. terminal' = [terminal EXCEPT ![t] = [at |-> "unlist", profile |-> p, read |-> registry]]
      BY DEF Credential!Delete
    <2> QED BY <2>1, <2>2, PutMoves DEF CredentialIInv
  <1>2. deleted' = deleted \cup {p} /\ UNCHANGED <<registry, secrets, created>>
    BY DEF Credential!Delete
  <1>3. CredentialShape'
    BY <1>1, <1>2 DEF CredentialIInv, CredentialShape, Moved
  <1>4. ListsVouched'
    BY <1>1, <1>2 DEF CredentialIInv, ListsVouched, Vouched, Moved
  <1>5. NewIsUnseen'
    BY <1>1, <1>2 DEF CredentialIInv, NewIsUnseen, NewIsOwned, Creating, Moved
  <1>9. NewIsOwned'
    BY <1>1, <1>2 DEF CredentialIInv, NewIsUnseen, NewIsOwned, Creating, Moved
  <1>6. InOrder'
    BY <1>1, <1>2 DEF CredentialIInv, InOrder, Vouched, Moved
  <1> QED BY <1>3, <1>4, <1>5, <1>6, <1>9 DEF CredentialIInv

\* What is in the making stays so as long as the lists leave it out.
LEMMA NewStays ==
  ASSUME NewIsUnseen, NewIsOwned, UNCHANGED created,
         NEW t \in Terminals, NEW stage, NEW p, NEW read, Moved(t, stage, p, read),
         stage \in {"set secret", "read", "write", "clean up"}
           => Creating(t) /\ p = terminal[t].profile,
         \A a \in Terminals : Creating(a) /\ (a = t => Creating(t)') =>
           terminal[a].profile \notin registry' /\ terminal[a].profile \notin read
  PROVE  NewIsUnseen' /\ NewIsOwned'
  <1>1. \A a \in Terminals : Creating(a)' =>
          /\ Creating(a) /\ terminal'[a].profile = terminal[a].profile
          /\ terminal[a].profile \notin registry' /\ terminal[a].profile \notin read
    BY DEF Moved, Creating
  <1>2. \A u \in Terminals : terminal'[u].read = IF u = t THEN read ELSE terminal[u].read
    BY DEF Moved
  <1>3. NewIsUnseen'
    BY <1>1, <1>2 DEF NewIsUnseen
  <1>4. NewIsOwned'
    BY <1>1 DEF NewIsOwned
  <1> QED BY <1>3, <1>4

LEMMA RestStays ==
  ASSUME NewIsUnseen, NewIsOwned, UNCHANGED created,
         NEW t \in Terminals, Moved(t, "idle", Credential!NoProfile, {}),
         \A a \in Terminals : Creating(a) /\ a # t => terminal[a].profile \notin registry'
  PROVE  NewIsUnseen' /\ NewIsOwned'
  <1>1. ~Creating(t)'
    BY DEF Moved, Creating
  <1>2. \A a \in Terminals : Creating(a)' =>
          a # t /\ Creating(a) /\ terminal'[a].profile = terminal[a].profile
    BY <1>1 DEF Moved, Creating
  <1>3. \A u \in Terminals : terminal'[u].read \subseteq terminal[u].read
    BY DEF Moved
  <1>4. NewIsUnseen'
    BY <1>2, <1>3 DEF NewIsUnseen
  <1>5. NewIsOwned'
    BY <1>2 DEF NewIsOwned
  <1> QED BY <1>4, <1>5

LEMMA CreationIInv ==
  ASSUME CredentialIInv, NEW t \in Terminals, Credential!SetSecret(t) \/ Credential!ReadRegistry(t) \/ Credential!WriteRegistry(t) \/ Credential!CleanUp(t)
  PROVE  CredentialIInv'
  <1> USE DEF CredentialIInv
  <1>1. CASE Credential!SetSecret(t)
    <2>1. \/ secrets' = secrets \cup {terminal[t].profile} /\ Moved(t, "read", terminal[t].profile, terminal[t].read)
          \/ secrets' = secrets /\ Moved(t, "idle", Credential!NoProfile, {})
      BY <1>1, GotoMoves, LeaveMoves DEF Credential!SetSecret, Stages
    <2>2. terminal[t].at = "set secret" /\ UNCHANGED <<registry, created, deleted>>
      BY <1>1 DEF Credential!SetSecret
    <2>3. CredentialShape'
      BY <2>1, <2>2 DEF CredentialShape, Moved
    <2>4. ListsVouched'
      BY <2>1, <2>2 DEF ListsVouched, Vouched, Moved
    <2>5. NewIsUnseen' /\ NewIsOwned'
      <3>1. CASE Moved(t, "read", terminal[t].profile, terminal[t].read)
        BY <2>2, <3>1, NewStays DEF NewIsUnseen, Creating, Moved
      <3>2. CASE Moved(t, "idle", Credential!NoProfile, {})
        BY <2>2, <3>2, NewStays DEF NewIsUnseen, Creating, Moved
      <3> QED BY <2>1, <3>1, <3>2
    <2>6. InOrder'
      BY <2>1, <2>2 DEF InOrder, Vouched, Moved
    <2> QED BY <2>3, <2>4, <2>5, <2>6
  <1>2. CASE Credential!ReadRegistry(t)
    <2>1. \/ Moved(t, "write", terminal[t].profile, registry)
          \/ Moved(t, "clean up", terminal[t].profile, terminal[t].read)
      <3>1. CASE Credential!Goto(t, "clean up")
        BY <3>1, GotoMoves DEF Stages
      <3>2. CASE terminal' = [terminal EXCEPT ![t].at = "write", ![t].read = registry]
        <4>1. terminal[t] \in Work
          BY DEF CredentialShape
        <4>2. [[terminal[t] EXCEPT !.at = "write"] EXCEPT !.read = registry]
                = [at |-> "write", profile |-> terminal[t].profile, read |-> registry]
          <5>1. [terminal[t] EXCEPT !.at = "write"]
                  = [at |-> "write", profile |-> terminal[t].profile, read |-> terminal[t].read]
            BY <4>1 DEF Work
          <5>2. PICK w \in Work :
                  w = [at |-> "write", profile |-> terminal[t].profile, read |-> terminal[t].read]
            BY <4>1 DEF Work, Stages
          <5>3. [w EXCEPT !.read = registry] = [at |-> w.at, profile |-> w.profile, read |-> registry]
            BY PutFields
          <5>4. w.at = "write" /\ w.profile = terminal[t].profile
            BY <5>2
          <5> QED BY <5>1, <5>2, <5>3, <5>4
        <4>3. [at |-> "write", profile |-> terminal[t].profile, read |-> registry] \in Work
          BY <4>1 DEF Work, Stages, CredentialShape
        <4>4. terminal' = [terminal EXCEPT ![t] = [at |-> "write", profile |-> terminal[t].profile, read |-> registry]]
          BY <3>2, <4>1, <4>2 DEF CredentialShape
        <4> QED BY <4>3, <4>4, PutMoves
      <3> QED BY <1>2, <3>1, <3>2 DEF Credential!ReadRegistry
    <2>2. terminal[t].at = "read" /\ UNCHANGED <<registry, secrets, created, deleted>>
      BY <1>2 DEF Credential!ReadRegistry
    <2>3. CredentialShape'
      BY <2>1, <2>2 DEF CredentialShape, Moved
    <2>4. ListsVouched'
      BY <2>1, <2>2 DEF ListsVouched, Vouched, Moved
    <2>5. NewIsUnseen' /\ NewIsOwned'
      BY <2>1, <2>2, NewStays DEF NewIsUnseen, Creating
    <2>6. InOrder'
      BY <2>1, <2>2 DEF InOrder, Vouched, Moved
    <2> QED BY <2>3, <2>4, <2>5, <2>6
  <1>3. CASE Credential!WriteRegistry(t)
    <2>1. \/ /\ registry' = terminal[t].read \cup {terminal[t].profile}
             /\ Moved(t, "idle", Credential!NoProfile, {})
          \/ registry' = registry /\ Moved(t, "clean up", terminal[t].profile, terminal[t].read)
      BY <1>3, GotoMoves, LeaveMoves DEF Credential!WriteRegistry, Stages
    <2>2. terminal[t].at = "write" /\ UNCHANGED <<secrets, created, deleted>>
      BY <1>3 DEF Credential!WriteRegistry
    <2>3. CredentialShape'
      BY <2>1, <2>2 DEF CredentialShape, Moved, NewIsUnseen, Creating
    <2>4. ListsVouched'
      BY <2>1, <2>2 DEF ListsVouched, Vouched, Moved, InOrder
    <2>5. NewIsUnseen' /\ NewIsOwned'
      <3>1. CASE registry' = registry /\ Moved(t, "clean up", terminal[t].profile, terminal[t].read)
        BY <2>2, <3>1, NewStays DEF NewIsUnseen, Creating, Moved
      <3>2. CASE /\ registry' = terminal[t].read \cup {terminal[t].profile}
                 /\ Moved(t, "idle", Credential!NoProfile, {})
        <4>1. \A a \in Terminals : Creating(a) /\ a # t => terminal[a].profile \notin registry'
          BY <2>2, <3>2 DEF NewIsUnseen, NewIsOwned, Creating
        <4> QED BY <2>2, <3>2, <4>1, RestStays
      <3> QED BY <2>1, <3>1, <3>2
    <2>6. InOrder'
      BY <2>1, <2>2 DEF InOrder, Vouched, Moved
    <2> QED BY <2>3, <2>4, <2>5, <2>6
  <1>4. CASE Credential!CleanUp(t)
    <2>1. secrets' = secrets \ {terminal[t].profile} \/ secrets' = secrets
      BY <1>4 DEF Credential!CleanUp
    <2>2. Moved(t, "idle", Credential!NoProfile, {})
      BY <1>4, LeaveMoves DEF Credential!CleanUp
    <2>3. terminal[t].at = "clean up" /\ UNCHANGED <<registry, created, deleted>>
      BY <1>4 DEF Credential!CleanUp
    <2>4. CredentialShape'
      BY <2>2, <2>3 DEF CredentialShape, Moved
    <2>5. ListsVouched'
      BY <2>1, <2>2, <2>3 DEF ListsVouched, Vouched, Moved, NewIsUnseen, Creating
    <2>6. NewIsUnseen' /\ NewIsOwned'
      BY <2>2, <2>3, RestStays DEF NewIsUnseen
    <2>7. InOrder'
      BY <2>1, <2>2, <2>3 DEF InOrder, Vouched, Moved, NewIsOwned, Creating
    <2> QED BY <2>4, <2>5, <2>6, <2>7
  <1> QED BY <1>1, <1>2, <1>3, <1>4

LEMMA DeletionIInv ==
  ASSUME CredentialIInv, NEW t \in Terminals, Credential!Unlist(t) \/ Credential!Forget(t) \/ Credential!Die(t)
  PROVE  CredentialIInv'
  <1> USE DEF CredentialIInv
  <1>1. CASE Credential!Unlist(t)
    <2>1. /\ registry' = terminal[t].read \ {terminal[t].profile} \/ registry' = registry
          /\ \/ Moved(t, "idle", Credential!NoProfile, {})
             \/ Moved(t, "forget", terminal[t].profile, terminal[t].read)
      BY <1>1, GotoMoves, LeaveMoves DEF Credential!Unlist, Stages
    <2>2. terminal[t].at = "unlist" /\ UNCHANGED <<secrets, created, deleted>>
      BY <1>1 DEF Credential!Unlist
    <2>3. CredentialShape'
      BY <2>1, <2>2 DEF CredentialShape, Moved
    <2>4. ListsVouched'
      BY <2>1, <2>2 DEF ListsVouched, Vouched, Moved
    <2>5. NewIsUnseen'
      BY <2>1, <2>2 DEF NewIsUnseen, NewIsOwned, Creating, Moved
    <2>9. NewIsOwned'
      BY <2>1, <2>2 DEF NewIsUnseen, NewIsOwned, Creating, Moved
    <2>6. InOrder'
      BY <2>1, <2>2 DEF InOrder, Vouched, Moved
    <2> QED BY <2>3, <2>4, <2>5, <2>6, <2>9
  <1>2. CASE Credential!Forget(t)
    <2>1. secrets' = secrets \ {terminal[t].profile} \/ secrets' = secrets
      BY <1>2 DEF Credential!Forget
    <2>2. Moved(t, "idle", Credential!NoProfile, {})
      BY <1>2, LeaveMoves DEF Credential!Forget
    <2>3. /\ terminal[t].profile \in deleted
          /\ UNCHANGED <<registry, created, deleted>>
      BY <1>2 DEF Credential!Forget, InOrder
    <2>4. CredentialShape'
      BY <2>2, <2>3 DEF CredentialShape, Moved
    <2>5. ListsVouched'
      BY <2>1, <2>2, <2>3 DEF ListsVouched, Vouched, Moved
    <2>6. NewIsUnseen'
      BY <2>2, <2>3 DEF NewIsUnseen, NewIsOwned, Creating, Moved
    <2>9. NewIsOwned'
      BY <2>2, <2>3 DEF NewIsUnseen, NewIsOwned, Creating, Moved
    <2>7. InOrder'
      BY <2>1, <2>2, <2>3 DEF InOrder, Vouched, Moved
    <2> QED BY <2>4, <2>5, <2>6, <2>7, <2>9
  <1>3. CASE Credential!Die(t)
    <2>1. Moved(t, "idle", Credential!NoProfile, {}) /\ UNCHANGED <<registry, secrets, created, deleted>>
      BY <1>3, LeaveMoves DEF Credential!Die
    <2>2. CredentialShape'
      BY <2>1 DEF CredentialShape, Moved
    <2>3. ListsVouched' /\ NewIsUnseen' /\ NewIsOwned' /\ InOrder'
      BY <2>1 DEF ListsVouched, Vouched, NewIsUnseen, NewIsOwned, Creating, InOrder, Moved
    <2> QED BY <2>2, <2>3
  <1> QED BY <1>1, <1>2, <1>3

-----------------------------------------------------------------------------

\* What lists hold is vouched for, what is being made is unseen.
LEMMA CredentialInductive == MCSpec => []CredentialIInv
<1>1. MCInit => CredentialIInv
  BY CredentialInit DEF MCInit
<1>2. ASSUME CredentialIInv, [Credential!Next]_credentialVars PROVE CredentialIInv'
  <2>1. CASE UNCHANGED credentialVars
    BY <1>2, <2>1 DEF credentialVars, CredentialIInv, CredentialShape, ListsVouched, Vouched, NewIsUnseen,
                      NewIsOwned, Creating, InOrder
  <2> QED BY <1>2, <2>1, CreateIInv, DeleteIInv, CreationIInv, DeletionIInv DEF Credential!Next
<1>3. CredentialIInv /\ [MCNext]_all => CredentialIInv'
  BY <1>2, ToolStep
<1> QED BY <1>1, <1>3, PTL DEF MCSpec, all

\* Whatever the keychain and the file refuse and whichever terminal dies, a
\* listed profile has its secret unless somebody set out to delete it
\* (credential-store.ts).
THEOREM SecretFirstHolds == MCSpec => []SecretFirst
<1>1. CredentialIInv => SecretFirst
  BY DEF CredentialIInv, ListsVouched, Vouched, SecretFirst, Credential!SecretFirst, Credential!Secretless
<1> QED BY <1>1, CredentialInductive, PTL

(***************************************************************************)
(* A green suite ran every gate, for every set of scripts and depth.  What *)
(* is recorded is a prefix of what was discovered, and the verdict is      *)
(* still green only if every gate of the prefix passed.                    *)
(***************************************************************************)

Checks == Suite!Scripts \cup {"tsc_check"}

Marks == Checks \X BOOLEAN

SuiteShape ==
    /\ results \in Seq(Marks)
    /\ suitePassed \in BOOLEAN
    /\ suite \in {"idle", "between", "running", "done"}

Prefix ==
    /\ Len(results) <= Len(Suite!Discovered)
    /\ \A i \in 1..Len(results) : results[i][1] = Suite!Discovered[i]

\* How far it has come.
HowFar ==
    /\ suite = "idle" => results = <<>>
    /\ suite \in {"between", "running"} => Len(results) < Len(Suite!Discovered)
    /\ suite = "done" /\ suitePassed =>
         Len(results) = Len(Suite!Discovered) /\ Suite!Discovered # <<>>

GreenSoFar ==
    suitePassed => \A i \in 1..Len(results) : Suite!Gate(results[i][1]) => results[i][2] = TRUE

SuiteIInv == SuiteShape /\ Prefix /\ HowFar /\ GreenSoFar

\* What a workspace has is a list of checks.
LEMMA WantedIsList == ASSUME NEW check \in Checks, NEW need PROVE Suite!Wanted(check, need) \in Seq(Checks)
<1>1. <<check>> \in Seq(Checks) /\ <<>> \in Seq(Checks)
  OBVIOUS
<1> QED BY <1>1 DEF Suite!Wanted

LEMMA DiscoveredIsList == Suite!Discovered \in Seq(Checks)
<1> DEFINE checks == Suite!Wanted("typecheck", "basic") \o Suite!Wanted("check-types", "basic")
                     \o Suite!Wanted("build", "standard")
                     \o Suite!Wanted(Suite!TestScript, "deep") \o Suite!Wanted("lint", "deep")
<1>1. Suite!TestScript \in Checks
  BY DEF Suite!TestScript, Checks, Suite!Scripts
<1>0. {"typecheck", "check-types", "build", "lint", "tsc_check"} \subseteq Checks
  BY DEF Checks, Suite!Scripts
<1>2. /\ Suite!Wanted("typecheck", "basic") \in Seq(Checks) /\ Suite!Wanted("check-types", "basic") \in Seq(Checks)
      /\ Suite!Wanted("build", "standard") \in Seq(Checks) /\ Suite!Wanted("lint", "deep") \in Seq(Checks)
      /\ Suite!Wanted(Suite!TestScript, "deep") \in Seq(Checks)
  BY <1>0, <1>1, WantedIsList
<1>3. checks \in Seq(Checks)
  BY <1>2
<1>4. <<"tsc_check">> \in Seq(Checks)
  BY <1>0
<1>5. Suite!Discovered = IF checks = <<>> /\ workspace.tsconfig THEN <<"tsc_check">> ELSE checks
  BY DEF Suite!Discovered
<1> QED BY <1>3, <1>4, <1>5

LEMMA SuiteInit == Suite!Init => SuiteIInv
<1> SUFFICES ASSUME Suite!Init PROVE SuiteIInv
  OBVIOUS
<1>1. Len(Suite!Discovered) \in Nat
  BY DiscoveredIsList
<1>2. results = <<>> /\ suite = "idle" /\ suitePassed = FALSE
  BY DEF Suite!Init
<1>6. <<>> \in Seq(Marks)
  OBVIOUS
<1>7. FALSE \in BOOLEAN /\ "idle" \in {"idle", "between", "running", "done"}
  OBVIOUS
<1>3. SuiteShape
  BY <1>2, <1>6, <1>7, Zenon DEF SuiteShape
<1>4. Prefix /\ HowFar
  BY <1>1, <1>2 DEF Prefix, HowFar
<1>5. GreenSoFar
  BY <1>2 DEF GreenSoFar
<1> QED BY <1>3, <1>4, <1>5 DEF SuiteIInv

LEMMA SuiteRecord ==
  ASSUME SuiteIInv, suite = "running", NEW passed \in BOOLEAN,
         Suite!Record(Suite!Current, passed), Suite!Discovered' = Suite!Discovered
  PROVE  SuiteIInv'
<1> DEFINE d == Suite!Discovered
           n == Len(results) + 1
<1>1. d \in Seq(Checks) /\ Len(d) \in Nat /\ Len(results) \in Nat /\ n \in 1..Len(d)
  BY DiscoveredIsList DEF SuiteIInv, SuiteShape, HowFar
<1>2. d[n] \in Checks
  BY <1>1
<1>3. results' = Append(results, <<d[n], passed>>)
  BY DEF Suite!Record, Suite!Current
<1>4. suitePassed' = (suitePassed /\ ~Suite!FailsSuite(d[n], passed))
  BY DEF Suite!Record, Suite!Current
<1>5. suite' = IF Suite!FailsSuite(d[n], passed) \/ Len(results') = Len(d) THEN "done" ELSE "between"
  BY DEF Suite!Record, Suite!Current
<1>6. <<d[n], passed>> \in Marks
  BY <1>2 DEF Marks
<1> HIDE DEF d
<1>7. /\ results' \in Seq(Marks) /\ Len(results') = n
      /\ \A i \in 1..n : results'[i] = IF i = n THEN <<d[n], passed>> ELSE results[i]
  BY <1>1, <1>3, <1>6 DEF SuiteIInv, SuiteShape
<1>8. SuiteShape'
  BY <1>4, <1>5, <1>7 DEF SuiteIInv, SuiteShape
<1>9. Prefix'
  BY <1>1, <1>7 DEF SuiteIInv, Prefix, d
<1>10. HowFar'
  <2>1. suite' = "between" => Len(results') < Len(d)
    BY <1>1, <1>5, <1>7
  <2>2. suite' = "done" /\ suitePassed' => Len(results') = Len(d)
    BY <1>4, <1>5
  <2>3. d # <<>>
    BY <1>1
  <2> QED BY <1>5, <2>1, <2>2, <2>3 DEF HowFar, d
<1>11. GreenSoFar'
  <2> SUFFICES ASSUME suitePassed', NEW i \in 1..n, Suite!Gate(results'[i][1]) PROVE results'[i][2] = TRUE
    BY <1>7 DEF GreenSoFar, Suite!Gate
  <2>1. suitePassed /\ ~Suite!FailsSuite(d[n], passed)
    BY <1>4
  <2>2. CASE i = n
    <3>1. results'[i] = <<d[n], passed>>
      BY <1>7, <2>2
    <3>2. passed
      BY <2>1, <3>1 DEF Suite!FailsSuite
    <3> QED BY <3>1, <3>2
  <2>3. CASE i # n
    <3>1. i \in 1..Len(results) /\ results'[i] = results[i]
      BY <1>1, <1>7, <2>3
    <3> QED BY <2>1, <3>1 DEF SuiteIInv, GreenSoFar
  <2> QED BY <2>2, <2>3
<1> QED BY <1>8, <1>9, <1>10, <1>11 DEF SuiteIInv

LEMMA SuiteStep == SuiteIInv /\ (Suite!Next \/ UNCHANGED suiteVars) => SuiteIInv'
<1> SUFFICES ASSUME SuiteIInv, Suite!Next \/ UNCHANGED suiteVars PROVE SuiteIInv'
  OBVIOUS
<1>1. Suite!Discovered' = Suite!Discovered
  <2>1. UNCHANGED <<depth, full, workspace>>
    BY DEF Suite!Next, Suite!RunAllChecks, Suite!RunCheck, Suite!Abort, Suite!Exited, suiteVars
  <2> QED BY <2>1 DEF Suite!Discovered, Suite!Wanted, Suite!TestScript, Suite!Rank
<1>2. Len(Suite!Discovered) \in Nat /\ (Suite!Discovered # <<>> => Len(Suite!Discovered) > 0)
  BY DiscoveredIsList
<1>3. CASE Suite!RunAllChecks
  <2>1. /\ suite = "idle" /\ UNCHANGED results
        /\ suitePassed' = (Suite!Discovered # <<>>)
        /\ suite' = IF Suite!Discovered = <<>> THEN "done" ELSE "between"
    BY <1>3 DEF Suite!RunAllChecks
  <2>2. results = <<>> /\ results' = <<>> /\ Len(results') = 0
    BY <2>1 DEF SuiteIInv, HowFar
  <2>3. suitePassed' \in BOOLEAN /\ suite' \in {"between", "done"}
    BY <2>1
  <2>4. SuiteShape'
    BY <2>2, <2>3 DEF SuiteShape
  <2>5. Prefix' /\ GreenSoFar'
    BY <1>1, <1>2, <2>2 DEF Prefix, GreenSoFar
  <2>6. HowFar'
    BY <1>1, <1>2, <2>1, <2>2 DEF HowFar
  <2> QED BY <2>4, <2>5, <2>6 DEF SuiteIInv
<1>4. CASE Suite!RunCheck
  BY <1>1, <1>4 DEF Suite!RunCheck, SuiteIInv, SuiteShape, Prefix, HowFar, GreenSoFar
<1>5. CASE Suite!Abort
  <2>1. CASE suite = "running"
    BY <1>1, <1>5, <2>1, SuiteRecord DEF Suite!Abort, Suite!Interrupt
  <2>2. CASE suite # "running"
    BY <1>1, <1>5, <2>2 DEF Suite!Abort, SuiteIInv, SuiteShape, Prefix, HowFar, GreenSoFar
  <2> QED BY <2>1, <2>2
<1>6. ASSUME NEW passed \in BOOLEAN, Suite!Exited(passed) PROVE SuiteIInv'
  BY <1>1, <1>6, SuiteRecord DEF Suite!Exited
<1>7. CASE UNCHANGED suiteVars
  BY <1>1, <1>7 DEF suiteVars, SuiteIInv, SuiteShape, Prefix, HowFar, GreenSoFar
<1> QED BY <1>3, <1>4, <1>5, <1>6, <1>7 DEF Suite!Next

\* A green suite ran every gate that the workspace has at this depth, and each
\* passed; one that was interrupted never counts as passed
\* (VerificationEngine.ts).
THEOREM GreenIsCompleteHolds == MCSpec => []GreenIsComplete
<1>1. MCInit => SuiteIInv
  BY SuiteInit DEF MCInit
<1>2. SuiteIInv /\ [MCNext]_all => SuiteIInv'
  BY SuiteStep, ToolStep
<1>3. ASSUME SuiteIInv PROVE GreenIsComplete
  <2> SUFFICES ASSUME suite = "done", suitePassed, NEW i \in DOMAIN Suite!Discovered, Suite!Gate(Suite!Discovered[i])
               PROVE  <<Suite!Discovered[i], TRUE>> \in Suite!ToSet(results)
    BY <1>3 DEF GreenIsComplete, Suite!GreenIsComplete, SuiteIInv, HowFar
  <2>1. i \in 1..Len(results) /\ DOMAIN results = 1..Len(results)
    BY <1>3, DiscoveredIsList DEF SuiteIInv, SuiteShape, HowFar
  <2>2. results[i] \in Marks /\ results[i][1] = Suite!Discovered[i] /\ results[i][2] = TRUE
    BY <1>3, <2>1 DEF SuiteIInv, SuiteShape, Prefix, GreenSoFar
  <2>3. PICK check \in Checks, passed \in BOOLEAN : results[i] = <<check, passed>>
    BY <2>2 DEF Marks
  <2>4. check = Suite!Discovered[i] /\ passed = TRUE
    BY <2>2, <2>3
  <2> QED BY <2>1, <2>3, <2>4 DEF Suite!ToSet
<1> QED BY <1>1, <1>2, <1>3, PTL DEF MCSpec, all

(***************************************************************************)
(* A background shell ends once, and its reader misses nothing without     *)
(* being told, for any number of shells, any retention and any output.     *)
(* What trimming takes from the front of a log is what its first offset    *)
(* moves by, so what is retained is always the end of all there was.       *)
(***************************************************************************)
Buffers == Seq(Nat)

\* F[k] is the sum of the first k.
Sums(F, buf, n) == F[0] = 0 /\ \A k \in 1..n : F[k] = F[k - 1] + buf[k]

\* Bytes as it is defined.
Adds(N, buf) == N = [i \in 0..Len(buf) |-> IF i = 0 THEN 0 ELSE N[i - 1] + buf[i]]

LEMMA Summable ==
  ASSUME NEW buf \in Buffers
  PROVE  \E F : Sums(F, buf, Len(buf))
  <1> DEFINE L == Len(buf)
             Good(m) == \E F : Sums(F, buf, m)
             S == {m \in 0..L : Good(m)}
  <1>0. L \in Nat
    BY DEF Buffers
  <1>1. Good(0)
    <2> DEFINE F == [i \in 0..0 |-> 0]
    <2>1. Sums(F, buf, 0)
      BY DEF Sums
    <2> QED BY <2>1
  <1>2. ASSUME NEW m \in 0..(L - 1), Good(m) PROVE Good(m + 1)
    <2>1. PICK F : Sums(F, buf, m)
      BY <1>2
    <2>0. PICK new : new = F[m] + buf[m + 1]
      OBVIOUS
    <2> DEFINE G == [i \in 0..(m + 1) |-> IF i = m + 1 THEN new ELSE F[i]]
    <2>2. m \in Nat
      BY <1>0
    <2>3. G[m + 1] = new /\ \A i \in 0..m : G[i] = F[i]
      BY <2>2
    <2> HIDE DEF G
    <2>4. Sums(G, buf, m + 1)
      <3>1. G[0] = 0
        BY <2>1, <2>2, <2>3 DEF Sums
      <3>2. ASSUME NEW k \in 1..(m + 1) PROVE G[k] = G[k - 1] + buf[k]
        <4>1. CASE k = m + 1
          <5>1. m \in 0..m /\ k - 1 = m
            BY <2>2, <4>1
          <5>2. G[k] = new /\ G[k - 1] = F[m]
            BY <2>3, <4>1, <5>1
          <5> QED BY <2>0, <4>1, <5>2
        <4>2. CASE k \in 1..m
          <5>1. k \in 0..m /\ k - 1 \in 0..m
            BY <2>2, <4>2
          <5>2. G[k] = F[k] /\ G[k - 1] = F[k - 1]
            BY <2>3, <5>1
          <5>3. F[k] = F[k - 1] + buf[k]
            BY <2>1, <4>2 DEF Sums
          <5> QED BY <5>2, <5>3
        <4>3. k = m + 1 \/ k \in 1..m
          BY <2>2
        <4> QED BY <4>1, <4>2, <4>3
      <3> QED BY <3>1, <3>2 DEF Sums
    <2> QED BY <2>4
  <1> HIDE DEF Good
  <1>3. \A m \in 0..L : m \in S
    <2>1. 0 \in S /\ \A m \in 0..(L - 1) : m \in S => m + 1 \in S
      BY <1>0, <1>1, <1>2
    <2> HIDE DEF S, L
    <2> QED BY <1>0, <2>1, UpTo
  <1> QED BY <1>0, <1>3 DEF Good

\* The bytes of a log are the last of its sums.
LEMMA Summed ==
  ASSUME NEW buf \in Buffers
  PROVE  \E F : Sums(F, buf, Len(buf)) /\ Background!Bytes(buf) = F[Len(buf)]
  <1> DEFINE L == Len(buf)
             N == CHOOSE N : Adds(N, buf)
  <1>0. L \in Nat
    BY DEF Buffers
  <1>1. \E M : Adds(M, buf)
    <2>1. PICK G : Sums(G, buf, L)
      BY Summable
    <2> DEFINE M == [i \in 0..L |-> G[i]]
    <2>2. ASSUME NEW i \in 0..L PROVE M[i] = IF i = 0 THEN 0 ELSE M[i - 1] + buf[i]
      <3>1. CASE i = 0
        BY <2>1, <3>1 DEF Sums
      <3>2. CASE i # 0
        <4>1. i \in 1..L /\ i - 1 \in 0..L
          BY <1>0, <3>2
        <4>2. M[i] = G[i] /\ M[i - 1] = G[i - 1]
          BY <4>1
        <4>3. G[i] = G[i - 1] + buf[i]
          BY <2>1, <4>1 DEF Sums
        <4> QED BY <3>2, <4>2, <4>3
      <3> QED BY <3>1, <3>2
    <2>3. M = [i \in 0..L |-> M[i]]
      OBVIOUS
    <2> HIDE DEF M
    <2>4. Adds(M, buf)
      BY <2>2, <2>3 DEF Adds
    <2> QED BY <2>4
  <1>2. Adds(N, buf)
    BY <1>1
  <1>3. Background!Bytes(buf) = N[L]
    BY DEF Background!Bytes, Adds
  <1> HIDE DEF N
  <1>4. Sums(N, buf, L)
    <2>1. N[0] = 0
      BY <1>0, <1>2 DEF Adds
    <2>2. ASSUME NEW k \in 1..L PROVE N[k] = N[k - 1] + buf[k]
      <3>1. k \in 0..L /\ k # 0
        BY <1>0
      <3> QED BY <1>2, <3>1 DEF Adds
    <2> QED BY <2>1, <2>2 DEF Sums
  <1> QED BY <1>3, <1>4

\* Whatever starts at a base and grows by the chunks ends at the base and all
\* of the bytes.
LEMMA BytesAre ==
  ASSUME NEW buf \in Buffers, NEW base \in Nat, NEW G, G[0] = base,
         \A k \in 1..Len(buf) : G[k] = G[k - 1] + buf[k]
  PROVE  Background!Bytes(buf) \in Nat /\ G[Len(buf)] = base + Background!Bytes(buf)
  <1> DEFINE L == Len(buf)
  <1>1. PICK F : Sums(F, buf, L) /\ Background!Bytes(buf) = F[L]
    BY Summed
  <1> DEFINE S == {m \in 0..L : F[m] \in Nat /\ G[m] = base + F[m]}
  <1>2. L \in Nat /\ \A k \in 1..L : buf[k] \in Nat
    BY DEF Buffers
  <1>3. 0 \in S
    BY <1>1, <1>2 DEF Sums
  <1>4. ASSUME NEW m \in 0..(L - 1), m \in S PROVE m + 1 \in S
    <2>1. m + 1 \in 1..L /\ m + 1 \in 0..L /\ (m + 1) - 1 = m
      BY <1>2
    <2>2. F[m + 1] = F[m] + buf[m + 1] /\ G[m + 1] = G[m] + buf[m + 1] /\ buf[m + 1] \in Nat
      BY <1>1, <1>2, <2>1 DEF Sums
    <2> QED BY <1>4, <2>1, <2>2
  <1>5. \A m \in 0..L : m \in S
    <2> HIDE DEF S, L
    <2> QED BY <1>2, <1>3, <1>4, UpTo
  <1>6. L \in S
    BY <1>2, <1>5
  <1> QED BY <1>1, <1>6

\* One chunk more.
LEMMA BytesOfAppend ==
  ASSUME NEW buf \in Buffers, NEW n \in Nat
  PROVE  /\ Background!Bytes(buf) \in Nat
         /\ Background!Bytes(Append(buf, n)) = Background!Bytes(buf) + n
  <1> DEFINE L == Len(buf)
             more == Append(buf, n)
  <1>1. /\ L \in Nat /\ more \in Buffers /\ Len(more) = L + 1 /\ more[L + 1] = n
        /\ \A k \in 1..L : more[k] = buf[k]
    BY DEF Buffers
  <1> HIDE DEF more
  <1>2. PICK F : Sums(F, more, L + 1) /\ Background!Bytes(more) = F[L + 1]
    BY <1>1, Summed
  <1>3. \A k \in 1..L : F[k] = F[k - 1] + buf[k]
    BY <1>1, <1>2 DEF Sums
  <1>4. F[0] = 0 /\ F[L + 1] = F[L] + n
    <2>1. L + 1 \in 1..(L + 1) /\ (L + 1) - 1 = L
      BY <1>1
    <2> QED BY <1>1, <1>2, <2>1 DEF Sums
  <1>5. Background!Bytes(buf) \in Nat /\ F[L] = 0 + Background!Bytes(buf)
    BY <1>3, <1>4, BytesAre
  <1>6. Background!Bytes(more) = Background!Bytes(buf) + n
    BY <1>2, <1>4, <1>5
  <1> QED BY <1>5, <1>6 DEF more

\* What is left of a log whose first chunks go is no more than it was.
LEMMA BytesOfRest ==
  ASSUME NEW buf \in Buffers, NEW k \in 1..Len(buf)
  PROVE  /\ SubSeq(buf, k, Len(buf)) \in Buffers
         /\ Background!Bytes(SubSeq(buf, k, Len(buf))) \in Nat
         /\ Background!Bytes(buf) \in Nat
         /\ Background!Bytes(SubSeq(buf, k, Len(buf))) <= Background!Bytes(buf)
  <1> DEFINE L == Len(buf)
             rest == SubSeq(buf, k, L)
             R == L - k + 1
  <1>1. /\ L \in Nat /\ k \in Nat /\ R \in Nat /\ rest \in Buffers /\ Len(rest) = R
        /\ \A j \in 1..R : rest[j] = buf[k - 1 + j]
    BY DEF Buffers
  <1>2. PICK F : Sums(F, buf, L) /\ Background!Bytes(buf) = F[L]
    BY Summed
  <1>3. Background!Bytes(buf) \in Nat
    BY BytesOfAppend, <1>1
  <1> DEFINE S == {m \in 0..L : F[m] \in Nat}
             G == [j \in 0..R |-> F[k - 1 + j]]
  <1>4. \A m \in 0..L : m \in S
    <2>1. 0 \in S
      BY <1>1, <1>2 DEF Sums
    <2>2. ASSUME NEW m \in 0..(L - 1), m \in S PROVE m + 1 \in S
      <3>1. m + 1 \in 1..L /\ m + 1 \in 0..L /\ (m + 1) - 1 = m
        BY <1>1
      <3>2. F[m + 1] = F[m] + buf[m + 1] /\ buf[m + 1] \in Nat
        BY <1>2, <3>1 DEF Sums, Buffers
      <3> QED BY <2>2, <3>1, <3>2
    <2> HIDE DEF S, L
    <2> QED BY <1>1, <2>1, <2>2, UpTo
  <1>5. F[k - 1] \in Nat
    <2>1. k - 1 \in 0..L
      BY <1>1
    <2> QED BY <1>4, <2>1
  <1>6. G[0] = F[k - 1] /\ G[R] = F[L]
    <2>1. 0 \in 0..R /\ R \in 0..R /\ k - 1 + 0 = k - 1 /\ k - 1 + R = L
      BY <1>1
    <2> HIDE DEF R
    <2> QED BY <2>1
  <1>7. ASSUME NEW j \in 1..R PROVE G[j] = G[j - 1] + rest[j]
    <2>1. j \in 0..R /\ j - 1 \in 0..R /\ k - 1 + j \in 1..L /\ k - 1 + (j - 1) = (k - 1 + j) - 1
      BY <1>1
    <2>2. G[j] = F[k - 1 + j] /\ G[j - 1] = F[(k - 1 + j) - 1]
      BY <2>1
    <2>3. F[k - 1 + j] = F[(k - 1 + j) - 1] + buf[k - 1 + j]
      BY <1>2, <2>1 DEF Sums
    <2> QED BY <1>1, <2>2, <2>3
  <1> HIDE DEF G, rest
  <1>8. Background!Bytes(rest) \in Nat /\ G[Len(rest)] = F[k - 1] + Background!Bytes(rest)
    BY <1>1, <1>5, <1>6, <1>7, BytesAre
  <1>9. Background!Bytes(rest) <= Background!Bytes(buf)
    BY <1>1, <1>2, <1>3, <1>5, <1>6, <1>8
  <1> QED BY <1>1, <1>3, <1>8, <1>9 DEF rest

\* Whole chunks go until the rest fits or is the last one.
LEMMA KeptIs ==
  ASSUME NEW buf \in Buffers, buf # <<>>
  PROVE  /\ Background!Kept(buf) \in Buffers
         /\ Background!Bytes(buf) \in Nat /\ Background!Bytes(Background!Kept(buf)) \in Nat
         /\ Background!Bytes(Background!Kept(buf)) <= Background!Bytes(buf)
         /\ Len(Background!Kept(buf)) > 1 => Background!Bytes(Background!Kept(buf)) <= Retention
  <1> DEFINE L == Len(buf)
             rest(k) == SubSeq(buf, k, L)
             fits(k) == Background!Bytes(rest(k)) <= Retention \/ k = L
             S == {k \in 1..L : fits(k)}
             kept == CHOOSE k \in DOMAIN buf : fits(k) /\ \A j \in 1..(k - 1) : ~fits(j)
  <1>1. L \in Nat /\ L \in 1..L /\ DOMAIN buf = 1..L
    BY DEF Buffers
  <1>2. S \in SUBSET Nat /\ L \in S
    BY <1>1
  <1>3. PICK m \in S : \A x \in S : m <= x
    <2> HIDE DEF S
    <2> QED BY <1>2, Least
  <1>4. m \in DOMAIN buf /\ fits(m) /\ \A j \in 1..(m - 1) : ~fits(j)
    <2>1. m \in 1..L /\ fits(m)
      OBVIOUS
    <2>2. ASSUME NEW j \in 1..(m - 1) PROVE ~fits(j)
      <3>1. j \in 1..L /\ ~(m <= j)
        <4> HIDE DEF L, S, fits
        <4> QED BY <1>1, <2>1
      <3>2. j \notin S
        BY <1>3, <3>1
      <3> QED BY <3>1, <3>2
    <2> QED BY <1>1, <2>1, <2>2
  <1>5. kept \in DOMAIN buf /\ fits(kept)
    <2> HIDE DEF fits
    <2> QED BY <1>4
  <1>6. Background!Kept(buf) = rest(kept)
    BY DEF Background!Kept
  <1> HIDE DEF kept
  <1>7. /\ rest(kept) \in Buffers
        /\ Background!Bytes(rest(kept)) \in Nat /\ Background!Bytes(buf) \in Nat
        /\ Background!Bytes(rest(kept)) <= Background!Bytes(buf)
    BY <1>1, <1>5, BytesOfRest
  <1>8. Len(rest(kept)) > 1 => Background!Bytes(rest(kept)) <= Retention
    <2>1. kept = L => ~(Len(rest(kept)) > 1)
      <3>1. \A z \in Seq(Nat) : z # <<>> => ~(Len(SubSeq(z, Len(z), Len(z))) > 1)
        OBVIOUS
      <3> QED BY <3>1 DEF Buffers
    <2>2. CASE kept = L
      <3> HIDE DEF rest, L
      <3> QED BY <2>1, <2>2
    <2>3. CASE kept # L
      BY <1>5, <2>3
    <2> QED BY <2>2, <2>3
  <1> QED BY <1>6, <1>7, <1>8

-----------------------------------------------------------------------------
(* One shell. *)

\* What has gone from the front of the log and what is in it is all of it, and
\* its reader has been given or told of all up to where it stands.
Told(r) ==
    /\ Background!Bytes(r.buf) \in Nat
    /\ r.first + Background!Bytes(r.buf) = r.total
    /\ r.since <= r.total /\ r.seen = r.since
    /\ Len(r.buf) > 1 => Background!Bytes(r.buf) <= Retention

\* The lifetime ends with the record, and SIGTERM comes with the end.
Ending(r) == (r.ended => r.lifetime = "off") /\ (r.termed => r.ended)

Whole(r) == r \in Background!Shell /\ Ending(r) /\ Told(r)

\* An end that is recorded stays.
Follows(old, r) ==
    old # Background!NotStarted /\ old.ended =>
        r.ended /\ r.code = old.code /\ r.reason = old.reason

ShellsInv ==
    /\ host \in {"up", "reaped", "down"}
    /\ reg \in [Shells -> Background!Shell \cup {Background!NotStarted}]
    /\ \A s \in Shells : reg[s] = Background!NotStarted \/ Whole(reg[s])

FinalStep == \A s \in Shells : Follows(reg[s], reg'[s])

LEMMA AppendWhole ==
  ASSUME NEW r, Whole(r), NEW n \in Nat
  PROVE  LET a == Background!Append1(r, n)
         IN  Whole(a) /\ a.ended = r.ended /\ a.code = r.code /\ a.reason = r.reason
  <1> DEFINE more == Append(r.buf, n)
             kept == Background!Kept(more)
             a == Background!Append1(r, n)
  <1>1. /\ r.buf \in Buffers /\ r.total \in Nat /\ r.first \in Nat /\ r.since \in Nat
        /\ Background!Bytes(r.buf) \in Nat
    BY DEF Whole, Told, Background!Shell, Buffers
  <1>2. more \in Buffers /\ more # <<>>
    BY <1>1 DEF Buffers
  <1>3. Background!Bytes(more) = Background!Bytes(r.buf) + n
    BY <1>1, BytesOfAppend
  <1>4. /\ a = [r EXCEPT !.buf = kept, !.total = @ + n,
                         !.first = @ + (Background!Bytes(more) - Background!Bytes(kept))]
    BY DEF Background!Append1
  <1> HIDE DEF more
  <1>5. /\ kept \in Buffers /\ Background!Bytes(kept) \in Nat
        /\ Background!Bytes(kept) <= Background!Bytes(more)
        /\ Len(kept) > 1 => Background!Bytes(kept) <= Retention
    BY <1>2, KeptIs
  <1> HIDE DEF kept, a
  <1> DEFINE gone == Background!Bytes(more) - Background!Bytes(kept)
  <1>6. gone \in Nat /\ r.total + n \in Nat /\ r.first + gone \in Nat
        /\ r.first + gone + Background!Bytes(kept) = r.total + n
    BY <1>1, <1>3, <1>5, SMTT(30) DEF Whole, Told
  <1> HIDE DEF gone
  <1>7. r \in Background!Shell /\ Ending(r) /\ Told(r)
    BY DEF Whole
  <1>8. a = [r EXCEPT !.buf = kept, !.total = r.total + n, !.first = r.first + gone]
    BY <1>4, <1>7 DEF gone, Background!Shell
  <1>9. a \in Background!Shell
    BY <1>5, <1>6, <1>7, <1>8 DEF Background!Shell, Buffers
  <1>10. /\ a.buf = kept /\ a.total = r.total + n /\ a.first = r.first + gone
         /\ a.since = r.since /\ a.seen = r.seen /\ a.ended = r.ended /\ a.termed = r.termed
         /\ a.lifetime = r.lifetime /\ a.code = r.code /\ a.reason = r.reason
    BY <1>7, <1>8 DEF Background!Shell
  <1>11. Ending(a)
    BY <1>7, <1>10 DEF Ending
  <1>12. Told(a)
    BY <1>1, <1>5, <1>6, <1>7, <1>10, SMTT(30) DEF Told
  <1> QED BY <1>9, <1>10, <1>11, <1>12 DEF Whole, a

\* What is written of a shell and does not concern its log.
SameLog(a, r) == a.buf = r.buf /\ a.total = r.total /\ a.first = r.first
                 /\ a.since = r.since /\ a.seen = r.seen

LEMMA LogStays ==
  ASSUME NEW r, Told(r), NEW a, SameLog(a, r)
  PROVE  Told(a)
  BY DEF Told, SameLog

LEMMA FinishWhole ==
  ASSUME NEW r, Whole(r), ~r.ended, NEW reason \in Background!Reasons,
         NEW how \in {"exit", "error"}
  PROVE  Whole(Background!Finish(r, how, reason))
  <1> DEFINE a == Background!Finish(r, how, reason)
  <1>1. r \in Background!Shell /\ Told(r)
    BY DEF Whole
  <1>2. a \in Background!Shell /\ a.ended /\ a.lifetime = "off" /\ SameLog(a, r)
    BY <1>1 DEF Background!Finish, Background!Shell, Background!Reasons, SameLog
  <1> HIDE DEF a
  <1>3. Told(a)
    BY <1>1, <1>2, LogStays
  <1> QED BY <1>2, <1>3 DEF Whole, Ending, a

LEMMA TerminateWhole ==
  ASSUME NEW r, Whole(r), ~r.ended, NEW reason \in Background!Reasons
  PROVE  LET a == Background!Terminate(r, reason)
         IN  Whole(a) /\ Whole([a EXCEPT !.lifetime = "off"])
  <1> DEFINE a == Background!Terminate(r, reason)
             b == [a EXCEPT !.lifetime = "off"]
  <1>1. r \in Background!Shell /\ Told(r)
    BY DEF Whole
  <1>2. /\ a \in Background!Shell /\ a.ended /\ a.lifetime = "off" /\ SameLog(a, r)
    BY <1>1, ZenonT(30) DEF Background!Terminate, Background!Finish, Background!Shell, Background!Reasons, SameLog
  <1> HIDE DEF a
  <1>3. b = a
    BY <1>2 DEF Background!Shell
  <1>4. Told(a)
    BY <1>1, <1>2, LogStays
  <1>5. Whole(a)
    BY <1>2, <1>4 DEF Whole, Ending
  <1> QED BY <1>3, <1>5 DEF a

LEMMA FreshWhole ==
  ASSUME NEW ignores \in BOOLEAN
  PROVE  LET a == Background!Fresh(ignores)
         IN  /\ Whole(a) /\ ~a.ended
             /\ Whole([a EXCEPT !.group = "gone"]) /\ ~[a EXCEPT !.group = "gone"].ended
  <1> DEFINE a == Background!Fresh(ignores)
             b == [a EXCEPT !.group = "gone"]
  <1>1. <<>> \in Seq(Nat) /\ Len(<<>>) = 0
    OBVIOUS
  <1>2. Background!Bytes(<<>>) = 0
    <2>1. <<>> \in Buffers
      BY <1>1 DEF Buffers
    <2>2. PICK F : Sums(F, <<>>, Len(<<>>)) /\ Background!Bytes(<<>>) = F[Len(<<>>)]
      BY <2>1, Summed
    <2> QED BY <1>1, <2>2 DEF Sums
  <1>3. /\ a \in Background!Shell /\ ~a.ended /\ ~a.termed /\ a.buf = <<>> /\ a.total = 0 /\ a.first = 0
        /\ a.since = 0 /\ a.seen = 0
    BY <1>1 DEF Background!Fresh, Background!LifetimeTimer, Background!Shell, Background!Reasons
  <1> HIDE DEF a
  <1>4. b \in Background!Shell /\ ~b.ended /\ ~b.termed /\ SameLog(b, a)
    BY <1>3 DEF Background!Shell, SameLog
  <1> HIDE DEF b
  <1>5. Told(a)
    BY <1>1, <1>2, <1>3 DEF Told
  <1>6. Told(b)
    BY <1>4, <1>5, LogStays
  <1> QED BY <1>3, <1>4, <1>5, <1>6 DEF Whole, Ending, a, b

LEMMA NotStartedIsNone == Background!NotStarted \notin Background!Shell
  <1> SUFFICES ASSUME Background!NotStarted \in Background!Shell PROVE FALSE
    OBVIOUS
  <1>1. Background!NotStarted.group \in {"running", "left", "gone"}
    BY DEF Background!Shell
  <1> QED BY <1>1 DEF Background!NotStarted

\* One shell moves on, and its end stays if it had one.
LEMMA SetKeeps ==
  ASSUME ShellsInv, NEW s \in Shells, NEW r, Background!Set(s, r), Whole(r), Follows(reg[s], r),
         host' = host
  PROVE  ShellsInv' /\ FinalStep
  <1>1. reg' = [reg EXCEPT ![s] = r] /\ r \in Background!Shell
    BY DEF Background!Set, Whole
  <1>2. \A x \in Shells : reg'[x] = IF x = s THEN r ELSE reg[x]
    BY <1>1 DEF ShellsInv
  <1>3. ShellsInv'
    <2>1. reg' \in [Shells -> Background!Shell \cup {Background!NotStarted}]
      BY <1>1 DEF ShellsInv
    <2>2. \A x \in Shells : reg'[x] = Background!NotStarted \/ Whole(reg'[x])
      BY <1>2 DEF ShellsInv
    <2> QED BY <2>1, <2>2 DEF ShellsInv, Whole, Told
  <1>4. FinalStep
    <2> SUFFICES ASSUME NEW x \in Shells PROVE Follows(reg[x], reg'[x])
      BY DEF FinalStep
    <2>1. Follows(reg[x], reg[x])
      BY DEF Follows
    <2> QED BY <1>2, <2>1
  <1> QED BY <1>3, <1>4

LEMMA StartKeeps ==
  ASSUME ShellsInv, NEW s \in Shells, Background!Start(s) \/ Background!StartFails(s)
  PROVE  ShellsInv' /\ FinalStep
  <1>1. ASSUME NEW r PROVE Follows(reg[s], r)
    BY DEF Follows, Background!Start, Background!StartFails, Background!Started
  <1>2. CASE Background!Start(s)
    <2>1. PICK d \in BOOLEAN : Background!Set(s, Background!Fresh(d))
      BY <1>2 DEF Background!Start
    <2>2. host' = host
      BY <1>2 DEF Background!Start
    <2>3. Whole(Background!Fresh(d))
      BY FreshWhole
    <2> QED BY <1>1, <2>1, <2>2, <2>3, SetKeeps
  <1>3. CASE Background!StartFails(s)
    <2> DEFINE dead == [Background!Fresh(FALSE) EXCEPT !.group = "gone"]
               told == Background!Append1(dead, 1)
    <2>1. Whole(dead) /\ ~dead.ended
      BY FreshWhole
    <2> HIDE DEF dead
    <2>2. Whole(told) /\ ~told.ended
      BY <2>1, AppendWhole
    <2>3. Background!Set(s, Background!Finish(told, "error", "none")) /\ host' = host
      BY <1>3 DEF Background!StartFails, dead
    <2> HIDE DEF told
    <2>4. Whole(Background!Finish(told, "error", "none"))
      BY <2>2, FinishWhole DEF Background!Reasons
    <2> QED BY <1>1, <2>3, <2>4, SetKeeps
  <1> QED BY <1>2, <1>3

\* A shell that runs.
LEMMA RunningWhole ==
  ASSUME ShellsInv, NEW s \in Shells, Background!Started(s)
  PROVE  Whole(reg[s])
  BY DEF ShellsInv, Background!Started

LEMMA OutputKeeps ==
  ASSUME ShellsInv, NEW s \in Shells, NEW n \in 1..2, Background!Output(s, n)
  PROVE  ShellsInv' /\ FinalStep
  <1> DEFINE a == Background!Append1(reg[s], n)
  <1>1. Background!Set(s, a) /\ host' = host /\ Whole(reg[s])
    BY RunningWhole DEF Background!Output
  <1>2. n \in Nat
    OBVIOUS
  <1>3. Whole(a) /\ a.ended = reg[s].ended /\ a.code = reg[s].code /\ a.reason = reg[s].reason
    BY <1>1, <1>2, AppendWhole
  <1> HIDE DEF a
  <1>4. Follows(reg[s], a)
    BY <1>3 DEF Follows
  <1> QED BY <1>1, <1>3, <1>4, SetKeeps

\* A step that only the processes, the signals or the escalation know of.
Aside(a, r) ==
    /\ SameLog(a, r) /\ a.ended = r.ended /\ a.termed = r.termed /\ a.code = r.code /\ a.reason = r.reason
    /\ a.lifetime = r.lifetime

LEMMA AsideKeeps ==
  ASSUME ShellsInv, NEW s \in Shells, NEW a \in Background!Shell, Background!Set(s, a), host' = host,
         Whole(reg[s]), Aside(a, reg[s])
  PROVE  ShellsInv' /\ FinalStep
  <1>1. Told(a)
    BY LogStays DEF Aside, Whole
  <1>2. Whole(a)
    BY <1>1 DEF Aside, Whole, Ending
  <1>3. Follows(reg[s], a)
    BY DEF Aside, Follows
  <1> QED BY <1>2, <1>3, SetKeeps

LEMMA ProcessKeeps ==
  ASSUME ShellsInv, NEW s \in Shells,
         Background!Exit(s) \/ Background!DieOfSignal(s) \/ Background!EscalationFires(s)
  PROVE  ShellsInv' /\ FinalStep
  <1>1. Whole(reg[s]) /\ host' = host
    BY RunningWhole DEF Background!Exit, Background!DieOfSignal, Background!EscalationFires
  <1>2. reg[s] \in Background!Shell
    BY <1>1 DEF Whole
  <1>3. PICK a \in Background!Shell : Background!Set(s, a) /\ Aside(a, reg[s])
    <2>1. ASSUME NEW g \in {"left", "gone"}
          PROVE  LET a == [reg[s] EXCEPT !.group = g]
                 IN  a \in Background!Shell /\ Aside(a, reg[s])
      BY <1>2 DEF Background!Shell, Aside, SameLog
    <2>2. LET a == [reg[s] EXCEPT !.escalation = "fired", !.killed = ~reg[s].ended]
          IN  a \in Background!Shell /\ Aside(a, reg[s])
      BY <1>2 DEF Background!Shell, Aside, SameLog
    <2>3. CASE Background!Exit(s)
      BY <2>1, <2>3 DEF Background!Exit
    <2>4. CASE Background!DieOfSignal(s)
      BY <2>1, <2>4 DEF Background!DieOfSignal
    <2>5. CASE Background!EscalationFires(s)
      BY <2>2, <2>5 DEF Background!EscalationFires
    <2> QED BY <2>3, <2>4, <2>5
  <1> QED BY <1>1, <1>3, AsideKeeps

\* The steps that end a shell, none of which meets one that has ended.
LEMMA EndKeeps ==
  ASSUME ShellsInv, NEW s \in Shells,
         Background!Close(s) \/ Background!LifetimeFires(s) \/ Background!Stop(s)
  PROVE  ShellsInv' /\ FinalStep
  <1>1. Whole(reg[s]) /\ host' = host
    BY RunningWhole DEF Background!Close, Background!LifetimeFires, Background!Stop
  <1>2. ~reg[s].ended
    BY <1>1 DEF Whole, Ending, Background!Close, Background!LifetimeFires, Background!Stop
  <1>3. PICK a : Background!Set(s, a) /\ Whole(a)
    <2>1. CASE Background!Close(s)
      <3>1. Whole(Background!Finish(reg[s], "exit", "none"))
        BY <1>1, <1>2, FinishWhole DEF Background!Reasons
      <3> QED BY <2>1, <3>1 DEF Background!Close
    <2>2. CASE Background!LifetimeFires(s)
      <3> DEFINE told == Background!Append1(reg[s], 1)
      <3>1. Whole(told) /\ ~told.ended
        BY <1>1, <1>2, AppendWhole
      <3>2. Background!Set(s, [Background!Terminate(told, "timeout") EXCEPT !.lifetime = "off"])
        BY <2>2 DEF Background!LifetimeFires
      <3> HIDE DEF told
      <3>3. Whole([Background!Terminate(told, "timeout") EXCEPT !.lifetime = "off"])
        BY <3>1, TerminateWhole DEF Background!Reasons
      <3> QED BY <3>2, <3>3
    <2>3. CASE Background!Stop(s)
      <3>1. Whole(Background!Terminate(reg[s], "user-stop"))
        BY <1>1, <1>2, TerminateWhole DEF Background!Reasons
      <3> QED BY <2>3, <3>1 DEF Background!Stop
    <2> QED BY <2>1, <2>2, <2>3
  <1>4. Follows(reg[s], a)
    BY <1>2 DEF Follows
  <1> QED BY <1>1, <1>3, <1>4, SetKeeps

LEMMA ReadKeeps ==
  ASSUME ShellsInv, NEW s \in Shells, Background!Read(s)
  PROVE  ShellsInv' /\ FinalStep
  <1> DEFINE r == reg[s]
             given == Background!Text(r)
             missed == Background!DroppedPrefix(r)
             a == [r EXCEPT !.since = r.total, !.seen = r.seen + given + missed]
  <1>1. Whole(r) /\ host' = host
    BY RunningWhole DEF Background!Read
  <1>2. r \in Background!Shell /\ Told(r)
    BY <1>1 DEF Whole
  <1>3. r.seen + given + missed = r.total
    <2>1. r.first \in Nat /\ r.since \in Nat /\ r.total \in Nat /\ r.seen \in Nat
      BY <1>2 DEF Background!Shell
    <2> QED BY <1>2, <2>1 DEF Told, Background!Text, Background!DroppedPrefix
  <1>4. Background!Set(s, a)
    BY <1>2 DEF Background!Read, Background!Shell
  <1>5. /\ a \in Background!Shell /\ a.since = r.total /\ a.seen = r.total
        /\ a.buf = r.buf /\ a.total = r.total /\ a.first = r.first /\ a.ended = r.ended
        /\ a.termed = r.termed /\ a.lifetime = r.lifetime /\ a.code = r.code /\ a.reason = r.reason
    BY <1>2, <1>3 DEF Background!Shell
  <1> HIDE DEF a
  <1>6. Told(a)
    <2>1. r.total \in Nat
      BY <1>2 DEF Background!Shell
    <2> QED BY <1>2, <1>5, <2>1 DEF Told
  <1>7. Whole(a)
    BY <1>1, <1>5, <1>6 DEF Whole, Ending
  <1>8. Follows(r, a)
    BY <1>5 DEF Follows
  <1> QED BY <1>1, <1>4, <1>7, <1>8, SetKeeps

\* The steps of all shells at once.
LEMMA AllKeep ==
  ASSUME ShellsInv, Background!ReapAll \/ Background!HostExits
  PROVE  ShellsInv' /\ FinalStep
  <1>1. ASSUME NEW s \in Shells
        PROVE  /\ reg'[s] = Background!NotStarted \/ Whole(reg'[s])
               /\ Follows(reg[s], reg'[s])
    <2> DEFINE r == reg[s]
    <2>1. CASE r = Background!NotStarted
      <3>1. reg'[s] = r
        BY <2>1 DEF Background!ReapAll, Background!HostExits, Background!Started
      <3> QED BY <2>1, <3>1 DEF Follows
    <2>2. CASE r # Background!NotStarted
      <3>1. Whole(r) /\ Background!Started(s)
        BY <2>2 DEF ShellsInv, Background!Started
      <3>2. CASE Background!ReapAll /\ ~r.ended
        <4>1. reg'[s] = Background!Terminate(r, "reaped")
          BY <3>1, <3>2 DEF Background!ReapAll
        <4>2. Whole(Background!Terminate(r, "reaped"))
          BY <3>1, <3>2, TerminateWhole DEF Background!Reasons
        <4> QED BY <3>2, <4>1, <4>2 DEF Follows
      <3>3. CASE Background!ReapAll /\ r.ended
        <4>1. reg'[s] = r
          BY <3>1, <3>3 DEF Background!ReapAll
        <4> QED BY <3>1, <4>1 DEF Follows
      <3>4. CASE Background!HostExits
        <4> DEFINE a == [r EXCEPT !.lifetime = "off", !.escalation = "off"]
        <4>1. reg'[s] = a
          BY <3>1, <3>4 DEF Background!HostExits
        <4>2. r \in Background!Shell /\ Told(r) /\ Ending(r)
          BY <3>1 DEF Whole
        <4>3. /\ a \in Background!Shell /\ SameLog(a, r) /\ a.ended = r.ended /\ a.termed = r.termed
              /\ a.code = r.code /\ a.reason = r.reason /\ a.lifetime = "off"
          BY <4>2 DEF Background!Shell, SameLog
        <4> HIDE DEF a
        <4>4. Told(a)
          BY <4>2, <4>3, LogStays
        <4>5. Whole(a) /\ Follows(r, a)
          BY <4>2, <4>3, <4>4 DEF Whole, Ending, Follows
        <4> QED BY <4>1, <4>5
      <3> QED BY <3>2, <3>3, <3>4
    <2> QED BY <2>1, <2>2
  <1>2. host' \in {"up", "reaped", "down"} /\ reg' = [s \in Shells |-> reg'[s]]
    BY DEF Background!ReapAll, Background!HostExits
  <1>3. reg' \in [Shells -> Background!Shell \cup {Background!NotStarted}]
    <2>1. \A s \in Shells : reg'[s] \in Background!Shell \cup {Background!NotStarted}
      BY <1>1 DEF Whole
    <2> QED BY <1>2, <2>1
  <1>4. ShellsInv'
    BY <1>1, <1>2, <1>3 DEF ShellsInv, Whole, Told
  <1> QED BY <1>1, <1>4 DEF FinalStep

LEMMA ShellsStep ==
  ASSUME ShellsInv, Background!Next \/ UNCHANGED shellVars
  PROVE  ShellsInv' /\ FinalStep
  <1>1. CASE Background!Next
    BY <1>1, StartKeeps, OutputKeeps, ProcessKeeps, EndKeeps, ReadKeeps, AllKeep
       DEF Background!Next, Background!Timers
  <1>2. CASE UNCHANGED shellVars
    <2>1. reg' = reg /\ host' = host
      BY <1>2 DEF shellVars
    <2>2. ShellsInv'
      BY <2>1 DEF ShellsInv, Whole, Told
    <2> QED BY <2>1, <2>2 DEF FinalStep, Follows
  <1> QED BY <1>1, <1>2

LEMMA ShellsInit == Background!Init => ShellsInv
  BY DEF Background!Init, ShellsInv

\* However exits, errors, caps, stops and reaps race, the first end stands; a
\* log is within its retention but for its last chunk, and a caller that polls
\* is given each byte once or told how many it missed (background-shells.ts).
THEOREM ShellsHoldHolds == MCSpec => ShellsHold
<1>1. MCInit => ShellsInv
  BY ShellsInit DEF MCInit
<1>2. ShellsInv /\ [MCNext]_all => ShellsInv' /\ FinalStep
  BY ToolStep, ShellsStep
<1>3. ShellsInv => Background!TypeOK /\ Background!ReadsTile /\ Background!LogBounded
  BY DEF ShellsInv, Whole, Ending, Told, Background!TypeOK, Background!ReadsTile, Background!LogBounded,
         Background!Started
<1>4. FinalStep => [\A s \in Shells : Background!Started(s) /\ reg[s].ended =>
                     /\ reg'[s].ended
                     /\ reg'[s].code = reg[s].code /\ reg'[s].reason = reg[s].reason]_(Background!vars)
  BY DEF FinalStep, Follows, Background!Started
<1> QED BY <1>1, <1>2, <1>3, <1>4, PTL DEF MCSpec, all, ShellsHold, Background!EndIsFinal

=================================================================================
