------------------------------- MODULE PlanFormat ------------------------------
(***************************************************************************)
(* The structured plan: what update_plan accepts, what it makes of a call  *)
(* and the plan on disk, the steps that may be started, and the markdown   *)
(* form with the plan embedded in it.  A plan is a sequence of steps; a    *)
(* step names the steps it depends on by their ids.                        *)
(***************************************************************************)
EXTENDS Integers, Sequences, SequencesExt, FiniteSets

CONSTANTS Omitted,   \* a field the call leaves out
          NoCommand, \* a step without a verification command
          MaxSteps   \* the bound MAX_STEPS

StepStates == {"pending", "in_progress", "completed", "failed", "skipped"}
Settled == {"completed", "skipped"}

\* PLAN_STEP_GLYPHS.
Glyph(state) == CASE state = "pending" -> " " [] state = "in_progress" -> "/"
                  [] state = "completed" -> "x" [] state = "failed" -> "!" [] OTHER -> "-"

Ids(steps) == {steps[i].id : i \in DOMAIN steps}
StepOf(steps, id) == steps[CHOOSE i \in DOMAIN steps : steps[i].id = id]
WithState(steps, states) == {i \in DOMAIN steps : steps[i].status \in states}

\* The status a plan's steps imply; only an abort is taken as declared.
DerivePlanStatus(declared, steps) ==
    CASE declared = "ABORTED" -> "ABORTED"
      [] OTHER ->
           IF steps = <<>> THEN "PENDING_APPROVAL"
           ELSE IF WithState(steps, {"failed"}) # {} THEN "ABORTED"
           ELSE IF WithState(steps, Settled) = DOMAIN steps THEN "COMPLETED"
           ELSE IF WithState(steps, Settled \cup {"in_progress"}) = {} THEN "PENDING_APPROVAL"
           ELSE "IN_PROGRESS"

\* A dependency is in the way when it does not exist, when it was looked at
\* before, or when it is not settled.  (One in progress would count as out of
\* the way, but by then it is always among those looked at.)
Blocked(steps, step) ==
    \E n \in DOMAIN step.dependencies :
        LET dep == step.dependencies[n] IN
        \/ dep \notin Ids(steps)
        \/ \E m \in 1..(n - 1) : step.dependencies[m] = dep
        \/ StepOf(steps, dep).status \notin Settled

\* getActionableSteps.
ActionableSteps(steps) ==
    {step \in ToSet(steps) : step.status = "pending" /\ ~Blocked(steps, step)}

-----------------------------------------------------------------------------
(* update_plan. *)

\* Mutant of Acyclic: only a step's own dependencies are looked at.
AcyclicShallow(steps) == \A i \in DOMAIN steps : steps[i].id \notin ToSet(steps[i].dependencies)

\* No walk along dependencies comes back: the steps have an order in which each
\* one comes after those it depends on.
Acyclic(steps) ==
    \E order \in [Ids(steps) -> 1..Len(steps)] :
        \A i \in DOMAIN steps : \A d \in ToSet(steps[i].dependencies) :
            order[d] < order[steps[i].id]

\* One step as the call gives it.
ValidStep(raw) ==
    /\ raw.id > 0 /\ raw.named
    /\ raw.state \in StepStates \cup {Omitted}
    /\ raw.id \notin ToSet(raw.dependencies)
    /\ \A d \in ToSet(raw.dependencies) : d > 0

\* What the call leaves out is carried over from the plan on disk.
MergedStep(raw, existing) ==
    LET known == raw.id \in Ids(existing) IN
    [id |-> raw.id,
     status |-> IF raw.state = Omitted THEN "pending" ELSE raw.state,
     dependencies |-> raw.dependencies,
     command |-> IF raw.command # Omitted THEN raw.command
                 ELSE IF known THEN StepOf(existing, raw.id).command ELSE NoCommand]

\* Every step on disk is sent again.
DropsNothing(rawIds, existing) == Ids(existing) \subseteq rawIds

\* buildPlanFromInput: one reason to refuse it refuses the call.
Accepts(raws, existing) ==
    LET rawIds == {raws[i].id : i \in DOMAIN raws}
        steps == [i \in DOMAIN raws |-> MergedStep(raws[i], existing)]
    IN  /\ Len(raws) \in 1..MaxSteps
        /\ \A i \in DOMAIN raws : ValidStep(raws[i])
        /\ Cardinality(rawIds) = Len(raws)
        /\ DropsNothing(rawIds, existing)
        /\ \A i \in DOMAIN steps : ToSet(steps[i].dependencies) \subseteq rawIds
        /\ Cardinality(WithState(steps, {"in_progress"})) <= 1
        /\ Acyclic(steps)

Built(raws, existing) ==
    LET steps == [i \in DOMAIN raws |-> MergedStep(raws[i], existing)]
    IN  [steps |-> steps, status |-> DerivePlanStatus("IN_PROGRESS", steps)]

-----------------------------------------------------------------------------
(* The markdown form: the plan embedded, and the lines a human reads. *)

NoJson == [steps |-> <<>>, status |-> "none"]

Lines(plan) ==
    [i \in DOMAIN plan.steps |->
        [glyph |-> Glyph(plan.steps[i].status), id |-> plan.steps[i].id,
         dependencies |-> plan.steps[i].dependencies, command |-> plan.steps[i].command]]

\* renderPlanMarkdown.
RenderPlanMarkdown(plan) == [json |-> plan, status |-> plan.status, lines |-> Lines(plan)]

\* GLYPH_TO_STATE; a glyph nobody wrote is pending.
StateOfGlyph(glyph) ==
    IF \E s \in StepStates : Glyph(s) = glyph THEN CHOOSE s \in StepStates : Glyph(s) = glyph
    ELSE "pending"

\* parseLegacyMarkdown.
ParseLegacyMarkdown(file) ==
    [status |-> file.status,
     steps |-> [i \in DOMAIN file.lines |->
        [id |-> file.lines[i].id, status |-> StateOfGlyph(file.lines[i].glyph),
         dependencies |-> file.lines[i].dependencies, command |-> file.lines[i].command]]]

\* parsePlanMarkdown: the embedded plan, whatever the lines below it say.
ParsePlanMarkdown(file) == IF file.json # NoJson THEN file.json ELSE ParseLegacyMarkdown(file)

-----------------------------------------------------------------------------
(* What is checked, for one call and one plan on disk. *)

\* A plan that no failure stops and that is not done has work to do: a step in
\* progress, or one that may be started.
HasWork(steps) ==
    WithState(steps, {"failed"}) # {} \/ WithState(steps, Settled) = DOMAIN steps
        \/ WithState(steps, {"in_progress"}) # {} \/ ActionableSteps(steps) # {}

NoRepeats(steps) == \A i \in DOMAIN steps : IsInjective(steps[i].dependencies)

\* What the call makes of the plan on disk: no step and no command is lost, the
\* plan can be worked off, its status is what its steps say, and both readers
\* of the file read the same plan.
PublishesSound(raws, existing) ==
    LET plan == Built(raws, existing)
        file == RenderPlanMarkdown(plan)
    IN  Accepts(raws, existing) =>
          /\ \A old \in ToSet(existing) : \E new \in ToSet(plan.steps) :
                /\ new.id = old.id
                /\ new.command = old.command
                     \/ \E raw \in ToSet(raws) : raw.id = old.id /\ raw.command = new.command
          /\ NoRepeats(plan.steps) => HasWork(plan.steps)
          /\ plan.status = "COMPLETED" <=> \A s \in ToSet(plan.steps) : s.status \in Settled
          /\ ParsePlanMarkdown(file) = plan /\ ParseLegacyMarkdown(file) = plan
================================================================================
