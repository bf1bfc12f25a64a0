----------------------------- MODULE AlgorithmsProofs ----------------------------
(***************************************************************************)
(* What the pure algorithms compute, for inputs of every size.             *)
(***************************************************************************)
EXTENDS MCAlgorithms, WellFoundedInduction, FiniteSetTheorems, TLAPS

-----------------------------------------------------------------------------
(* Induction over a bounded range, in a form the provers can use: the        *)
(* theorems of the library take an operator as a parameter, which none of    *)
(* them can instantiate.  And two facts about sequences.                     *)

\* A set of naturals has a least one.
LEMMA Least ==
  ASSUME NEW S \in SUBSET Nat, NEW n \in S
  PROVE  \E m \in S : \A x \in S : m <= x
  <1> DEFINE R == OpToRel(<, Nat)
  <1>1. IsWellFoundedOn(R, Nat)
    BY NatLessThanWellFounded, Zenon
  <1>2. \A x, y \in Nat : <<y, x>> \in R <=> y < x
    BY DEF OpToRel
  <1> HIDE DEF R
  <1>3. PICK m \in S : \A x \in S : ~(<<x, m>> \in R)
    BY <1>1, WFMin, Zenon
  <1>4. \A x \in S : ~(x < m)
    BY <1>2, <1>3, Zenon
  <1> QED BY <1>4

\* What holds of 0 and is passed on holds up to L: there is no least number of
\* which it does not hold.
LEMMA UpTo ==
  ASSUME NEW L \in Nat, NEW S, 0 \in S, \A m \in 0..(L - 1) : m \in S => m + 1 \in S
  PROVE  \A m \in 0..L : m \in S
  <1> DEFINE T == {m \in 0..L : m \notin S}
  <1> SUFFICES ASSUME NEW k \in T PROVE FALSE
    OBVIOUS
  <1>1. PICK m \in T : \A x \in T : m <= x
    <2>1. T \in SUBSET Nat
      OBVIOUS
    <2> QED BY <2>1, Least, Zenon
  <1>2. m \in 0..L /\ m # 0
    OBVIOUS
  <1>3. m - 1 \in 0..L /\ m - 1 \in 0..(L - 1) /\ (m - 1) + 1 = m /\ ~(m <= m - 1)
    BY <1>2
  <1>4. m - 1 \notin S
    BY <1>3
  <1> QED BY <1>1, <1>3, <1>4

\* A function over 1..L is a sequence of that length.
LEMMA FunIsSeq ==
  ASSUME NEW A, NEW L \in Nat, NEW z \in [1..L -> A]
  PROVE  z \in Seq(A) /\ DOMAIN z = 1..L /\ Len(z) = L
  OBVIOUS

\* Two sequences with the same elements are one.
LEMMA SameSeq ==
    ASSUME NEW A, NEW y \in Seq(A), NEW z \in Seq(A), Len(y) = Len(z),
           \A x \in 1..Len(y) : y[x] = z[x]
    PROVE  y = z
  OBVIOUS


(***************************************************************************)
(* PlanFormat.  A call and a plan on disk of any length.                   *)
(***************************************************************************)

\* A call, whatever the fields of its steps say.
IsCall(raws) == \A i \in DOMAIN raws : raws[i].dependencies \in Seq(Int)

\* A plan on disk names no step twice.
IsPlan(existing) ==
    \A i, j \in DOMAIN existing : existing[i].id = existing[j].id => i = j

Merged(raws, existing) == [i \in DOMAIN raws |-> Plans!MergedStep(raws[i], existing)]

\* The steps of a well-formed plan.
IsSteps(steps) ==
    /\ Len(steps) \in Nat /\ steps = [i \in 1..Len(steps) |-> steps[i]]
    /\ \A i \in DOMAIN steps :
        /\ steps[i] = [id |-> steps[i].id, status |-> steps[i].status,
                       dependencies |-> steps[i].dependencies, command |-> steps[i].command]
        /\ steps[i].status \in Plans!StepStates
        /\ steps[i].dependencies \in Seq(Int)
        /\ Plans!ToSet(steps[i].dependencies) \subseteq Plans!Ids(steps)

\* What an accepted call makes is such a plan.
LEMMA MergedIsSteps ==
  ASSUME NEW A, NEW raws \in Seq(A), NEW existing,
         IsCall(raws),
         Plans!Accepts(raws, existing)
  PROVE  /\ IsSteps(Merged(raws, existing))
         /\ Len(Merged(raws, existing)) = Len(raws) /\ Len(raws) > 0
         /\ Plans!Acyclic(Merged(raws, existing))
  <1> DEFINE steps == Merged(raws, existing)
  <1>1. DOMAIN raws = 1..Len(raws) /\ Len(raws) \in Nat
    OBVIOUS
  <1>2. DOMAIN steps = 1..Len(raws) /\ Len(steps) = Len(raws)
    BY <1>1 DEF Merged
  <1>3. Len(raws) > 0
    BY DEF Plans!Accepts
  <1>4. Plans!Acyclic(steps)
    BY DEF Plans!Accepts, Merged
  <1>5. Plans!Ids(steps) = {raws[i].id : i \in DOMAIN raws}
    <2>1. \A i \in DOMAIN raws : steps[i].id = raws[i].id
      BY DEF Merged, Plans!MergedStep
    <2> HIDE DEF steps
    <2> QED BY <1>1, <1>2, <2>1 DEF Plans!Ids
  <1>6. ASSUME NEW i \in DOMAIN steps
        PROVE  /\ steps[i] = [id |-> steps[i].id, status |-> steps[i].status,
                              dependencies |-> steps[i].dependencies, command |-> steps[i].command]
               /\ steps[i].status \in Plans!StepStates
               /\ steps[i].dependencies \in Seq(Int)
               /\ Plans!ToSet(steps[i].dependencies) \subseteq Plans!Ids(steps)
    <2>1. i \in DOMAIN raws
      BY <1>1, <1>2
    <2>2. steps[i] = Plans!MergedStep(raws[i], existing)
      BY <2>1 DEF Merged
    <2>3. Plans!ValidStep(raws[i])
      BY <2>1 DEF Plans!Accepts
    <2>4. steps[i].status \in Plans!StepStates
      BY <2>2, <2>3 DEF Plans!MergedStep, Plans!ValidStep, Plans!StepStates
    <2>5. steps[i].dependencies = raws[i].dependencies
      BY <2>2 DEF Plans!MergedStep
    <2>6. Plans!ToSet(steps[i].dependencies) \subseteq {raws[n].id : n \in DOMAIN raws}
      BY <2>1, Zenon DEF Plans!Accepts, Merged
    <2>7. steps[i] = [id |-> steps[i].id, status |-> steps[i].status,
                      dependencies |-> steps[i].dependencies, command |-> steps[i].command]
      BY <2>2 DEF Plans!MergedStep
    <2>8. raws[i].dependencies \in Seq(Int)
      BY <2>1 DEF IsCall
    <2> QED BY <1>5, <2>4, <2>5, <2>6, <2>7, <2>8
  <1>7. steps = [i \in 1..Len(steps) |-> steps[i]]
    BY <1>1, <1>2 DEF Merged
  <1>8. IsSteps(steps)
    <2> HIDE DEF steps
    <2> QED BY <1>1, <1>2, <1>6, <1>7 DEF IsSteps
  <1> QED BY <1>2, <1>3, <1>4, <1>8

\* The first of the unsettled steps, in an order that follows the dependencies,
\* waits for nothing.
LEMMA WorkIsLeft ==
  ASSUME NEW steps, IsSteps(steps), Plans!Acyclic(steps), Plans!NoRepeats(steps)
  PROVE  Plans!HasWork(steps)
  <1> SUFFICES ASSUME Plans!WithState(steps, {"failed"}) = {},
                      Plans!WithState(steps, {"in_progress"}) = {},
                      Plans!WithState(steps, Plans!Settled) # DOMAIN steps
               PROVE  Plans!ActionableSteps(steps) # {}
    BY DEF Plans!HasWork
  <1>1. PICK order \in [Plans!Ids(steps) -> 1..Len(steps)] :
           \A i \in DOMAIN steps : \A d \in Plans!ToSet(steps[i].dependencies) :
              order[d] < order[steps[i].id]
    BY DEF Plans!Acyclic
  <1> DEFINE open == {i \in DOMAIN steps : steps[i].status \notin Plans!Settled}
             ranks == {order[steps[i].id] : i \in open}
  <1>2. \A i \in DOMAIN steps : steps[i].id \in Plans!Ids(steps)
    BY DEF Plans!Ids
  <1>3. PICK o \in open : TRUE
    BY Zenon DEF Plans!WithState
  <1>4. ranks \in SUBSET Nat
    BY <1>1, <1>2 DEF IsSteps
  <1>5. order[steps[o].id] \in ranks
    OBVIOUS
  <1>6. PICK m \in ranks : \A x \in ranks : m <= x
    <2> HIDE DEF ranks
    <2> QED BY <1>4, <1>5, Least, Zenon
  <1>7. PICK i \in open : order[steps[i].id] = m
    OBVIOUS
  <1>8. steps[i].status = "pending"
    BY DEF Plans!WithState, Plans!Settled, IsSteps, Plans!StepStates
  <1>9. ~Plans!Blocked(steps, steps[i])
    <2> SUFFICES ASSUME NEW n \in DOMAIN steps[i].dependencies
                 PROVE  LET dep == steps[i].dependencies[n] IN
                        /\ dep \in Plans!Ids(steps)
                        /\ \A k \in 1..(n - 1) : steps[i].dependencies[k] # dep
                        /\ Plans!StepOf(steps, dep).status \in Plans!Settled
      BY DEF Plans!Blocked
    <2> DEFINE dep == steps[i].dependencies[n]
    <2>1. dep \in Plans!ToSet(steps[i].dependencies)
      BY DEF Plans!ToSet
    <2>2. dep \in Plans!Ids(steps)
      BY <2>1 DEF IsSteps
    <2>3. \A k \in 1..(n - 1) : steps[i].dependencies[k] # dep
      <3>1. steps[i].dependencies \in Seq(Int)
        BY DEF IsSteps
      <3>2. \A k \in 1..(n - 1) : k \in DOMAIN steps[i].dependencies /\ k # n
        BY <3>1
      <3> QED BY <3>2 DEF Plans!NoRepeats, Plans!IsInjective
    <2>4. PICK w \in DOMAIN steps : Plans!StepOf(steps, dep) = steps[w] /\ steps[w].id = dep
      BY <2>2, Zenon DEF Plans!Ids, Plans!StepOf
    <2>5. order[steps[w].id] < m
      BY <1>1, <1>7, <2>1, <2>4
    <2>6. w \notin open
      <3>1. order[steps[w].id] \in Nat /\ m \in Nat
        BY <1>1, <1>2, <1>4
      <3>2. w \in open => m <= order[steps[w].id]
        BY <1>6
      <3> QED BY <2>5, <3>1, <3>2
    <2> QED BY <2>2, <2>3, <2>4, <2>6
  <1>10. steps[i] \in Plans!ToSet(steps)
    BY DEF Plans!ToSet
  <1> QED BY <1>8, <1>9, <1>10 DEF Plans!ActionableSteps

\* A step the plan has completed is settled.
LEMMA CompletedIsSettled ==
  ASSUME NEW steps, IsSteps(steps), Len(steps) > 0
  PROVE  Plans!DerivePlanStatus("IN_PROGRESS", steps) = "COMPLETED"
           <=> \A s \in Plans!ToSet(steps) : s.status \in Plans!Settled
  <1>1. (\A s \in Plans!ToSet(steps) : s.status \in Plans!Settled)
           <=> Plans!WithState(steps, Plans!Settled) = DOMAIN steps
    BY Zenon DEF Plans!ToSet, Plans!WithState
  <1>2. steps # <<>>
    BY DEF IsSteps
  <1>3. Plans!WithState(steps, Plans!Settled) = DOMAIN steps
           => Plans!WithState(steps, {"failed"}) = {}
    BY DEF Plans!WithState, Plans!Settled
  <1> QED BY <1>1, <1>2, <1>3, Zenon DEF Plans!DerivePlanStatus

\* No two states share a glyph.
LEMMA GlyphsDiffer ==
  ASSUME NEW s \in Plans!StepStates
  PROVE  Plans!StateOfGlyph(Plans!Glyph(s)) = s
  <1>1. \A t \in Plans!StepStates : Plans!Glyph(t) = Plans!Glyph(s) => t = s
    BY Zenon DEF Plans!StepStates, Plans!Glyph
  <1> QED BY <1>1, Zenon DEF Plans!StateOfGlyph

\* What was written of a well-formed plan is read as it was.
LEMMA ReadsBack ==
  ASSUME NEW steps, IsSteps(steps), NEW status, status # "none"
  PROVE  LET plan == [steps |-> steps, status |-> status]
             file == Plans!RenderPlanMarkdown(plan)
         IN  Plans!ParsePlanMarkdown(file) = plan /\ Plans!ParseLegacyMarkdown(file) = plan
  <1> DEFINE plan == [steps |-> steps, status |-> status]
             file == Plans!RenderPlanMarkdown(plan)
             read == Plans!ParseLegacyMarkdown(file)
  <1>1. Plans!ParsePlanMarkdown(file) = plan
    BY DEF Plans!ParsePlanMarkdown, Plans!RenderPlanMarkdown, Plans!NoJson
  <1>2. file.status = status /\ file.lines = Plans!Lines(plan)
    BY DEF Plans!RenderPlanMarkdown
  <1>3. DOMAIN file.lines = DOMAIN steps
    BY <1>2 DEF Plans!Lines
  <1>4. ASSUME NEW i \in DOMAIN steps
        PROVE  [id |-> file.lines[i].id, status |-> Plans!StateOfGlyph(file.lines[i].glyph),
                dependencies |-> file.lines[i].dependencies,
                command |-> file.lines[i].command] = steps[i]
    <2>1. file.lines[i] = [glyph |-> Plans!Glyph(steps[i].status), id |-> steps[i].id,
                           dependencies |-> steps[i].dependencies, command |-> steps[i].command]
      BY <1>2 DEF Plans!Lines
    <2>2. Plans!StateOfGlyph(Plans!Glyph(steps[i].status)) = steps[i].status
      BY GlyphsDiffer DEF IsSteps
    <2>3. steps[i] = [id |-> steps[i].id, status |-> steps[i].status,
                      dependencies |-> steps[i].dependencies, command |-> steps[i].command]
      BY Zenon DEF IsSteps
    <2> HIDE DEF file
    <2> QED BY <2>1, <2>2, <2>3
  <1>5. steps = [i \in DOMAIN steps |-> steps[i]]
    BY DEF IsSteps
  <1>6. read = [status |-> status, steps |-> steps]
    <2> HIDE DEF file
    <2> QED BY <1>2, <1>3, <1>4, <1>5 DEF Plans!ParseLegacyMarkdown
  <1> QED BY <1>1, <1>6

\* A step of the plan on disk is in the new plan, with its command or the one
\* the call gives it.
LEMMA NothingIsLost ==
  ASSUME NEW A, NEW raws \in Seq(A), NEW existing, IsCall(raws), IsPlan(existing),
         Plans!Accepts(raws, existing),
         NEW old \in Plans!ToSet(existing)
  PROVE  \E new \in Plans!ToSet(Merged(raws, existing)) :
            /\ new.id = old.id
            /\ new.command = old.command
                 \/ \E raw \in Plans!ToSet(raws) : raw.id = old.id /\ raw.command = new.command
  <1>1. PICK e \in DOMAIN existing : old = existing[e]
    BY DEF Plans!ToSet
  <1>2. old.id \in Plans!Ids(existing)
    BY <1>1 DEF Plans!Ids
  <1>3. PICK i \in DOMAIN raws : raws[i].id = old.id
    BY <1>2 DEF Plans!Accepts, Plans!DropsNothing
  <1> DEFINE new == Plans!MergedStep(raws[i], existing)
  <1>4. new \in Plans!ToSet(Merged(raws, existing))
    BY DEF Merged, Plans!ToSet
  <1>5. new.id = old.id
    BY <1>3 DEF Plans!MergedStep
  <1>6. raws[i] \in Plans!ToSet(raws)
    BY DEF Plans!ToSet
  <1>7. CASE raws[i].command # Omitted
    <2>1. new.command = raws[i].command
      BY <1>7 DEF Plans!MergedStep
    <2> HIDE DEF new
    <2> QED BY <1>3, <1>4, <1>5, <1>6, <2>1
  <1>8. CASE raws[i].command = Omitted
    <2>1. Plans!StepOf(existing, old.id) = old
      <3>1. \A n \in DOMAIN existing : existing[n].id = old.id => n = e
        BY <1>1 DEF IsPlan
      <3> QED BY <1>1, <3>1, Zenon DEF Plans!StepOf
    <2>2. new.command = old.command
      BY <1>2, <1>3, <1>8, <2>1 DEF Plans!MergedStep
    <2> HIDE DEF new
    <2> QED BY <1>4, <1>5, <2>2
  <1> QED BY <1>7, <1>8

\* What update_plan publishes, for every call and every plan on disk.
THEOREM PublishedIsSound ==
  ASSUME NEW A, NEW raws \in Seq(A), NEW existing, IsCall(raws), IsPlan(existing)
  PROVE  Plans!PublishesSound(raws, existing)
  <1> SUFFICES ASSUME Plans!Accepts(raws, existing)
               PROVE  LET plan == Plans!Built(raws, existing)
                          file == Plans!RenderPlanMarkdown(plan)
                      IN  /\ \A old \in Plans!ToSet(existing) :
                               \E new \in Plans!ToSet(plan.steps) :
                                  /\ new.id = old.id
                                  /\ new.command = old.command
                                       \/ \E raw \in Plans!ToSet(raws) :
                                             raw.id = old.id /\ raw.command = new.command
                          /\ Plans!NoRepeats(plan.steps) => Plans!HasWork(plan.steps)
                          /\ plan.status = "COMPLETED"
                               <=> \A s \in Plans!ToSet(plan.steps) : s.status \in Plans!Settled
                          /\ Plans!ParsePlanMarkdown(file) = plan
                          /\ Plans!ParseLegacyMarkdown(file) = plan
    BY DEF Plans!PublishesSound
  <1> DEFINE steps == Merged(raws, existing)
             status == Plans!DerivePlanStatus("IN_PROGRESS", steps)
             plan == [steps |-> steps, status |-> status]
             file == Plans!RenderPlanMarkdown(plan)
  <1>1. IsSteps(steps) /\ Len(steps) > 0 /\ Plans!Acyclic(steps)
    BY MergedIsSteps
  <1>2. Plans!Built(raws, existing) = plan
    BY DEF Plans!Built, Merged
  <1>3. status # "none"
    BY DEF Plans!DerivePlanStatus
  <1>4. Plans!NoRepeats(steps) => Plans!HasWork(steps)
    BY <1>1, WorkIsLeft
  <1>5. status = "COMPLETED" <=> \A s \in Plans!ToSet(steps) : s.status \in Plans!Settled
    BY <1>1, CompletedIsSettled
  <1>6. Plans!ParsePlanMarkdown(file) = plan /\ Plans!ParseLegacyMarkdown(file) = plan
    <2> HIDE DEF steps, status
    <2> QED BY <1>1, <1>3, ReadsBack
  <1>7. \A old \in Plans!ToSet(existing) : \E new \in Plans!ToSet(steps) :
            /\ new.id = old.id
            /\ new.command = old.command
                 \/ \E raw \in Plans!ToSet(raws) : raw.id = old.id /\ raw.command = new.command
    BY NothingIsLost
  <1>8. plan.steps = steps /\ plan.status = status
    OBVIOUS
  <1> HIDE DEF steps, status, plan
  <1> QED BY <1>2, <1>4, <1>5, <1>6, <1>7, <1>8

\* The inputs of a plan that the run draws.
PlanInputs ==
    /\ input.of = "plan" => input.first \in RawSteps /\ input.disk \in OnDisk
    /\ input.of = "whole_plan" =>
          input.first \in RawSteps /\ input.more \in LaterSteps /\ input.disk \in OnDisk

\* Every plan the run draws is a call with a plan on disk.
LEMMA InputsArePlans == Spec => []PlanInputs
  <1>1. Init => PlanInputs
    BY Zenon DEF Init, PlanInputs
  <1>2. PlanInputs /\ [Next]_input => PlanInputs'
    <2> SUFFICES ASSUME PlanInputs, [Next]_input PROVE PlanInputs'
      OBVIOUS
    <2> DEFINE Drawn == \E more \in LaterSteps :
                  input' = [of |-> "whole_plan", first |-> input.first, disk |-> input.disk,
                            more |-> more]
    <2>1. CASE UNCHANGED input
      BY <2>1 DEF PlanInputs
    <2>2. CASE input.of = "plan" /\ Drawn
      <3>1. PICK more \in LaterSteps :
               input' = [of |-> "whole_plan", first |-> input.first, disk |-> input.disk,
                         more |-> more]
        BY <2>2
      <3>2. /\ input'.of = "whole_plan" /\ input'.first = input.first
            /\ input'.disk = input.disk /\ input'.more = more
        BY <3>1
      <3> QED BY <2>2, <3>2 DEF PlanInputs
    <2>3. CASE input'.of \notin {"plan", "whole_plan"}
      BY <2>3 DEF PlanInputs
    <2>4. Next => input'.of \notin {"plan", "whole_plan"} \/ (input.of = "plan" /\ Drawn)
      <3> HIDE DEF Drawn
      <3>1. CASE input.of = "plan" /\ Drawn
        BY <3>1
      <3>2. CASE \E new, third, context :
                    input' = [of |-> "whole_diff", old |-> input.old,
                              new |-> new, third |-> third, context |-> context]
        BY <3>2
      <3>3. CASE \E more :
                    input' = [of |-> "whole_shell", line |-> input.line, rules |-> input.rules,
                              more |-> more]
        BY <3>3
      <3>4. CASE \E offset, size, to :
                    input' = [of |-> "whole_answer", from |-> input.from, answer |-> input.answer,
                              style |-> input.style, offset |-> offset, size |-> size, to |-> to]
        BY <3>4
      <3>5. CASE \E target, new :
                    input' = [of |-> "whole_edit", file |-> input.file, target |-> target, new |-> new]
        BY <3>5
      <3>6. CASE \E edit : input' = [of |-> "whole_call", file |-> input.file, edit |-> edit]
        BY <3>6
      <3> QED BY <3>1, <3>2, <3>3, <3>4, <3>5, <3>6, Zenon DEF Next, Drawn
    <2> QED BY <2>1, <2>2, <2>3, <2>4
  <1> QED BY <1>1, <1>2, PTL DEF Spec

\* An accepted plan loses nothing, can be worked off and reads back as it is.
THEOREM PublishedPlansAreSoundHolds == Spec => []PublishedPlansAreSound
  <1>1. PlanInputs => PublishedPlansAreSound
    <2> SUFFICES ASSUME PlanInputs, input.of = "whole_plan"
                 PROVE  Plans!PublishesSound(<<input.first, input.more>>, input.disk)
      BY DEF PublishedPlansAreSound
    <2> DEFINE raws == <<input.first, input.more>>
    <2>1. input.first \in RawSteps /\ input.more \in RawSteps /\ input.disk \in OnDisk
      BY DEF PlanInputs, LaterSteps
    <2>2. \A raw \in RawSteps : raw.dependencies \in Seq(Int)
      <3>1. \A m, n \in Int : <<>> \in Seq(Int) /\ <<m>> \in Seq(Int) /\ <<m, n>> \in Seq(Int)
        OBVIOUS
      <3>2. {<<>>, <<1>>, <<2>>, <<3>>, <<1, 1>>, <<1, 3>>} \subseteq Seq(Int)
        BY <3>1
      <3> QED BY <3>2, Zenon DEF RawSteps
    <2>3. raws \in Seq(RawSteps) /\ DOMAIN raws = 1..2
      <3> HIDE DEF RawSteps
      <3> QED BY <2>1
    <2>4. IsCall(raws)
      <3>1. \A i \in 1..2 : raws[i] \in RawSteps
        BY <2>1
      <3> HIDE DEF raws
      <3> QED BY <2>2, <2>3, <3>1 DEF IsCall
    <2>5. IsPlan(input.disk)
      <3>1. PICK m \in 0..1 : DOMAIN input.disk = 1..m
        BY <2>1 DEF OnDisk, BoundedSeq, SeqOf
      <3>2. \A i, j \in 1..m : i = j
        OBVIOUS
      <3> QED BY <3>1, <3>2 DEF IsPlan
    <2> HIDE DEF raws
    <2>6. Plans!PublishesSound(raws, input.disk)
      BY <2>3, <2>4, <2>5, PublishedIsSound
    <2> QED BY <2>6 DEF raws
  <1> QED BY <1>1, InputsArePlans, PTL

-----------------------------------------------------------------------------
(* ModelStream: runs of one step per element of a sequence.                  *)

\* Two runs of the same steps from the same start end alike.
LEMMA Determined ==
  ASSUME NEW L \in Nat, NEW f, NEW g, f[0] = g[0],
         \A n \in 1..L : f[n - 1] = g[n - 1] => f[n] = g[n]
  PROVE  f[L] = g[L]
  <1> DEFINE S == {n \in 0..L : f[n] = g[n]}
  <1>1. 0 \in S /\ \A m \in 0..(L - 1) : m \in S => m + 1 \in S
    <2>1. \A m \in 0..(L - 1) : m + 1 \in 1..L /\ m + 1 \in 0..L /\ (m + 1) - 1 = m
      OBVIOUS
    <2> QED BY <2>1
  <1> HIDE DEF S
  <1>2. L \in S
    BY <1>1, UpTo
  <1> QED BY <1>2 DEF S

\* One step of each of the loops of the model.
Move(how, s, e) ==
    CASE how = "token" -> Models!ReadToken(s, e)
      [] how = "chunk" -> Models!ReadChunk(s, e)
      [] how = "join" -> s \o e
      [] how = "merge" -> Models!MergeCall(s, e)
      [] how = "give" -> Models!GeminiCall(s, e)
      [] how = "line" -> Edits!LineOn(s, e)
      [] OTHER -> Models!Step(how, s, e)

\* f is what the elements of a sequence make of a state, one after the other.
Running(f, how, seq, n) == \A k \in 1..n : f[k] = Move(how, f[k - 1], seq[k])
Runs(how, s, seq, t) ==
    \E f : f[0] = s /\ f[Len(seq)] = t /\ Running(f, how, seq, Len(seq))

\* No element, no step.
LEMMA RunsNowhere ==
  ASSUME NEW how, NEW s PROVE Runs(how, s, <<>>, s)
  <1> DEFINE f == [k \in 0..0 |-> s]
  <1>1. f[0] = s /\ f[Len(<<>>)] = s /\ Running(f, how, <<>>, Len(<<>>))
    BY DEF Running
  <1> QED BY <1>1 DEF Runs

\* A run and another from where it ends are one over both sequences.
LEMMA RunsOn ==
  ASSUME NEW how, NEW A, NEW x \in Seq(A), NEW y \in Seq(A), NEW s, NEW t, NEW u,
         Runs(how, s, x, t), Runs(how, t, y, u)
  PROVE  Runs(how, s, x \o y, u)
  <1>1. PICK f : f[0] = s /\ f[Len(x)] = t /\ Running(f, how, x, Len(x))
    BY DEF Runs
  <1>2. PICK g : g[0] = t /\ g[Len(y)] = u /\ Running(g, how, y, Len(y))
    BY DEF Runs
  <1> DEFINE m == Len(x)
             n == Len(y)
             z == x \o y
             h == [k \in 0..(m + n) |-> IF k <= m THEN f[k] ELSE g[k - m]]
  <1>3. m \in Nat /\ n \in Nat /\ Len(z) = m + n
    OBVIOUS
  <1>4. \A k \in 1..m : z[k] = x[k]
    OBVIOUS
  <1>5. \A k \in 1..n : z[m + k] = y[k]
    OBVIOUS
  <1>6. \A k \in 0..m : h[k] = f[k]
    BY <1>3
  <1>7. \A k \in 0..n : h[m + k] = g[k]
    <2> SUFFICES ASSUME NEW k \in 0..n PROVE h[m + k] = g[k]
      OBVIOUS
    <2>1. m + k \in 0..(m + n) /\ (m + k) - m = k /\ (m + k <= m => k = 0 /\ m + k = m)
      BY <1>3
    <2> HIDE DEF m, n
    <2> QED BY <1>1, <1>2, <2>1 DEF m
  <1> HIDE DEF h, z, m, n
  <1>8. ASSUME NEW k \in 1..(m + n) PROVE h[k] = Move(how, h[k - 1], z[k])
    <2>1. CASE k \in 1..m
      <3>1. k - 1 \in 0..m /\ k \in 0..m
        BY <1>3, <2>1
      <3> QED BY <1>1, <1>4, <1>6, <2>1, <3>1 DEF Running, m
    <2>2. CASE k \notin 1..m
      <3> DEFINE j == k - m
      <3>1. j \in 1..n /\ j \in 0..n /\ j - 1 \in 0..n /\ m + j = k /\ m + (j - 1) = k - 1
        BY <1>3, <2>2
      <3> HIDE DEF j
      <3>2. h[k] = g[j] /\ h[k - 1] = g[j - 1] /\ z[k] = y[j]
        BY <1>5, <1>7, <3>1
      <3>3. g[j] = Move(how, g[j - 1], y[j])
        BY <1>2, <3>1 DEF Running, n
      <3> QED BY <3>2, <3>3
    <2> QED BY <2>1, <2>2
  <1>9. h[0] = s /\ h[m + n] = u
    <2>1. 0 \in 0..m /\ n \in 0..n
      BY <1>3
    <2> QED BY <1>1, <1>2, <1>6, <1>7, <2>1 DEF n
  <1>10. Len(z) = m + n
    BY <1>3 DEF z
  <1> QED BY <1>8, <1>9, <1>10, Zenon DEF Runs, Running, z

\* One element, one step.
LEMMA RunsOne ==
  ASSUME NEW how, NEW s, NEW e PROVE Runs(how, s, <<e>>, Move(how, s, e))
  <1> DEFINE t == Move(how, s, e)
             f == [k \in 0..1 |-> IF k = 0 THEN s ELSE t]
  <1>1. f[0] = s /\ f[1] = t /\ Len(<<e>>) = 1 /\ <<e>>[1] = e
    OBVIOUS
  <1> HIDE DEF f
  <1>2. Running(f, how, <<e>>, 1)
    <2> SUFFICES ASSUME NEW k \in 1..1 PROVE f[k] = Move(how, f[k - 1], <<e>>[k])
      BY DEF Running
    <2>1. k = 1 /\ k - 1 = 0
      OBVIOUS
    <2> QED BY <1>1, <2>1
  <1> QED BY <1>1, <1>2 DEF Runs

\* A run has one end.
LEMMA RunsOnce ==
  ASSUME NEW how, NEW seq, Len(seq) \in Nat, NEW s, NEW t, NEW u, Runs(how, s, seq, t), Runs(how, s, seq, u)
  PROVE  t = u
  <1>1. PICK f : f[0] = s /\ f[Len(seq)] = t /\ Running(f, how, seq, Len(seq))
    BY DEF Runs
  <1>2. PICK g : g[0] = s /\ g[Len(seq)] = u /\ Running(g, how, seq, Len(seq))
    BY DEF Runs
  <1>3. \A n \in 1..Len(seq) : f[n - 1] = g[n - 1] => f[n] = g[n]
    BY <1>1, <1>2 DEF Running
  <1> QED BY <1>1, <1>2, <1>3, Determined

\* Everything can be read.
LEMMA RunsAll ==
  ASSUME NEW how, NEW A, NEW seq \in Seq(A), NEW s
  PROVE  \E t : Runs(how, s, seq, t)
  <1> DEFINE L == Len(seq)
             S == {m \in 0..L : \E t : Runs(how, s, SubSeq(seq, 1, m), t)}
  <1>0. L \in Nat /\ SubSeq(seq, 1, L) = seq
    OBVIOUS
  <1>1. 0 \in S
    <2>1. SubSeq(seq, 1, 0) = <<>> /\ 0 \in 0..L
      BY <1>0
    <2>2. Runs(how, s, SubSeq(seq, 1, 0), s)
      BY <2>1, RunsNowhere, Zenon
    <2> QED BY <2>1, <2>2
  <1>2. \A m \in 0..(L - 1) : m \in S => m + 1 \in S
    <2> SUFFICES ASSUME NEW m \in 0..(L - 1), m \in S PROVE m + 1 \in S
      OBVIOUS
    <2>1. PICK t : Runs(how, s, SubSeq(seq, 1, m), t)
      OBVIOUS
    <2>2. /\ SubSeq(seq, 1, m + 1) = SubSeq(seq, 1, m) \o <<seq[m + 1]>>
          /\ SubSeq(seq, 1, m) \in Seq(A) /\ <<seq[m + 1]>> \in Seq(A) /\ m + 1 \in 0..L
      OBVIOUS
    <2>3. Runs(how, s, SubSeq(seq, 1, m + 1), Move(how, t, seq[m + 1]))
      BY <2>1, <2>2, RunsOn, RunsOne, Zenon
    <2> QED BY <2>2, <2>3
  <1> HIDE DEF S, L
  <1>3. L \in S
    BY <1>0, <1>1, <1>2, UpTo
  <1> QED BY <1>0, <1>3, Zenon DEF S

\* A run is what the recursion of a loop computes.
IsAfter(g, how, s, seq) ==
    g = [n \in 0..Len(seq) |-> IF n = 0 THEN s ELSE Move(how, g[n - 1], seq[n])]

\* The recursive functions of the model are such runs, and have their end.
LEMMA After ==
  ASSUME NEW how, NEW A, NEW seq \in Seq(A), NEW s, NEW t, Runs(how, s, seq, t)
  PROVE  /\ \E h : IsAfter(h, how, s, seq)
         /\ \A g : IsAfter(g, how, s, seq) => g[Len(seq)] = t
  <1> DEFINE L == Len(seq)
  <1>0. L \in Nat
    OBVIOUS
  <1>1. PICK f : f[0] = s /\ f[L] = t /\ Running(f, how, seq, L)
    BY DEF Runs
  <1>2. \E h : IsAfter(h, how, s, seq)
    <2> DEFINE h == [n \in 0..L |-> f[n]]
    <2>1. ASSUME NEW n \in 0..L
          PROVE  h[n] = IF n = 0 THEN s ELSE Move(how, h[n - 1], seq[n])
      <3>1. n # 0 => n \in 1..L /\ n - 1 \in 0..L
        BY <1>0
      <3> QED BY <1>1, <3>1 DEF Running
    <2>2. h = [n \in 0..L |-> h[n]]
      OBVIOUS
    <2> HIDE DEF h
    <2>3. h = [n \in 0..L |-> IF n = 0 THEN s ELSE Move(how, h[n - 1], seq[n])]
      BY <2>1, <2>2, Zenon
    <2> QED BY <2>3 DEF IsAfter
  <1>3. ASSUME NEW g, IsAfter(g, how, s, seq) PROVE g[L] = t
    <2>4. g[0] = s /\ \A n \in 1..L : g[n] = Move(how, g[n - 1], seq[n])
      <3>1. \A n \in 1..L : n # 0 /\ n \in 0..L
        OBVIOUS
      <3>2. 0 \in 0..L
        BY <1>0
      <3> HIDE DEF L
      <3> QED BY <1>3, <3>1, <3>2 DEF IsAfter, L
    <2>5. \A n \in 1..L : f[n - 1] = g[n - 1] => f[n] = g[n]
      BY <1>1, <2>4 DEF Running
    <2> HIDE DEF L
    <2>6. f[L] = g[L]
      BY <1>0, <1>1, <2>4, <2>5, Determined
    <2> QED BY <1>1, <2>6
  <1> QED BY <1>2, <1>3

\* The same run in pieces: z is the parts of seqs, F what is reached after each.
LEMMA RunsJoined ==
  ASSUME NEW how, NEW A, NEW seqs \in Seq(Seq(A)), NEW z, Runs("join", <<>>, seqs, z),
         NEW F, \A i \in 1..Len(seqs) : Runs(how, F[i - 1], seqs[i], F[i])
  PROVE  z \in Seq(A) /\ Runs(how, F[0], z, F[Len(seqs)])
  <1> DEFINE L == Len(seqs)
  <1>0. L \in Nat /\ \A i \in 1..L : seqs[i] \in Seq(A)
    OBVIOUS
  <1>1. PICK f : f[0] = <<>> /\ f[L] = z /\ Running(f, "join", seqs, L)
    BY DEF Runs
  <1>2. \A i \in 1..L : f[i] = f[i - 1] \o seqs[i]
    BY <1>1, Zenon DEF Running, Move
  <1> DEFINE S == {i \in 0..L : f[i] \in Seq(A) /\ Runs(how, F[0], f[i], F[i])}
  <1> HIDE DEF L
  <1>3. 0 \in S
    <2>1. Runs(how, F[0], <<>>, F[0]) /\ <<>> \in Seq(A) /\ 0 \in 0..L
      BY <1>0, RunsNowhere
    <2> QED BY <1>1, <2>1, Zenon
  <1>4. \A m \in 0..(L - 1) : m \in S => m + 1 \in S
    <2> SUFFICES ASSUME NEW m \in 0..(L - 1), m \in S PROVE m + 1 \in S
      OBVIOUS
    <2>1. m + 1 \in 1..L /\ m + 1 \in 0..L /\ (m + 1) - 1 = m
      BY <1>0
    <2>2. f[m + 1] = f[m] \o seqs[m + 1] /\ seqs[m + 1] \in Seq(A) /\ f[m] \in Seq(A)
      BY <1>0, <1>2, <2>1, Zenon
    <2>3. Runs(how, F[m], seqs[m + 1], F[m + 1])
      BY <2>1 DEF L
    <2>4. Runs(how, F[0], f[m] \o seqs[m + 1], F[m + 1])
      BY <2>2, <2>3, RunsOn
    <2>5. f[m] \o seqs[m + 1] \in Seq(A)
      BY <2>2
    <2> QED BY <2>1, <2>2, <2>4, <2>5, Zenon
  <1> HIDE DEF S
  <1>5. L \in S
    <2>1. L \in 0..L
      BY <1>0
    <2> QED BY <1>0, <1>3, <1>4, <2>1, UpTo, Zenon
  <1> QED BY <1>1, <1>5 DEF S, L

\* FlattenSeq, as it is defined, joins.
Flattens(N, ss) ==
    N = [i \in 1..Len(ss) |-> IF i = 1 THEN ss[i] ELSE N[i - 1] \o ss[i]]

\* FlattenSeq is the run that joins.
LEMMA FlattenJoins ==
  ASSUME NEW A, NEW ss \in Seq(Seq(A)), NEW z, Runs("join", <<>>, ss, z)
  PROVE  Models!FlattenSeq(ss) = z
  <1> DEFINE L == Len(ss)
             N == CHOOSE N : Flattens(N, ss)
  <1>0. L \in Nat /\ \A k \in 1..L : ss[k] \in Seq(A)
    OBVIOUS
  <1>1. PICK f : f[0] = <<>> /\ f[L] = z /\ Running(f, "join", ss, L)
    BY DEF Runs
  <1>2. \A k \in 1..L : f[k] = f[k - 1] \o ss[k]
    BY <1>1, Zenon DEF Running, Move
  <1>3. CASE L = 0
    <2>1. ss = <<>> /\ z = <<>>
      BY <1>1, <1>3
    <2> QED BY <2>1, <1>3 DEF Models!FlattenSeq
  <1>4. CASE L # 0
    <2>0. 1 \in 1..L /\ L \in 1..L
      BY <1>0, <1>4
    <2>1. f[1] = ss[1]
      <3>1. f[1] = f[1 - 1] \o ss[1] /\ ss[1] \in Seq(A)
        BY <1>0, <1>2, <2>0, Zenon
      <3>2. \A y \in Seq(A) : <<>> \o y = y
        OBVIOUS
      <3>3. f[1 - 1] = <<>>
        BY <1>1
      <3> QED BY <3>1, <3>2, <3>3
    <2>2. \E M : Flattens(M, ss)
      <3> DEFINE M == [i \in 1..L |-> f[i]]
      <3>1. ASSUME NEW i \in 1..L PROVE M[i] = IF i = 1 THEN ss[i] ELSE M[i - 1] \o ss[i]
        <4>1. i # 1 => i - 1 \in 1..L
          BY <1>0
        <4> QED BY <1>2, <2>1, <4>1, Zenon
      <3>2. M = [i \in 1..L |-> M[i]]
        OBVIOUS
      <3> HIDE DEF M
      <3>3. Flattens(M, ss)
        BY <3>1, <3>2, Zenon DEF Flattens
      <3> QED BY <3>3
    <2>3. Flattens(N, ss)
      BY <2>2
    <2>4. Models!FlattenSeq(ss) = N[L]
      BY <1>4 DEF Models!FlattenSeq, Flattens
    <2> HIDE DEF N
    <2>5. \A i \in 1..L : N[i] = IF i = 1 THEN ss[i] ELSE N[i - 1] \o ss[i]
      BY <2>3, Zenon DEF Flattens
    <2> DEFINE S == {m \in 0..L : m # 0 => N[m] = f[m]}
    <2> HIDE DEF L
    <2>6. 0 \in S /\ \A m \in 0..(L - 1) : m \in S => m + 1 \in S
      <3>1. 0 \in S
        BY <1>0
      <3>2. ASSUME NEW m \in 0..(L - 1), m \in S PROVE m + 1 \in S
        <4>1. m + 1 \in 1..L /\ m + 1 \in 0..L /\ (m + 1) - 1 = m /\ (m + 1 = 1 <=> m = 0)
          BY <1>0
        <4>2. N[m + 1] = f[m + 1]
          <5>1. CASE m = 0
            BY <2>0, <2>1, <2>5, <5>1
          <5>2. CASE m # 0
            <6>1. N[m] = f[m]
              BY <3>2, <5>2
            <6>2. N[m + 1] = N[m] \o ss[m + 1]
              BY <2>5, <4>1, <5>2, Zenon
            <6>3. f[m + 1] = f[m] \o ss[m + 1]
              BY <1>2, <4>1, Zenon
            <6> QED BY <6>1, <6>2, <6>3
          <5> QED BY <5>1, <5>2
        <4> QED BY <4>1, <4>2
      <3> QED BY <3>1, <3>2
    <2> HIDE DEF S
    <2>7. L \in S
      <3>1. L \in 0..L
        BY <1>0
      <3> QED BY <1>0, <2>6, <3>1, UpTo, Zenon
    <2> QED BY <1>1, <1>4, <2>4, <2>7 DEF S
  <1> QED BY <1>3, <1>4

-----------------------------------------------------------------------------
(* ModelStream: the reader of a server-sent stream.                          *)

TokensAfter(g, s, tokens) ==
    g = [n \in 0..Len(tokens) |-> IF n = 0 THEN s ELSE Models!ReadToken(g[n - 1], tokens[n])]
ChunksAfter(g, s, chunks) ==
    g = [n \in 0..Len(chunks) |-> IF n = 0 THEN s ELSE Models!ReadChunk(g[n - 1], chunks[n])]

\* The functions of ReadChunk and of ParseSse are runs.
LEMMA SameAfter ==
  /\ \A g, s, seq : TokensAfter(g, s, seq) <=> IsAfter(g, "token", s, seq)
  /\ \A g, s, seq : ChunksAfter(g, s, seq) <=> IsAfter(g, "chunk", s, seq)
  BY DEF TokensAfter, ChunksAfter, IsAfter, Move

\* What was read and what is left of a line.
Read(s) == [events |-> s.events, buffer |-> <<>>]

\* ReadChunk is where the tokens of the buffer and of the chunk lead.
LEMMA ReadChunkIs ==
  ASSUME NEW A, NEW s, NEW chunk, Models!Carried(s.buffer, chunk) \in Seq(A), NEW t,
         Runs("token", Read(s), Models!Carried(s.buffer, chunk), t)
  PROVE  Models!ReadChunk(s, chunk) = t
  <1> DEFINE tokens == Models!Carried(s.buffer, chunk)
             g == CHOOSE g : TokensAfter(g, Read(s), tokens)
  <1>1. /\ \E h : IsAfter(h, "token", Read(s), tokens)
        /\ \A h : IsAfter(h, "token", Read(s), tokens) => h[Len(tokens)] = t
    BY After
  <1>2. \E h : TokensAfter(h, Read(s), tokens)
    BY <1>1, SameAfter
  <1>3. TokensAfter(g, Read(s), tokens)
    BY <1>2
  <1>4. Models!ReadChunk(s, chunk) = g[Len(tokens)]
    BY DEF Models!ReadChunk, TokensAfter, Read
  <1> HIDE DEF g
  <1> QED BY <1>1, <1>3, <1>4, SameAfter

\* ParseSse is where the chunks lead, and what is left of them.
LEMMA ParseSseIs ==
  ASSUME NEW A, NEW chunks \in Seq(A), NEW t,
         Runs("chunk", [events |-> <<>>, buffer |-> <<>>], chunks, t)
  PROVE  Models!ParseSse(chunks) = t.events \o Models!EventOf(t.buffer)
  <1> DEFINE s == [events |-> <<>>, buffer |-> <<>>]
             g == CHOOSE g : ChunksAfter(g, s, chunks)
  <1>1. /\ \E h : IsAfter(h, "chunk", s, chunks)
        /\ \A h : IsAfter(h, "chunk", s, chunks) => h[Len(chunks)] = t
    BY After
  <1>2. \E h : ChunksAfter(h, s, chunks)
    BY <1>1, SameAfter
  <1>3. ChunksAfter(g, s, chunks)
    BY <1>2
  <1>4. Models!ParseSse(chunks) = g[Len(chunks)].events \o Models!EventOf(g[Len(chunks)].buffer)
    BY DEF Models!ParseSse, ChunksAfter
  <1> HIDE DEF g
  <1>5. g[Len(chunks)] = t
    BY <1>1, <1>3, SameAfter
  <1> QED BY <1>4, <1>5

\* The parts are of one kind, and so is the whole.
LEMMA JoinedIsSeq ==
  ASSUME NEW A, NEW seqs \in Seq(Seq(A)), NEW z, Runs("join", <<>>, seqs, z)
  PROVE  z \in Seq(A)
  <1> DEFINE L == Len(seqs)
  <1>0. L \in Nat /\ \A i \in 1..L : seqs[i] \in Seq(A)
    OBVIOUS
  <1>1. PICK f : f[0] = <<>> /\ f[L] = z /\ Running(f, "join", seqs, L)
    BY DEF Runs
  <1>2. \A i \in 1..L : f[i] = f[i - 1] \o seqs[i]
    BY <1>1, Zenon DEF Running, Move
  <1> DEFINE S == {i \in 0..L : f[i] \in Seq(A)}
  <1> HIDE DEF L
  <1>3. 0 \in S
    <2>1. 0 \in 0..L
      BY <1>0
    <2>2. f[0] \in Seq(A)
      BY <1>1
    <2> QED BY <2>1, <2>2
  <1>4. ASSUME NEW m \in 0..(L - 1), m \in S PROVE m + 1 \in S
    <2>1. m + 1 \in 1..L /\ m + 1 \in 0..L /\ (m + 1) - 1 = m
      BY <1>0
    <2>2. f[m + 1] = f[m] \o seqs[m + 1] /\ seqs[m + 1] \in Seq(A) /\ f[m] \in Seq(A)
      BY <1>0, <1>2, <1>4, <2>1, Zenon
    <2>3. f[m + 1] \in Seq(A)
      BY <2>2
    <2> QED BY <2>1, <2>3
  <1> HIDE DEF S
  <1>5. L \in S
    <2>1. L \in 0..L
      BY <1>0
    <2> QED BY <1>0, <1>3, <1>4, <2>1, UpTo, Zenon
  <1> QED BY <1>1, <1>5 DEF S

\* A state of the reader between two chunks: its buffer is less than a line.
Partial(s, A) ==
    /\ s = [events |-> s.events, buffer |-> s.buffer]
    /\ s.buffer \in Seq(A)
    /\ \A i \in 1..Len(s.buffer) : s.buffer[i] # Models!Newline

\* To read what was left once more changes nothing.
LEMMA ReadsBufferAgain ==
  ASSUME NEW A, NEW s, Partial(s, A)
  PROVE  Runs("token", Read(s), s.buffer, s)
  <1> DEFINE b == s.buffer
             f == [k \in 0..Len(b) |-> [events |-> s.events, buffer |-> SubSeq(b, 1, k)]]
  <1>0. b \in Seq(A) /\ Len(b) \in Nat
    BY DEF Partial
  <1>1. f[0] = Read(s)
    <2>1. SubSeq(b, 1, 0) = <<>> /\ 0 \in 0..Len(b)
      BY <1>0
    <2> QED BY <2>1 DEF Read
  <1>2. f[Len(b)] = s
    <2>1. SubSeq(b, 1, Len(b)) = b /\ Len(b) \in 0..Len(b)
      BY <1>0
    <2>2. s = [events |-> s.events, buffer |-> b]
      BY DEF Partial
    <2> QED BY <2>1, <2>2
  <1>3. ASSUME NEW k \in 1..Len(b) PROVE f[k] = Move("token", f[k - 1], b[k])
    <2>1. k - 1 \in 0..Len(b) /\ k \in 0..Len(b)
      BY <1>0
    <2>2. b[k] # Models!Newline
      BY DEF Partial
    <2>3. SubSeq(b, 1, k) = Append(SubSeq(b, 1, k - 1), b[k])
      BY <1>0
    <2>4. Models!ReadToken(f[k - 1], b[k])
             = [events |-> f[k - 1].events, buffer |-> Append(f[k - 1].buffer, b[k])]
      BY <2>2 DEF Models!ReadToken
    <2>5. f[k - 1].events = s.events /\ f[k - 1].buffer = SubSeq(b, 1, k - 1)
      BY <2>1
    <2>6. f[k] = [events |-> s.events, buffer |-> SubSeq(b, 1, k)]
      BY <2>1
    <2> HIDE DEF f, b
    <2> QED BY <2>3, <2>4, <2>5, <2>6, Zenon DEF Move
  <1> HIDE DEF f
  <1> QED BY <1>1, <1>2, <1>3 DEF Runs, Running

\* A token leaves the beginning of a line in the buffer, or nothing.
LEMMA TokenKeepsPartial ==
  ASSUME NEW A, NEW s, Partial(s, A), NEW e \in A
  PROVE  Partial(Models!ReadToken(s, e), A)
  <1>1. CASE e = Models!Newline
    <2>1. Models!ReadToken(s, e) = [events |-> s.events \o Models!EventOf(s.buffer), buffer |-> <<>>]
      BY <1>1 DEF Models!ReadToken
    <2> QED BY <2>1 DEF Partial
  <1>2. CASE e # Models!Newline
    <2>1. Models!ReadToken(s, e) = [events |-> s.events, buffer |-> Append(s.buffer, e)]
      BY <1>2 DEF Models!ReadToken
    <2>2. s.buffer \in Seq(A) /\ \A i \in 1..Len(s.buffer) : s.buffer[i] # Models!Newline
      BY DEF Partial
    <2>3. /\ Append(s.buffer, e) \in Seq(A)
          /\ \A i \in 1..Len(Append(s.buffer, e)) : Append(s.buffer, e)[i] # Models!Newline
      BY <1>2, <2>2
    <2> QED BY <2>1, <2>3 DEF Partial
  <1> QED BY <1>1, <1>2

\* So do any number of tokens.
LEMMA ReadingKeepsPartial ==
  ASSUME NEW A, NEW s, Partial(s, A), NEW x \in Seq(A), NEW t, Runs("token", s, x, t)
  PROVE  Partial(t, A)
  <1> DEFINE L == Len(x)
  <1>0. L \in Nat
    OBVIOUS
  <1>1. PICK f : f[0] = s /\ f[L] = t /\ Running(f, "token", x, L)
    BY DEF Runs
  <1> DEFINE S == {m \in 0..L : Partial(f[m], A)}
  <1>2. 0 \in S
    <2>1. 0 \in 0..L
      BY <1>0
    <2> QED BY <1>1, <2>1
  <1>3. ASSUME NEW m \in 0..(L - 1), m \in S PROVE m + 1 \in S
    <2>1. m + 1 \in 1..L /\ m + 1 \in 0..L /\ (m + 1) - 1 = m /\ x[m + 1] \in A
      BY <1>0
    <2>2. f[m + 1] = Models!ReadToken(f[m], x[m + 1])
      BY <1>1, <2>1 DEF Running, Move
    <2>3. Partial(f[m], A)
      BY <1>3
    <2> HIDE DEF L
    <2> QED BY <2>1, <2>2, <2>3, TokenKeepsPartial
  <1> HIDE DEF S
  <1>4. L \in S
    <2>1. L \in 0..L
      BY <1>0
    <2> QED BY <1>0, <1>2, <1>3, <2>1, UpTo, Zenon
  <1> QED BY <1>1, <1>4 DEF S

\* A chunk is read as the tokens in it are.
LEMMA ChunkReads ==
  ASSUME NEW A, NEW s, Partial(s, A), NEW chunk \in Seq(A), NEW t, Runs("token", s, chunk, t)
  PROVE  Models!ReadChunk(s, chunk) = t /\ Partial(t, A)
  <1>1. s.buffer \in Seq(A)
    BY DEF Partial
  <1>2. Runs("token", Read(s), s.buffer \o chunk, t)
    BY <1>1, ReadsBufferAgain, RunsOn
  <1>3. Models!Carried(s.buffer, chunk) = s.buffer \o chunk /\ s.buffer \o chunk \in Seq(A)
    BY <1>1 DEF Models!Carried
  <1>4. Models!ReadChunk(s, chunk) = t
    BY <1>2, <1>3, ReadChunkIs, Zenon
  <1> QED BY <1>4, ReadingKeepsPartial

NothingRead == [events |-> <<>>, buffer |-> <<>>]

\* However a stream is cut, its tokens are read one after the other.
LEMMA ParseWhole ==
  ASSUME NEW A, NEW chunks \in Seq(Seq(A)), NEW z, Runs("join", <<>>, chunks, z),
         NEW t, Runs("token", NothingRead, z, t)
  PROVE  Models!ParseSse(chunks) = t.events \o Models!EventOf(t.buffer)
  <1> DEFINE L == Len(chunks)
  <1>0. L \in Nat /\ \A i \in 1..L : chunks[i] \in Seq(A)
    OBVIOUS
  <1>1. PICK u : Runs("chunk", NothingRead, chunks, u)
    BY RunsAll, Zenon
  <1>2. PICK F : F[0] = NothingRead /\ F[L] = u /\ Running(F, "chunk", chunks, L)
    BY <1>1 DEF Runs
  <1>3. \A i \in 1..L : F[i] = Models!ReadChunk(F[i - 1], chunks[i])
    BY <1>2 DEF Running, Move
  <1>4. ASSUME NEW s, Partial(s, A), NEW i \in 1..L
        PROVE  Runs("token", s, chunks[i], Models!ReadChunk(s, chunks[i]))
                  /\ Partial(Models!ReadChunk(s, chunks[i]), A)
    <2>1. PICK v : Runs("token", s, chunks[i], v)
      BY <1>0, RunsAll, Zenon
    <2>2. Models!ReadChunk(s, chunks[i]) = v /\ Partial(v, A)
      BY <1>0, <1>4, <2>1, ChunkReads
    <2> QED BY <2>1, <2>2
  <1> DEFINE S == {m \in 0..L : Partial(F[m], A)}
  <1>5. 0 \in S
    <2>1. 0 \in 0..L
      BY <1>0
    <2>2. Partial(NothingRead, A)
      BY DEF Partial, NothingRead
    <2> QED BY <1>2, <2>1, <2>2
  <1> HIDE DEF L
  <1>6. ASSUME NEW m \in 0..(L - 1), m \in S PROVE m + 1 \in S
    <2>1. m + 1 \in 1..L /\ m + 1 \in 0..L /\ (m + 1) - 1 = m
      BY <1>0
    <2> QED BY <1>3, <1>4, <1>6, <2>1
  <1> HIDE DEF S
  <1>7. \A m \in 0..L : m \in S
    BY <1>0, <1>5, <1>6, UpTo, Zenon
  <1>8. ASSUME NEW i \in 1..L PROVE Runs("token", F[i - 1], chunks[i], F[i])
    <2>1. i - 1 \in 0..L
      BY <1>0
    <2>2. Partial(F[i - 1], A)
      BY <1>7, <2>1 DEF S
    <2> QED BY <1>3, <1>4, <2>2
  <1>9. z \in Seq(A) /\ Runs("token", F[0], z, F[L])
    <2>1. \A i \in 1..Len(chunks) : Runs("token", F[i - 1], chunks[i], F[i])
      BY <1>8 DEF L
    <2> QED BY <2>1, RunsJoined, Zenon DEF L
  <1>10. t = u
    <2>1. Len(z) \in Nat
      BY <1>9
    <2> QED BY <1>2, <1>9, <2>1, RunsOnce
  <1> QED BY <1>1, <1>10, ParseSseIs, Zenon DEF NothingRead

\* parseSse, for every stream and every cut: the chunks the network delivers,
\* an empty one or one that ends in the middle of a line among them, give the
\* events that the same tokens give in one piece.
THEOREM CutsDoNotMatter ==
  ASSUME NEW A, NEW chunks \in Seq(Seq(A))
  PROVE  Models!ParseSse(chunks) = Models!ParseSse(<<Models!FlattenSeq(chunks)>>)
  <1>1. PICK z : Runs("join", <<>>, chunks, z)
    BY RunsAll, Zenon
  <1>2. Models!FlattenSeq(chunks) = z
    BY <1>1, FlattenJoins
  <1>3. z \in Seq(A)
    BY <1>1, JoinedIsSeq
  <1>4. PICK t : Runs("token", NothingRead, z, t)
    BY <1>3, RunsAll, Zenon
  <1>5. Runs("join", <<>>, <<z>>, z)
    <2>1. Move("join", <<>>, z) = z
      BY <1>3 DEF Move
    <2> QED BY <2>1, RunsOne
  <1>6. <<z>> \in Seq(Seq(A))
    BY <1>3
  <1>7. Models!ParseSse(<<z>>) = t.events \o Models!EventOf(t.buffer)
    BY <1>4, <1>5, <1>6, ParseWhole, Zenon
  <1> QED BY <1>1, <1>2, <1>4, <1>7, ParseWhole, Zenon

\* The tokens of the lines for the events of a set.
Tokens(E) == {Models!Newline} \cup {Models!Half(k, e) : k \in 1..2, e \in E}
Line(e) == <<Models!Half(1, e), Models!Half(2, e)>>

\* A line is read as its event.
LEMMA LineIsRead ==
  ASSUME NEW E, NEW e \in E, NEW ev
  PROVE  /\ Line(e) \in Seq(Tokens(E)) /\ Line(e) \o <<Models!Newline>> \in Seq(Tokens(E))
         /\ Models!EventOf(Line(e)) = <<e>>
         /\ Runs("token", [events |-> ev, buffer |-> <<>>], Line(e),
                 [events |-> ev, buffer |-> Line(e)])
         /\ Runs("token", [events |-> ev, buffer |-> <<>>], Line(e) \o <<Models!Newline>>,
                 [events |-> ev \o <<e>>, buffer |-> <<>>])
  <1> DEFINE a == Models!Half(1, e)
             b == Models!Half(2, e)
             s(buf) == [events |-> ev, buffer |-> buf]
             T == Tokens(E)
  <1>1. a.half = 1 /\ b.half = 2 /\ a.event = e /\ b.event = e /\ Models!Newline.half = 0
    BY DEF Models!Half, Models!Newline
  <1>2. a \in T /\ b \in T /\ Models!Newline \in T
    BY DEF Tokens
  <1>3. a # Models!Newline /\ b # Models!Newline
    BY <1>1
  <1> HIDE DEF a, b, T
  <1>4. <<a>> \in Seq(T) /\ <<b>> \in Seq(T) /\ <<Models!Newline>> \in Seq(T) /\ <<a>> \o <<b>> \in Seq(T)
    BY <1>2
  <1>5. <<a>> \o <<b>> = <<a, b>> /\ Append(<<>>, a) = <<a>> /\ Append(<<a>>, b) = <<a, b>>
    <2>1. Append(<<>>, a) = <<a>>
      BY <1>4
    <2>2. /\ Len(<<a>> \o <<b>>) = 2 /\ (<<a>> \o <<b>>)[1] = a /\ (<<a>> \o <<b>>)[2] = b
          /\ Len(Append(<<a>>, b)) = 2 /\ Append(<<a>>, b)[1] = a /\ Append(<<a>>, b)[2] = b
          /\ Append(<<a>>, b) \in Seq(T)
      BY <1>4, <1>2
    <2>3. <<a, b>> \in Seq(T) /\ Len(<<a, b>>) = 2 /\ <<a, b>>[1] = a /\ <<a, b>>[2] = b
      BY <1>2
    <2>4. \A z \in Seq(T) : Len(z) = 2 /\ z[1] = a /\ z[2] = b => z = <<a, b>>
      <3> SUFFICES ASSUME NEW z \in Seq(T), Len(z) = 2, z[1] = a, z[2] = b PROVE z = <<a, b>>
        OBVIOUS
      <3>1. \A x \in 1..2 : x = 1 \/ x = 2
        OBVIOUS
      <3>2. \A x \in 1..Len(z) : z[x] = <<a, b>>[x]
        BY <2>3, <3>1
      <3> QED BY <2>3, <3>2, SameSeq
    <2>5. <<a>> \o <<b>> = <<a, b>> /\ Append(<<a>>, b) = <<a, b>>
      BY <1>4, <2>2, <2>4, Zenon
    <2> QED BY <2>1, <2>5
  <1>6. Models!EventOf(<<a, b>>) = <<e>>
    BY <1>1 DEF Models!EventOf
  <1>7. /\ Move("token", s(<<>>), a) = s(<<a>>)
        /\ Move("token", s(<<a>>), b) = s(<<a, b>>)
        /\ Move("token", s(<<a, b>>), Models!Newline) = [events |-> ev \o <<e>>, buffer |-> <<>>]
    BY <1>3, <1>5, <1>6, Zenon DEF Move, Models!ReadToken
  <1>8. /\ Runs("token", s(<<>>), <<a>>, s(<<a>>))
        /\ Runs("token", s(<<a>>), <<b>>, s(<<a, b>>))
        /\ Runs("token", s(<<a, b>>), <<Models!Newline>>, [events |-> ev \o <<e>>, buffer |-> <<>>])
    BY <1>7, RunsOne
  <1> HIDE DEF s
  <1>9. Runs("token", s(<<>>), <<a>> \o <<b>>, s(<<a, b>>))
    BY <1>4, <1>8, RunsOn, Zenon
  <1>10. Runs("token", s(<<>>), (<<a>> \o <<b>>) \o <<Models!Newline>>, [events |-> ev \o <<e>>, buffer |-> <<>>])
    BY <1>4, <1>5, <1>8, <1>9, RunsOn, Zenon
  <1>11. Line(e) = <<a, b>>
    BY DEF Line, a, b
  <1>12. Line(e) \o <<Models!Newline>> \in Seq(T)
    BY <1>4, <1>5, <1>11
  <1> QED BY <1>4, <1>5, <1>6, <1>9, <1>10, <1>11, <1>12, Zenon DEF s, T

\* What was written for events is read as these events, whatever the cut.
LEMMA WireIsRead ==
  ASSUME NEW E, NEW events \in Seq(E), Len(events) > 0
  PROVE  /\ Models!Wire(events) \in Seq(Tokens(E))
         /\ Len(Models!Wire(events)) >= 3 * Len(events) - 1
         /\ \A chunks \in Seq(Seq(Tokens(E))) :
               Runs("join", <<>>, chunks, Models!Wire(events)) => Models!ParseSse(chunks) = events
  <1> DEFINE n == Len(events)
             T == Tokens(E)
             line(i) == Line(events[i]) \o IF i < n THEN <<Models!Newline>> ELSE <<>>
             lines == [i \in 1..n |-> line(i)]
             F == [i \in 0..n |-> IF i < n THEN [events |-> SubSeq(events, 1, i), buffer |-> <<>>]
                                  ELSE [events |-> SubSeq(events, 1, n - 1), buffer |-> Line(events[n])]]
  <1>0. n \in Nat /\ n >= 1 /\ DOMAIN events = 1..n /\ \A i \in 1..n : events[i] \in E
    OBVIOUS
  <1>1. ASSUME NEW i \in 1..n, i < n
        PROVE  lines[i] = Line(events[i]) \o <<Models!Newline>>
    BY <1>1
  <1>2. lines[n] = Line(events[n])
    <2>1. Line(events[n]) \o <<>> = Line(events[n])
      BY DEF Line
    <2>2. n \in 1..n /\ ~(n < n)
      BY <1>0
    <2> QED BY <2>1, <2>2
  <1>3. Models!Wire(events) = Models!FlattenSeq(lines)
    BY <1>0 DEF Models!Wire, Line
  <1>4. ASSUME NEW i \in 0..n, i < n PROVE F[i] = [events |-> SubSeq(events, 1, i), buffer |-> <<>>]
    BY <1>4
  <1>5. F[n] = [events |-> SubSeq(events, 1, n - 1), buffer |-> Line(events[n])]
    BY <1>0
  <1>6. DOMAIN lines = 1..n /\ Len(lines) = n
    BY <1>0
  <1>7. lines = [i \in 1..n |-> lines[i]]
    OBVIOUS
  <1>8. ASSUME NEW i \in 1..n, i < n PROVE SubSeq(events, 1, i - 1) \o <<events[i]>> = SubSeq(events, 1, i)
    BY <1>8
  <1>9. SubSeq(events, 1, n - 1) \o <<events[n]>> = events
    <2>1. SubSeq(events, 1, n - 1) \o <<events[n]>> = SubSeq(events, 1, n)
      BY <1>0
    <2> QED BY <2>1
  <1> HIDE DEF lines, F, n
  <1>10. ASSUME NEW i \in 1..n
         PROVE  lines[i] \in Seq(T) /\ Runs("token", F[i - 1], lines[i], F[i])
    <2>0. i - 1 \in 0..n /\ i \in 0..n /\ i - 1 < n /\ events[i] \in E
      BY <1>0
    <2>1. F[i - 1] = [events |-> SubSeq(events, 1, i - 1), buffer |-> <<>>]
      BY <1>4, <2>0, Zenon
    <2>2. CASE i < n
      <3>1. F[i] = [events |-> SubSeq(events, 1, i - 1) \o <<events[i]>>, buffer |-> <<>>]
        BY <1>4, <1>8, <2>0, <2>2, Zenon
      <3> QED BY <1>1, <2>0, <2>1, <2>2, <3>1, LineIsRead, Zenon
    <2>3. CASE ~(i < n)
      <3>1. i = n
        BY <1>0, <2>3
      <3> QED BY <1>2, <1>5, <2>0, <2>1, <3>1, LineIsRead, Zenon
    <2> QED BY <2>2, <2>3
  <1>11. lines \in Seq(Seq(T))
    <2>1. lines \in [1..n -> Seq(T)]
      BY <1>7, <1>10
    <2> HIDE DEF T
    <2> QED BY <1>0, <2>1, FunIsSeq
  <1>12. PICK w : Runs("join", <<>>, lines, w)
    BY <1>11, RunsAll, Zenon
  <1>13. Models!Wire(events) = w
    BY <1>3, <1>11, <1>12, FlattenJoins
  <1>14. w \in Seq(T) /\ Runs("token", F[0], w, F[n])
    <2>1. \A i \in 1..Len(lines) : Runs("token", F[i - 1], lines[i], F[i])
      BY <1>6, <1>10
    <2> QED BY <1>6, <1>11, <1>12, <2>1, RunsJoined, Zenon
  <1>15. F[0] = NothingRead
    <2>1. 0 \in 0..n /\ 0 < n /\ SubSeq(events, 1, 0) = <<>>
      BY <1>0
    <2> QED BY <1>4, <2>1, Zenon DEF NothingRead
  <1>16. ASSUME NEW chunks \in Seq(Seq(T)), Runs("join", <<>>, chunks, w)
         PROVE  Models!ParseSse(chunks) = events
    <2>1. Models!ParseSse(chunks) = F[n].events \o Models!EventOf(F[n].buffer)
      BY <1>14, <1>15, <1>16, ParseWhole, Zenon
    <2>2. Models!EventOf(Line(events[n])) = <<events[n]>>
      <3>1. events[n] \in E
        BY <1>0
      <3> QED BY <3>1, LineIsRead, Zenon
    <2>3. F[n].events = SubSeq(events, 1, n - 1) /\ F[n].buffer = Line(events[n])
      <3>1. PICK x, y : x = SubSeq(events, 1, n - 1) /\ y = Line(events[n])
        BY Zenon
      <3>2. F[n] = [events |-> x, buffer |-> y]
        BY <1>5, <3>1
      <3>3. F[n].events = x /\ F[n].buffer = y
        BY <3>2
      <3> QED BY <3>1, <3>3
    <2> QED BY <1>9, <2>1, <2>2, <2>3, Zenon
  <1>17. Len(w) >= 3 * n - 1
    <2>1. PICK f : f[0] = <<>> /\ f[n] = w /\ Running(f, "join", lines, n)
      BY <1>6, <1>12 DEF Runs
    <2>2. \A i \in 1..n : f[i] = f[i - 1] \o lines[i]
      BY <2>1, Zenon DEF Running, Move
    <2> DEFINE S == {i \in 0..n : f[i] \in Seq(T) /\ (IF i = n THEN Len(f[i]) = 3 * i - 1 ELSE Len(f[i]) = 3 * i)}
    <2>3. 0 \in S
      <3>1. f[0] \in Seq(T) /\ Len(f[0]) = 0 /\ 0 # n /\ 0 \in 0..n
        BY <1>0, <2>1
      <3> QED BY <3>1
    <2>4. ASSUME NEW m \in 0..(n - 1), m \in S PROVE m + 1 \in S
      <3>1. m + 1 \in 1..n /\ m + 1 \in 0..n /\ (m + 1) - 1 = m /\ m # n
        BY <1>0
      <3>2. f[m + 1] = f[m] \o lines[m + 1] /\ lines[m + 1] \in Seq(T) /\ f[m] \in Seq(T) /\ Len(f[m]) = 3 * m
        BY <1>10, <2>2, <2>4, <3>1, Zenon
      <3>3. f[m + 1] \in Seq(T) /\ Len(f[m + 1]) = 3 * m + Len(lines[m + 1])
        <4>1. \A x, y \in Seq(T) : x \o y \in Seq(T) /\ Len(x \o y) = Len(x) + Len(y)
          <5> HIDE DEF T
          <5> QED OBVIOUS
        <4> HIDE DEF T
        <4> QED BY <3>2, <4>1, Zenon
      <3>4. CASE m + 1 = n
        <4>1. Len(lines[m + 1]) = 2
          <5>1. lines[m + 1] = Line(events[m + 1])
            BY <1>2, <3>4
          <5> QED BY <5>1 DEF Line
        <4>2. 3 * m + 2 = 3 * (m + 1) - 1
          OBVIOUS
        <4> QED BY <3>1, <3>3, <3>4, <4>1, <4>2, Zenon
      <3>5. CASE m + 1 # n
        <4>1. m + 1 < n
          BY <1>0, <3>5
        <4>2. Len(lines[m + 1]) = 3
          <5>1. lines[m + 1] = Line(events[m + 1]) \o <<Models!Newline>>
            BY <1>1, <3>1, <4>1, Zenon
          <5> QED BY <5>1 DEF Line
        <4>3. 3 * m + 3 = 3 * (m + 1)
          OBVIOUS
        <4> QED BY <3>1, <3>3, <3>5, <4>2, <4>3
      <3> QED BY <3>4, <3>5
    <2> HIDE DEF S
    <2>5. n \in S
      <3>1. n \in 0..n
        BY <1>0
      <3> QED BY <1>0, <2>3, <2>4, <3>1, UpTo, Zenon
    <2> QED BY <1>0, <2>1, <2>5 DEF S
  <1> QED BY <1>13, <1>14, <1>16, <1>17 DEF n

\* Multiplication keeps the order.
LEMMA Larger ==
  ASSUME NEW a \in Int, NEW b \in Int, NEW k \in Nat, a <= b
  PROVE  a * k <= b * k
  <1>1. (b - a) * k >= 0
    OBVIOUS
  <1>2. (b - a) * k = b * k - a * k
    OBVIOUS
  <1> QED BY <1>1, <1>2

\* What the integer quotient is.
LEMMA Quotient ==
  ASSUME NEW x \in Nat, NEW k \in Nat, k >= 1
  PROVE  x \div k \in Nat /\ (x \div k) * k <= x /\ x < (x \div k) * k + k
  OBVIOUS

\* The chunks of a wire are the wire.
LEMMA ChunksJoin ==
  ASSUME NEW A, NEW w \in Seq(A), NEW offset \in 1..Len(w), NEW size \in Nat, size >= 1
  PROVE  /\ Models!Chunked(w, offset, size) \in Seq(Seq(A))
         /\ Runs("join", <<>>, Models!Chunked(w, offset, size), w)
  <1> DEFINE L == Len(w)
             x == L - offset + size - 1
             q == x \div size
             n == 1 + q
             chunks == Models!Chunked(w, offset, size)
             end(c) == offset + (c - 1) * size
             f == [c \in 0..n |-> IF c = 0 THEN <<>> ELSE IF c = n THEN w ELSE SubSeq(w, 1, end(c))]
  <1>0. L \in Nat /\ offset \in Nat /\ offset >= 1 /\ offset <= L
    OBVIOUS
  <1>1. x \in Nat
    BY <1>0
  <1> HIDE DEF x
  <1>2. q \in Nat /\ q * size <= x /\ x < q * size + size
    BY <1>1, Quotient
  <1> HIDE DEF q
  <1>3. n \in Nat /\ n >= 1 /\ n = 1 + q
    BY <1>2
  <1>4. Models!Chunked(w, offset, size)
           = [c \in 1..n |-> IF c = 1 THEN SubSeq(w, 1, offset)
                             ELSE SubSeq(w, offset + (c - 2) * size + 1,
                                         Models!Min({end(c), L}))]
    BY DEF Models!Chunked, x, q
  <1> HIDE DEF n
  <1>5. \A a, b \in Int : a <= b => Models!Min({a, b}) = a /\ Models!Min({b, a}) = a
    BY DEF Models!Min
  <1>6. ASSUME NEW c \in 1..n, c < n PROVE end(c) \in 1..L /\ end(c) \in Nat
    <2>1. c - 1 \in Nat /\ c <= q /\ c - 1 <= q - 1 /\ q - 1 \in Int /\ c - 1 \in Int
      BY <1>2, <1>3, <1>6
    <2>2. (c - 1) * size <= (q - 1) * size
      BY <2>1, Larger
    <2>3. (q - 1) * size = q * size - size
      BY <1>2
    <2>4. (c - 1) * size \in Nat /\ q * size \in Nat
      BY <1>2, <2>1
    <2>5. PICK y : y = (c - 1) * size
      OBVIOUS
    <2>6. PICK z : z = q * size
      OBVIOUS
    <2>7. y \in Nat /\ z \in Nat /\ y <= z - size /\ z <= x
      BY <1>2, <2>2, <2>3, <2>4, <2>5, <2>6
    <2>8. offset + y \in 1..L /\ offset + y \in Nat
      BY <1>0, <2>7 DEF x
    <2> QED BY <2>5, <2>8
  <1>7. end(n) \in Nat /\ L <= end(n) /\ end(1) = offset
    <2>1. n - 1 = q
      BY <1>2, <1>3
    <2>2. PICK z : z = q * size
      OBVIOUS
    <2>3. z \in Nat /\ x < z + size
      BY <1>2, <2>2
    <2>4. offset + z \in Nat /\ L <= offset + z
      BY <1>0, <2>3 DEF x
    <2>5. end(1) = offset
      BY <1>0
    <2> QED BY <2>1, <2>2, <2>4, <2>5
  <1>8. \A c \in 1..n : end(c - 1) = offset + (c - 2) * size
    BY <1>3
  <1> HIDE DEF end
  \* to(c): where a chunk ends
  <1> DEFINE to(c) == IF c = n THEN L ELSE end(c)
  <1>9. ASSUME NEW c \in 1..n PROVE to(c) \in 1..L /\ Models!Min({end(c), L}) = to(c)
    <2>1. CASE c = n
      <3>1. end(c) \in Int /\ L \in Int /\ L <= end(c)
        BY <1>0, <1>7, <2>1
      <3>2. Models!Min({end(c), L}) = L
        BY <1>5, <3>1
      <3> QED BY <1>0, <2>1, <3>2
    <2>2. CASE c # n
      <3>1. c < n
        BY <1>3, <2>2
      <3>2. end(c) \in 1..L /\ end(c) \in Nat
        BY <1>6, <3>1
      <3>3. end(c) \in Int /\ L \in Int /\ end(c) <= L
        BY <1>0, <3>2
      <3>4. Models!Min({end(c), L}) = end(c)
        BY <1>5, <3>3
      <3> QED BY <2>2, <3>2, <3>4
    <2> QED BY <2>1, <2>2
  <1>10. ASSUME NEW c \in 1..n
         PROVE  f[c] = SubSeq(w, 1, to(c))
    <2>1. c \in 0..n /\ c # 0
      BY <1>3
    <2>2. SubSeq(w, 1, L) = w
      OBVIOUS
    <2> HIDE DEF L
    <2> QED BY <2>1, <2>2, Zenon
  <1>11. f[0] = <<>> /\ f[n] = w
    <2>1. n \in 0..n /\ 0 \in 0..n /\ n # 0
      BY <1>3
    <2> QED BY <2>1
  <1>12. ASSUME NEW a \in 0..L, NEW b \in 0..L, a <= b
         PROVE  /\ SubSeq(w, a + 1, b) \in Seq(A)
                /\ SubSeq(w, 1, a) \o SubSeq(w, a + 1, b) = SubSeq(w, 1, b)
    <2>1. SubSeq(w, a + 1, b) \in Seq(A) /\ SubSeq(w, 1, a) \in Seq(A) /\ SubSeq(w, 1, b) \in Seq(A)
      BY <1>12
    <2>2. Len(SubSeq(w, a + 1, b)) = b - a /\ Len(SubSeq(w, 1, a)) = a /\ Len(SubSeq(w, 1, b)) = b
      BY <1>12
    <2> DEFINE y == SubSeq(w, a + 1, b)
               z == SubSeq(w, 1, a)
    <2>3. \A k \in 1..b : SubSeq(w, 1, b)[k] = w[k]
      BY <1>12
    <2>4. \A k \in 1..a : z[k] = w[k]
      BY <1>12
    <2>5. \A k \in 1..(b - a) : y[k] = w[a + k]
      BY <1>12
    <2> HIDE DEF y, z
    <2>6. z \o y \in Seq(A) /\ Len(z \o y) = b
      BY <1>12, <2>1, <2>2 DEF y, z
    <2>7. ASSUME NEW k \in 1..b PROVE (z \o y)[k] = w[k]
      <3>1. CASE k <= a
        <4>1. k \in 1..a
          BY <3>1
        <4>2. (z \o y)[k] = z[k]
          BY <2>1, <2>2, <4>1 DEF y, z
        <4> QED BY <2>4, <4>1, <4>2
      <3>2. CASE ~(k <= a)
        <4>1. k - a \in 1..(b - a) /\ a + (k - a) = k
          BY <3>2
        <4>2. (z \o y)[k] = y[k - a]
          <5>1. y \in Seq(A) /\ z \in Seq(A) /\ Len(y) = b - a /\ Len(z) = a
            BY <2>1, <2>2 DEF y, z
          <5> QED BY <3>2, <5>1, SMTT(30)
        <4> QED BY <2>5, <4>1, <4>2
      <3> QED BY <3>1, <3>2, Zenon
    <2>8. z \o y = SubSeq(w, 1, b)
      <3>1. \A k \in 1..Len(z \o y) : (z \o y)[k] = SubSeq(w, 1, b)[k]
        BY <2>3, <2>6, <2>7
      <3> QED BY <2>1, <2>2, <2>6, <3>1, SameSeq
    <2> QED BY <2>1, <2>8 DEF y, z
  <1> HIDE DEF f, chunks
  <1>13. ASSUME NEW c \in 1..n
         PROVE  chunks[c] \in Seq(A) /\ f[c] = f[c - 1] \o chunks[c]
    <2>1. CASE c = 1
      <3>1. chunks[c] = SubSeq(w, 1, offset)
        BY <1>4, <2>1 DEF chunks
      <3>2. to(c) = offset
        <4>1. CASE n = 1
          <5>1. to(c) = L /\ end(c) = offset /\ L <= offset
            BY <1>7, <2>1, <4>1
          <5> QED BY <1>0, <5>1
        <4>2. CASE n # 1
          BY <1>7, <2>1, <4>2
        <4> QED BY <4>1, <4>2
      <3>3. f[c] = SubSeq(w, 1, offset) /\ SubSeq(w, 1, offset) \in Seq(A)
        BY <1>0, <1>10, <3>2
      <3>4. f[c - 1] = <<>>
        BY <1>11, <2>1
      <3>5. \A y \in Seq(A) : <<>> \o y = y
        OBVIOUS
      <3> QED BY <3>1, <3>3, <3>4, <3>5
    <2>2. CASE c # 1
      <3>1. c - 1 \in 1..n /\ c - 1 < n /\ c - 1 # n
        BY <1>3, <2>2
      <3>2. to(c - 1) = offset + (c - 2) * size
        BY <1>8, <3>1
      <3>3. chunks[c] = SubSeq(w, to(c - 1) + 1, to(c))
        BY <1>4, <1>9, <2>2, <3>2, Zenon DEF chunks
      <3>4. to(c - 1) \in 0..L /\ to(c) \in 0..L
        <4>1. \A m \in 1..L : m \in 0..L
          OBVIOUS
        <4>2. to(c - 1) \in 1..L /\ to(c) \in 1..L
          BY <1>9, <3>1, Zenon
        <4> QED BY <4>1, <4>2
      <3>5. to(c - 1) <= to(c)
        <4>1. CASE c = n
          BY <3>4, <4>1
        <4>2. CASE c # n
          <5>1. to(c - 1) = end(c - 1) /\ to(c) = end(c)
            BY <3>1, <4>2
          <5>2. end(c) = end(c - 1) + size
            <6>1. c - 2 \in Int /\ c - 1 = (c - 2) + 1
              OBVIOUS
            <6>2. (c - 1) * size = (c - 2) * size + size
              BY <6>1
            <6>3. (c - 2) * size \in Int
              BY <6>1
            <6>4. PICK y, z : y = (c - 1) * size /\ z = (c - 2) * size
              OBVIOUS
            <6>5. end(c) = offset + y
              BY <6>4 DEF end
            <6>6. end(c - 1) = offset + z
              BY <1>8, <6>4
            <6>7. z \in Int /\ y = z + size
              BY <6>2, <6>3, <6>4
            <6> QED BY <1>0, <6>5, <6>6, <6>7
          <5>3. end(c - 1) \in Nat
            BY <1>6, <3>1
          <5> QED BY <5>1, <5>2, <5>3
        <4> QED BY <4>1, <4>2
      <3>6. f[c] = SubSeq(w, 1, to(c)) /\ f[c - 1] = SubSeq(w, 1, to(c - 1))
        BY <1>10, <3>1
      <3> HIDE DEF to, L
      <3> QED BY <1>12, <3>3, <3>4, <3>5, <3>6, Zenon
    <2> QED BY <2>1, <2>2, Zenon
  <1>14. chunks = [c \in 1..n |-> chunks[c]]
    BY <1>4 DEF chunks
  <1>15. chunks \in Seq(Seq(A)) /\ Len(chunks) = n
    <2>1. chunks \in [1..n -> Seq(A)]
      BY <1>13, <1>14
    <2> QED BY <1>3, <2>1, FunIsSeq, Zenon
  <1>16. Runs("join", <<>>, chunks, w)
    <2>1. Running(f, "join", chunks, Len(chunks))
      BY <1>13, <1>15, Zenon DEF Running, Move
    <2> QED BY <1>11, <1>15, <2>1 DEF Runs
  <1> QED BY <1>15, <1>16 DEF chunks

\* A cut, any cut, and no cut.
LEMMA StreamIsRead ==
  ASSUME NEW E, NEW events \in Seq(E), Len(events) > 1,
         NEW offset \in 1..Len(Models!Wire(events)), NEW size \in Nat, size >= 1
  PROVE  /\ Models!ParseSse(Models!Chunked(Models!Wire(events), offset, size)) = events
         /\ Models!ParseSse(<<Models!Wire(events)>>) = events
  <1> DEFINE w == Models!Wire(events)
  <1>1. /\ w \in Seq(Tokens(E))
        /\ \A chunks \in Seq(Seq(Tokens(E))) :
              Runs("join", <<>>, chunks, w) => Models!ParseSse(chunks) = events
    BY WireIsRead
  <1>2. /\ Models!Chunked(w, offset, size) \in Seq(Seq(Tokens(E)))
        /\ Runs("join", <<>>, Models!Chunked(w, offset, size), w)
    BY <1>1, ChunksJoin
  <1>3. <<w>> \in Seq(Seq(Tokens(E))) /\ Runs("join", <<>>, <<w>>, w)
    <2>1. Move("join", <<>>, w) = w
      BY <1>1 DEF Move
    <2>2. \A z \in Seq(Tokens(E)) : <<z>> \in Seq(Seq(Tokens(E)))
      OBVIOUS
    <2> QED BY <1>1, <2>1, <2>2, RunsOne
  <1> QED BY <1>1, <1>2, <1>3, Zenon

-----------------------------------------------------------------------------
(* ModelStream: the decoders.                                                *)

StepsAfter(g, adapter, s, events) ==
    g = [n \in 0..Len(events) |-> IF n = 0 THEN s ELSE Models!Step(adapter, g[n - 1], events[n])]
MergesAfter(g, s, calls) ==
    g = [n \in 0..Len(calls) |-> IF n = 0 THEN s ELSE Models!MergeCall(g[n - 1], calls[n])]
GivesAfter(g, s, calls) ==
    g = [n \in 0..Len(calls) |-> IF n = 0 THEN s ELSE Models!GeminiCall(g[n - 1], calls[n])]

\* The step of an adapter is one of the moves.
LEMMA StepMoves ==
  ASSUME NEW adapter \in Models!Adapters
  PROVE  \A s, e : Move(adapter, s, e) = Models!Step(adapter, s, e)
  BY DEF Move, Models!Adapters

\* The functions of Decode, of MergeCalls and of CallGemini are runs.
LEMMA SameSteps ==
  /\ \A adapter \in Models!Adapters :
        \A g, s, seq : StepsAfter(g, adapter, s, seq) <=> IsAfter(g, adapter, s, seq)
  /\ \A g, s, seq : MergesAfter(g, s, seq) <=> IsAfter(g, "merge", s, seq)
  /\ \A g, s, seq : GivesAfter(g, s, seq) <=> IsAfter(g, "give", s, seq)
  <1>1. ASSUME NEW adapter \in Models!Adapters, NEW g, NEW s, NEW seq
        PROVE  StepsAfter(g, adapter, s, seq) <=> IsAfter(g, adapter, s, seq)
    <2>1. \A n : Move(adapter, g[n - 1], seq[n]) = Models!Step(adapter, g[n - 1], seq[n])
      BY StepMoves
    <2> QED BY <2>1 DEF StepsAfter, IsAfter
  <1>2. /\ \A g, s, seq : MergesAfter(g, s, seq) <=> IsAfter(g, "merge", s, seq)
        /\ \A g, s, seq : GivesAfter(g, s, seq) <=> IsAfter(g, "give", s, seq)
    BY DEF MergesAfter, GivesAfter, IsAfter, Move
  <1> QED BY <1>1, <1>2

\* What Decode keeps of a decoder.
Kept(adapter, d) ==
    [texts |-> d.texts, calls |-> d.calls, finish |-> Models!FinishOf(adapter, d),
     saved |-> [adapter |-> adapter, open |-> d.open]]
Flushed(adapter, d) == IF adapter = "chat" THEN Models!FlushTools(d) ELSE d

\* Decode is where the events lead.
LEMMA DecodeIs ==
  ASSUME NEW adapter \in Models!Adapters, NEW chunks, NEW E, NEW events \in Seq(E),
         Models!ParseSse(chunks) = events, NEW d, Runs(adapter, Models!Decoder, events, d)
  PROVE  Models!Decode(adapter, chunks) = Kept(adapter, Flushed(adapter, d))
  <1> DEFINE s == Models!Decoder
             g == CHOOSE g : StepsAfter(g, adapter, s, events)
  <1>1. /\ \E h : IsAfter(h, adapter, s, events)
        /\ \A h : IsAfter(h, adapter, s, events) => h[Len(events)] = d
    BY After
  <1>2. \E h : StepsAfter(h, adapter, s, events)
    BY <1>1, SameSteps
  <1>3. StepsAfter(g, adapter, s, events)
    BY <1>2
  <1>4. Models!Decode(adapter, chunks) = Kept(adapter, Flushed(adapter, g[Len(events)]))
    BY DEF Models!Decode, StepsAfter, Kept, Flushed
  <1> HIDE DEF g
  <1>5. g[Len(events)] = d
    BY <1>1, <1>3, SameSteps
  <1> QED BY <1>4, <1>5

\* MergeCalls of no delta and of one.
LEMMA MergeCallsIs ==
  ASSUME NEW open
  PROVE  /\ Models!MergeCalls(open, <<>>) = open
         /\ \A c : Models!MergeCalls(open, <<c>>) = Models!MergeCall(open, c)
  <1>1. ASSUME NEW A, NEW calls \in Seq(A), NEW t, Runs("merge", open, calls, t)
        PROVE  Models!MergeCalls(open, calls) = t
    <2> DEFINE g == CHOOSE g : MergesAfter(g, open, calls)
    <2>1. /\ \E h : IsAfter(h, "merge", open, calls)
          /\ \A h : IsAfter(h, "merge", open, calls) => h[Len(calls)] = t
      BY <1>1, After
    <2>2. \E h : MergesAfter(h, open, calls)
      BY <2>1, SameSteps
    <2>3. MergesAfter(g, open, calls)
      BY <2>2
    <2>4. Models!MergeCalls(open, calls) = g[Len(calls)]
      BY DEF Models!MergeCalls, MergesAfter
    <2> HIDE DEF g
    <2> QED BY <2>1, <2>3, <2>4, SameSteps
  <1>2. Models!MergeCalls(open, <<>>) = open
    <2>1. <<>> \in Seq({}) /\ Runs("merge", open, <<>>, open)
      BY RunsNowhere
    <2> QED BY <1>1, <2>1, Zenon
  <1>3. ASSUME NEW c PROVE Models!MergeCalls(open, <<c>>) = Models!MergeCall(open, c)
    <2>1. <<c>> \in Seq({c}) /\ Runs("merge", open, <<c>>, Move("merge", open, c))
      BY RunsOne
    <2>2. Move("merge", open, c) = Models!MergeCall(open, c)
      BY DEF Move
    <2> QED BY <1>1, <2>1, <2>2, Zenon
  <1> QED BY <1>2, <1>3

\* CallGemini of no call and of one.
LEMMA CallGeminiIs ==
  ASSUME NEW d
  PROVE  /\ Models!CallGemini(d, <<>>) = d
         /\ \A c : Models!CallGemini(d, <<c>>) = Models!GeminiCall(d, c)
  <1>1. ASSUME NEW A, NEW calls \in Seq(A), NEW t, Runs("give", d, calls, t)
        PROVE  Models!CallGemini(d, calls) = t
    <2> DEFINE g == CHOOSE g : GivesAfter(g, d, calls)
    <2>1. /\ \E h : IsAfter(h, "give", d, calls)
          /\ \A h : IsAfter(h, "give", d, calls) => h[Len(calls)] = t
      BY <1>1, After
    <2>2. \E h : GivesAfter(h, d, calls)
      BY <2>1, SameSteps
    <2>3. GivesAfter(g, d, calls)
      BY <2>2
    <2>4. Models!CallGemini(d, calls) = g[Len(calls)]
      BY DEF Models!CallGemini, GivesAfter
    <2> HIDE DEF g
    <2> QED BY <2>1, <2>3, <2>4, SameSteps
  <1>2. Models!CallGemini(d, <<>>) = d
    <2>1. <<>> \in Seq({}) /\ Runs("give", d, <<>>, d)
      BY RunsNowhere
    <2> QED BY <1>1, <2>1, Zenon
  <1>3. ASSUME NEW c PROVE Models!CallGemini(d, <<c>>) = Models!GeminiCall(d, c)
    <2>1. <<c>> \in Seq({c}) /\ Runs("give", d, <<c>>, Move("give", d, c))
      BY RunsOne
    <2>2. Move("give", d, c) = Models!GeminiCall(d, c)
      BY DEF Move
    <2> QED BY <1>1, <2>1, <2>2, Zenon
  <1> QED BY <1>2, <1>3

\* The beginnings of a sequence, each one longer than the one before.
LEMMA OneLonger ==
  ASSUME NEW A, NEW z \in Seq(A)
  PROVE  /\ SubSeq(z, 1, 0) = <<>> /\ SubSeq(z, 1, Len(z)) = z
         /\ \A i \in 1..Len(z) :
               /\ SubSeq(z, 1, i) = Append(SubSeq(z, 1, i - 1), z[i])
               /\ SubSeq(z, 1, i) = SubSeq(z, 1, i - 1) \o <<z[i]>>
         /\ \A i \in 0..Len(z) :
               /\ SubSeq(z, 1, i) \in Seq(A) /\ Len(SubSeq(z, 1, i)) = i
               /\ \A k \in 1..i : SubSeq(z, 1, i)[k] = z[k]
  OBVIOUS

-----------------------------------------------------------------------------
(* ModelStream: the answers a provider gives.  The ids of its calls are      *)
(* distinct, and of its arguments a call has two fragments.                  *)

IsAnswer(answer, C) ==
    /\ answer.calls \in Seq(C)
    /\ \A i \in 1..Len(answer.calls) :
          LET c == answer.calls[i] IN
          c.id # None /\ c.name # None /\ c.args = <<c.args[1], c.args[2]>>
    /\ \A i, j \in 1..Len(answer.calls) : answer.calls[i].id = answer.calls[j].id => i = j

\* A decoder in the middle of an answer.
No == FALSE
Yes == TRUE
Said(answer) == IF answer.text = None THEN <<>> ELSE <<answer.text>>
Midway(texts, calls, open, finish, called) ==
    [texts |-> texts, calls |-> calls, open |-> open, flushed |-> No, finish |-> finish,
     called |-> called]

\* The fields of a decoder in the middle of an answer.
LEMMA MidwayIs ==
  ASSUME NEW t, NEW c, NEW o, NEW f, NEW k
  PROVE  /\ Midway(t, c, o, f, k).texts = t /\ Midway(t, c, o, f, k).calls = c
         /\ Midway(t, c, o, f, k).open = o /\ Midway(t, c, o, f, k).finish = f
         /\ Midway(t, c, o, f, k).called = k /\ Midway(t, c, o, f, k).flushed = No
  BY DEF Midway

\* A decoder with another text.
LEMMA WithTexts ==
  ASSUME NEW t, NEW c, NEW o, NEW f, NEW k, NEW x, NEW d, d = Midway(t, c, o, f, k)
  PROVE  [d EXCEPT !.texts = x] = Midway(x, c, o, f, k)
  BY DEF Midway

\* A decoder with other calls.
LEMMA WithCalls ==
  ASSUME NEW t, NEW c, NEW o, NEW f, NEW k, NEW x, NEW d, d = Midway(t, c, o, f, k)
  PROVE  [d EXCEPT !.calls = x] = Midway(t, x, o, f, k)
  BY DEF Midway

\* A decoder with other items.
LEMMA WithOpen ==
  ASSUME NEW t, NEW c, NEW o, NEW f, NEW k, NEW x, NEW d, d = Midway(t, c, o, f, k)
  PROVE  [d EXCEPT !.open = x] = Midway(t, c, x, f, k)
  BY DEF Midway

\* A decoder with another reason to finish.
LEMMA WithFinish ==
  ASSUME NEW t, NEW c, NEW o, NEW f, NEW k, NEW x, NEW d, d = Midway(t, c, o, f, k)
  PROVE  [d EXCEPT !.finish = x] = Midway(t, c, o, x, k)
  BY DEF Midway

\* The text of an answer is said once, or there is none.
LEMMA SayingIs ==
  ASSUME NEW answer, NEW o, NEW d, d = Midway(<<>>, <<>>, o, "stop", No)
  PROVE  Models!Saying(d, answer.text) = Midway(Said(answer), <<>>, o, "stop", No)
  <1>1. CASE answer.text = None
    BY <1>1 DEF Models!Saying, Said
  <1>2. CASE answer.text # None
    <2>1. d.texts = <<>>
      BY MidwayIs
    <2>2. Append(<<>>, answer.text) = <<answer.text>>
      OBVIOUS
    <2>3. [d EXCEPT !.texts = <<answer.text>>] = Midway(<<answer.text>>, <<>>, o, "stop", No)
      BY WithTexts
    <2> QED BY <1>2, <2>1, <2>2, <2>3 DEF Models!Saying, Said
  <1> QED BY <1>1, <1>2

\* A stream begins, goes on and ends.
LEMMA InThreeParts ==
  ASSUME NEW how, NEW E, NEW x \in Seq(E), NEW y \in Seq(E), NEW z \in Seq(E),
         NEW s, NEW t, NEW u, NEW v, Runs(how, s, x, t), Runs(how, t, y, u), Runs(how, u, z, v)
  PROVE  /\ x \o y \o z \in Seq(E)
         /\ Len(x \o y \o z) = Len(x) + Len(y) + Len(z)
         /\ Runs(how, s, x \o y \o z, v)
  <1>1. /\ x \o y \in Seq(E) /\ Len(x \o y) = Len(x) + Len(y)
        /\ x \o y \o z \in Seq(E) /\ Len(x \o y \o z) = Len(x) + Len(y) + Len(z)
    OBVIOUS
  <1>2. Runs(how, s, x \o y, u)
    BY RunsOn
  <1>3. Runs(how, s, (x \o y) \o z, v)
    BY <1>1, <1>2, RunsOn, Zenon
  <1> QED BY <1>1, <1>3

\* What is known of a decoder at the end of a stream.
Ends(adapter, events, d) ==
    \E E : events \in Seq(E) /\ Len(events) > 1 /\ Runs(adapter, Models!Decoder, events, d)

\* A decoder at the end of a stream in three parts.
LEMMA EndsSo ==
  ASSUME NEW how, NEW E, NEW x \in Seq(E), NEW y \in Seq(E), NEW z \in Seq(E), Len(x) > 0, Len(z) > 0,
         NEW t, NEW u, NEW v, Runs(how, Models!Decoder, x, t), Runs(how, t, y, u), Runs(how, u, z, v)
  PROVE  Ends(how, x \o y \o z, v)
  <1>1. /\ x \o y \o z \in Seq(E)
        /\ Len(x \o y \o z) = Len(x) + Len(y) + Len(z)
        /\ Runs(how, Models!Decoder, x \o y \o z, v)
    BY InThreeParts
  <1>2. Len(x \o y \o z) > 1
    BY <1>1
  <1> QED BY <1>1, <1>2 DEF Ends

-----------------------------------------------------------------------------
(* ModelStream: Gemini.                                                      *)

GeminiId(answer, withIds, i) ==
    IF withIds THEN answer.calls[i].id ELSE <<answer.calls[i].name, i - 1>>
GeminiGiven(answer, withIds, i) ==
    [id |-> IF withIds THEN answer.calls[i].id ELSE None, name |-> answer.calls[i].name,
     args |-> answer.calls[i].args]
GeminiHas(answer, withIds) ==
    [i \in 1..Len(answer.calls) |->
        Models!ToolCall(GeminiId(answer, withIds, i), answer.calls[i].name, answer.calls[i].args)]
GeminiOpen(answer, withIds) == [i \in 1..Len(answer.calls) |-> GeminiGiven(answer, withIds, i)]

\* No two calls get one id, whether the provider gives them or they are made.
LEMMA GeminiIdsDiffer ==
  ASSUME NEW C, NEW answer, IsAnswer(answer, C), NEW withIds \in BOOLEAN,
         NEW i \in 1..Len(answer.calls), NEW j \in 1..Len(answer.calls),
         GeminiId(answer, withIds, i) = GeminiId(answer, withIds, j)
  PROVE  i = j
  <1>1. CASE withIds
    BY <1>1 DEF GeminiId, IsAnswer
  <1>2. CASE ~withIds
    <2>1. <<answer.calls[i].name, i - 1>> = <<answer.calls[j].name, j - 1>>
      BY <1>2 DEF GeminiId
    <2>2. i - 1 = j - 1
      BY <2>1
    <2>3. Len(answer.calls) \in Nat
      BY DEF IsAnswer
    <2> QED BY <2>2, <2>3
  <1> QED BY <1>1, <1>2

\* The id a call gets after others, none of which has it.
IsNewId(id, h, c) ==
    /\ id = IF c.id = None THEN <<c.name, Len(h)>> ELSE c.id
    /\ \A k \in DOMAIN h : h[k].id # id

\* An event with a call that is new gives the call.
LEMMA GeminiSteps ==
  ASSUME NEW t, NEW h, NEW o, NEW c, NEW id, IsNewId(id, h, c)
  PROVE  Models!Step("gemini", Midway(t, h, o, "stop", No),
                     [text |-> None, calls |-> <<c>>, finish |-> None])
           = Midway(t, Append(h, Models!ToolCall(id, c.name, c.args)), o \o <<c>>, "stop", No)
  <1> DEFINE event == [text |-> None, calls |-> <<c>>, finish |-> None]
  <1>0. PICK d : d = Midway(t, h, o, "stop", No)
    OBVIOUS
  <1>1. PICK x, y : x = Append(h, Models!ToolCall(id, c.name, c.args)) /\ y = o \o <<c>>
    BY Zenon
  <1>8. PICK put, after : put = Midway(t, h, y, "stop", No) /\ after = Midway(t, x, y, "stop", No)
    OBVIOUS
  <1>2. Models!Saying(d, None) = d
    BY DEF Models!Saying
  <1>3. [d EXCEPT !.open = @ \o <<c>>] = put
    <2>1. d.open = o
      BY <1>0, MidwayIs
    <2>2. [d EXCEPT !.open = y] = put
      BY <1>0, <1>8, WithOpen
    <2> QED BY <1>1, <2>1, <2>2
  <1>4. Models!CallGemini(put, <<c>>) = after
    <2>1. put.calls = h
      BY <1>8, MidwayIs
    <2>2. [put EXCEPT !.calls = x] = after
      BY <1>8, WithCalls
    <2>3. Models!GeminiCall(put, c) = after
      BY <1>1, <2>1, <2>2 DEF Models!GeminiCall, IsNewId
    <2> QED BY <2>3, CallGeminiIs
  <1>5. Models!Ending(after, None) = after
    BY DEF Models!Ending
  <1>6. Models!GeminiStep(d, event) = after
    <2>1. event.text = None /\ event.calls = <<c>> /\ event.finish = None
      OBVIOUS
    <2> HIDE DEF event
    <2> QED BY <1>2, <1>3, <1>4, <1>5, <2>1 DEF Models!GeminiStep
  <1>7. Models!Step("gemini", d, event) = Models!GeminiStep(d, event)
    BY DEF Models!Step
  <1> QED BY <1>0, <1>1, <1>6, <1>7, <1>8

\* The event of each call of an answer is such an event.
LEMMA GeminiTakes ==
  ASSUME NEW C, NEW answer, IsAnswer(answer, C), NEW withIds \in BOOLEAN, NEW texts,
         NEW A, GeminiHas(answer, withIds) \in Seq(A), NEW B, GeminiOpen(answer, withIds) \in Seq(B),
         NEW i \in 1..Len(answer.calls)
  PROVE  Models!Step("gemini",
                     Midway(texts, SubSeq(GeminiHas(answer, withIds), 1, i - 1),
                            SubSeq(GeminiOpen(answer, withIds), 1, i - 1), "stop", No),
                     [text |-> None, calls |-> <<GeminiGiven(answer, withIds, i)>>, finish |-> None])
           = Midway(texts, SubSeq(GeminiHas(answer, withIds), 1, i),
                    SubSeq(GeminiOpen(answer, withIds), 1, i), "stop", No)
  <1> DEFINE n == Len(answer.calls)
             has == GeminiHas(answer, withIds)
             open == GeminiOpen(answer, withIds)
             c == GeminiGiven(answer, withIds, i)
             id == GeminiId(answer, withIds, i)
             h == SubSeq(has, 1, i - 1)
             o == SubSeq(open, 1, i - 1)
  <1>1. /\ n \in Nat /\ Len(has) = n /\ Len(open) = n
        /\ has[i] = Models!ToolCall(id, answer.calls[i].name, answer.calls[i].args) /\ open[i] = c
    BY DEF IsAnswer, GeminiHas, GeminiOpen
  <1>2. i - 1 \in 0..n /\ i - 1 \in Nat
    BY <1>1
  <1>3. ASSUME NEW k \in 1..(i - 1) PROVE has[k].id # id
    <2>1. k \in 1..n /\ k # i
      BY <1>1
    <2>2. has[k].id = GeminiId(answer, withIds, k)
      BY <2>1 DEF GeminiHas, Models!ToolCall
    <2> QED BY <2>1, <2>2, GeminiIdsDiffer
  <1>4. c.name = answer.calls[i].name /\ c.args = answer.calls[i].args
    BY DEF GeminiGiven
  <1>5. id = IF c.id = None THEN <<c.name, i - 1>> ELSE c.id
    <2>1. c.id = IF withIds THEN answer.calls[i].id ELSE None
      BY DEF GeminiGiven
    <2>2. answer.calls[i].id # None
      BY DEF IsAnswer
    <2>3. CASE withIds
      BY <2>1, <2>2, <2>3 DEF GeminiId
    <2>4. CASE ~withIds
      BY <1>4, <2>1, <2>4 DEF GeminiId
    <2> QED BY <2>3, <2>4
  <1> HIDE DEF has, open, c, n, id
  <1>6. /\ Len(h) = i - 1 /\ DOMAIN h = 1..(i - 1)
        /\ \A k \in 1..(i - 1) : h[k] = has[k]
        /\ SubSeq(has, 1, i) = Append(h, has[i])
        /\ SubSeq(open, 1, i) = o \o <<open[i]>>
    <2>1. has \in Seq(A) /\ open \in Seq(B) /\ i \in 1..Len(has) /\ i \in 1..Len(open)
             /\ i - 1 \in 0..Len(has)
      BY <1>1, <1>2 DEF has, open, n
    <2>2. Len(h) = i - 1 /\ h \in Seq(A)
      BY <1>1, <2>1, OneLonger
    <2>3. DOMAIN h = 1..(i - 1)
      <3> HIDE DEF h
      <3> QED BY <2>2
    <2> QED BY <1>1, <2>1, <2>2, <2>3, OneLonger
  <1> HIDE DEF h, o
  <1>7. \A k \in DOMAIN h : h[k].id # id
    BY <1>3, <1>6, Zenon
  <1> HIDE DEF c
  <1>8. IsNewId(id, h, c)
    BY <1>5, <1>6, <1>7, Zenon DEF IsNewId
  <1>9. Models!Step("gemini", Midway(texts, h, o, "stop", No),
                    [text |-> None, calls |-> <<c>>, finish |-> None])
           = Midway(texts, Append(h, Models!ToolCall(id, c.name, c.args)), o \o <<c>>, "stop", No)
    BY <1>8, GeminiSteps
  <1>10. Append(h, Models!ToolCall(id, c.name, c.args)) = SubSeq(has, 1, i) /\ o \o <<c>> = SubSeq(open, 1, i)
    BY <1>1, <1>4, <1>6, Zenon
  <1> QED BY <1>9, <1>10, Zenon DEF has, open, c, h, o

\* The decoder at the end of a stream of Gemini's.
LEMMA GeminiEnds ==
  ASSUME NEW C, NEW answer, IsAnswer(answer, C), NEW withIds \in BOOLEAN
  PROVE  Ends("gemini", Models!GeminiStream(answer, withIds),
              Midway(Said(answer), GeminiHas(answer, withIds), GeminiOpen(answer, withIds), "STOP", No))
  <1> DEFINE n == Len(answer.calls)
             has == GeminiHas(answer, withIds)
             open == GeminiOpen(answer, withIds)
             A == {has[i] : i \in 1..n}
             B == {open[i] : i \in 1..n}
             event(i) == [text |-> None, calls |-> <<GeminiGiven(answer, withIds, i)>>, finish |-> None]
             mid == [i \in 1..n |-> event(i)]
             first == [text |-> answer.text, calls |-> <<>>, finish |-> None]
             last == [text |-> None, calls |-> <<>>, finish |-> "STOP"]
             E == {event(i) : i \in 1..n} \cup {first, last}
             F == [i \in 0..n |-> Midway(Said(answer), SubSeq(has, 1, i), SubSeq(open, 1, i), "stop", No)]
             done == Midway(Said(answer), has, open, "STOP", No)
  <1>0. n \in Nat /\ DOMAIN answer.calls = 1..n
    BY DEF IsAnswer
  <1>1. has \in Seq(A) /\ open \in Seq(B) /\ Len(has) = n /\ Len(open) = n
    <2>1. has \in [1..n -> A] /\ open \in [1..n -> B]
      BY DEF GeminiHas, GeminiOpen
    <2> HIDE DEF A, B, has, open, n
    <2> QED BY <1>0, <2>1, FunIsSeq
  <1>2. Models!GeminiStream(answer, withIds) = <<first>> \o mid \o <<last>>
    BY <1>0 DEF Models!GeminiStream, GeminiGiven
  <1>3. mid \in Seq(E) /\ Len(mid) = n /\ <<first>> \in Seq(E) /\ <<last>> \in Seq(E)
    <2>1. mid \in [1..n -> E] /\ first \in E /\ last \in E
      OBVIOUS
    <2> HIDE DEF E, mid, first, last, n
    <2>2. mid \in Seq(E) /\ Len(mid) = n
      BY <1>0, <2>1, FunIsSeq
    <2> QED BY <2>1, <2>2
  <1>4. Move("gemini", Models!Decoder, first) = F[0]
    <2>0. 0 \in 0..n /\ SubSeq(has, 1, 0) = <<>> /\ SubSeq(open, 1, 0) = <<>>
      BY <1>0, <1>1, OneLonger
    <2>1. F[0] = Midway(Said(answer), <<>>, <<>>, "stop", No)
      BY <2>0, Zenon
    <2>2. Models!Decoder = Midway(<<>>, <<>>, <<>>, "stop", No)
      BY DEF Models!Decoder, Midway, No
    <2>3. Models!Saying(Models!Decoder, answer.text) = Midway(Said(answer), <<>>, <<>>, "stop", No)
      BY <2>2, SayingIs
    <2>4. PICK d : d = Midway(Said(answer), <<>>, <<>>, "stop", No)
      OBVIOUS
    <2>5. [d EXCEPT !.open = @ \o <<>>] = d
      <3>1. d.open = <<>> /\ <<>> \o <<>> = <<>>
        BY <2>4, MidwayIs
      <3>2. [d EXCEPT !.open = <<>>] = d
        BY <2>4, WithOpen
      <3> QED BY <3>1, <3>2
    <2>6. Models!CallGemini(d, <<>>) = d /\ Models!Ending(d, None) = d
      BY CallGeminiIs DEF Models!Ending
    <2>7. first.text = answer.text /\ first.calls = <<>> /\ first.finish = None
      OBVIOUS
    <2> HIDE DEF first
    <2>8. Models!GeminiStep(Models!Decoder, first) = d
      BY <2>3, <2>4, <2>5, <2>6, <2>7 DEF Models!GeminiStep
    <2> QED BY <2>1, <2>4, <2>8 DEF Move, Models!Step
  <1>5. Move("gemini", F[n], last) = done
    <2>0. n \in 0..n /\ SubSeq(has, 1, n) = has /\ SubSeq(open, 1, n) = open
      BY <1>0, <1>1, OneLonger
    <2>1. F[n] = Midway(Said(answer), has, open, "stop", No)
      BY <2>0, Zenon
    <2>2. open \o <<>> = open
      BY <1>1
    <2> HIDE DEF has, open
    <2>4. PICK d : d = Midway(Said(answer), has, open, "stop", No)
      OBVIOUS
    <2>5. [d EXCEPT !.open = @ \o <<>>] = d
      <3>1. d.open = open
        BY <2>4, MidwayIs
      <3>2. [d EXCEPT !.open = open] = d
        BY <2>4, WithOpen
      <3> QED BY <2>2, <3>1, <3>2
    <2>6. Models!CallGemini(d, <<>>) = d /\ Models!Saying(d, None) = d
      BY CallGeminiIs DEF Models!Saying
    <2>7. last.text = None /\ last.calls = <<>> /\ last.finish = "STOP"
      OBVIOUS
    <2> HIDE DEF last
    <2>8. Models!Ending(d, "STOP") = done
      <3>1. [d EXCEPT !.finish = "STOP"] = done
        BY <2>4, WithFinish
      <3>2. "STOP" # None
        BY NoneAssumption
      <3> QED BY <3>1, <3>2 DEF Models!Ending
    <2> HIDE DEF done
    <2>9. Models!GeminiStep(d, last) = done
      BY <2>5, <2>6, <2>7, <2>8 DEF Models!GeminiStep
    <2> QED BY <2>1, <2>4, <2>9 DEF Move, Models!Step
  <1>6. ASSUME NEW i \in 1..n PROVE F[i] = Move("gemini", F[i - 1], mid[i])
    <2>1. i \in 0..n /\ i - 1 \in 0..n /\ mid[i] = event(i)
      BY <1>0
    <2>2. /\ F[i - 1] = Midway(Said(answer), SubSeq(has, 1, i - 1), SubSeq(open, 1, i - 1), "stop", No)
          /\ F[i] = Midway(Said(answer), SubSeq(has, 1, i), SubSeq(open, 1, i), "stop", No)
      BY <2>1
    <2>3. Models!Step("gemini",
                     Midway(Said(answer), SubSeq(has, 1, i - 1), SubSeq(open, 1, i - 1), "stop", No),
                     event(i))
           = Midway(Said(answer), SubSeq(has, 1, i), SubSeq(open, 1, i), "stop", No)
      BY <1>1, GeminiTakes
    <2> HIDE DEF F, mid, event
    <2> QED BY <2>1, <2>2, <2>3 DEF Move
  <1> HIDE DEF F, mid, first, last, E
  <1>7. Runs("gemini", F[0], mid, F[n])
    BY <1>3, <1>6 DEF Runs, Running
  <1>8. Runs("gemini", Models!Decoder, <<first>>, F[0]) /\ Runs("gemini", F[n], <<last>>, done)
    BY <1>4, <1>5, RunsOne
  <1>9. Ends("gemini", <<first>> \o mid \o <<last>>, done)
    <2>1. Len(<<first>>) > 0 /\ Len(<<last>>) > 0
      OBVIOUS
    <2> QED BY <1>3, <1>7, <1>8, <2>1, EndsSo, Zenon
  <1> QED BY <1>2, <1>9, Zenon

-----------------------------------------------------------------------------
(* ModelStream: the calls, blocks or items a decoder has begun.              *)

Entry(key, id, name, args) == [key |-> key, id |-> id, name |-> name, args |-> args]
IsFree(open, key) == \A k \in DOMAIN open : open[k].key # key
KeysDiffer(open) == \A j, k \in DOMAIN open : open[j].key = open[k].key => j = k

\* The fields of an entry.
LEMMA EntryIs ==
  ASSUME NEW key, NEW id, NEW name, NEW args
  PROVE  /\ Entry(key, id, name, args).key = key /\ Entry(key, id, name, args).id = id
         /\ Entry(key, id, name, args).name = name /\ Entry(key, id, name, args).args = args
  BY DEF Entry

\* An entry with other arguments.
LEMMA WithArgs ==
  ASSUME NEW key, NEW id, NEW name, NEW args, NEW x, NEW e, e = Entry(key, id, name, args)
  PROVE  [e EXCEPT !.args = x] = Entry(key, id, name, x)
  BY DEF Entry

\* Put with a key that is free begins an entry.
LEMMA PutsNew ==
  ASSUME NEW o, NEW e, IsFree(o, e.key)
  PROVE  Models!Put(o, e) = Append(o, e)
  <1>1. Models!PlaceOf(o, e.key) = {}
    BY DEF Models!PlaceOf, IsFree
  <1> QED BY <1>1 DEF Models!Put

\* Get of a key that is free is an entry with nothing in it.
LEMMA GetsNew ==
  ASSUME NEW o, NEW key, IsFree(o, key)
  PROVE  Models!Get(o, key) = Entry(key, None, None, <<>>)
  <1>1. Models!PlaceOf(o, key) = {}
    BY DEF Models!PlaceOf, IsFree
  <1> QED BY <1>1 DEF Models!Get, Entry

\* Get finds the entry of a key.
LEMMA GetsAt ==
  ASSUME NEW o, KeysDiffer(o), NEW i \in DOMAIN o, NEW key, o[i].key = key
  PROVE  Models!Get(o, key) = o[i]
  <1>1. Models!PlaceOf(o, key) = {i}
    BY DEF Models!PlaceOf, KeysDiffer
  <1>2. (CHOOSE j \in {i} : TRUE) = i
    OBVIOUS
  <1> QED BY <1>1, <1>2 DEF Models!Get

\* Put replaces the entry of a key.
LEMMA PutsAt ==
  ASSUME NEW A, NEW o \in Seq(A), KeysDiffer(o), NEW i \in DOMAIN o, NEW e, o[i].key = e.key
  PROVE  Models!Put(o, e) = [o EXCEPT ![i] = e]
  <1>1. Models!PlaceOf(o, e.key) # {} /\ \A j \in DOMAIN o : o[j].key = e.key <=> j = i
    BY DEF Models!PlaceOf, KeysDiffer
  <1>2. Models!Put(o, e) = [j \in DOMAIN o |-> IF o[j].key = e.key THEN e ELSE o[j]]
    BY <1>1 DEF Models!Put
  <1>3. [j \in DOMAIN o |-> IF o[j].key = e.key THEN e ELSE o[j]] = [o EXCEPT ![i] = e]
    BY <1>1
  <1> QED BY <1>2, <1>3

\* The one begun last.
LEMMA LastOpen ==
  ASSUME NEW A, NEW o \in Seq(A), KeysDiffer(o), NEW b \in A, NEW e \in A, IsFree(o, b.key), e.key = b.key
  PROVE  /\ KeysDiffer(Append(o, b))
         /\ Models!Get(Append(o, b), b.key) = b
         /\ Models!Put(Append(o, b), e) = Append(o, e)
  <1> DEFINE n == Len(o)
             z == Append(o, b)
  <1>1. /\ z \in Seq(A) /\ DOMAIN z = 1..(n + 1) /\ z[n + 1] = b /\ n \in Nat /\ DOMAIN o = 1..n
        /\ \A k \in 1..n : z[k] = o[k]
    OBVIOUS
  <1>2. /\ Append(o, e) \in Seq(A) /\ Len(Append(o, e)) = n + 1 /\ Append(o, e)[n + 1] = e
        /\ \A k \in 1..n : Append(o, e)[k] = o[k]
    OBVIOUS
  <1> HIDE DEF z, n
  <1>3. \A k \in 1..(n + 1) : k \in 1..n \/ k = n + 1
    BY <1>1
  <1>4. KeysDiffer(z)
    BY <1>1, <1>3 DEF KeysDiffer, IsFree
  <1>5. n + 1 \in DOMAIN z
    BY <1>1
  <1>6. Models!Get(z, b.key) = b
    BY <1>1, <1>4, <1>5, GetsAt
  <1>7. Models!Put(z, e) = [z EXCEPT ![n + 1] = e]
    BY <1>1, <1>4, <1>5, PutsAt
  <1>8. [z EXCEPT ![n + 1] = e] = Append(o, e)
    <2> DEFINE y == [z EXCEPT ![n + 1] = e]
    <2>1. y \in Seq(A) /\ Len(y) = n + 1 /\ y[n + 1] = e /\ \A k \in 1..n : y[k] = z[k]
      <3>1. Len(z) = n + 1
        BY <1>1
      <3>2. \A k \in 1..n : k # n + 1 /\ k \in 1..(n + 1)
        BY <1>1
      <3> QED BY <1>1, <3>1, <3>2
    <2> HIDE DEF y
    <2>2. \A k \in 1..(n + 1) : y[k] = Append(o, e)[k]
      BY <1>1, <1>2, <1>3, <2>1
    <2>3. y = Append(o, e)
      BY <1>2, <2>1, <2>2, SameSeq
    <2> QED BY <2>3 DEF y
  <1> QED BY <1>4, <1>6, <1>7, <1>8 DEF z

\* A fragment for the entry begun last goes behind its arguments.
LEMMA ExtendsLast ==
  ASSUME NEW A, NEW o \in Seq(A), KeysDiffer(o), NEW key, NEW id, NEW name, NEW args, NEW more, NEW new,
         NEW b \in A, b = Entry(key, id, name, args), NEW e \in A, e = Entry(key, id, name, new),
         new = args \o more, IsFree(o, key)
  PROVE  Models!Extended(Append(o, b), key, more) = Append(o, e)
  <1>1. b.key = key /\ e.key = key /\ b.args = args
    BY EntryIs
  <1>2. PICK x : x = Append(o, b)
    BY Zenon
  <1>3. Models!Get(x, key) = b /\ Models!Put(x, e) = Append(o, e)
    BY <1>1, <1>2, LastOpen
  <1>4. [b EXCEPT !.args = new] = e
    <2>1. PICK z : z = new
      OBVIOUS
    <2>2. [b EXCEPT !.args = z] = Entry(key, id, name, z)
      BY WithArgs
    <2> QED BY <2>1, <2>2
  <1>5. [b EXCEPT !.args = @ \o more] = e
    BY <1>1, <1>4
  <1>6. Models!Extended(x, key, more) = Append(o, e)
    BY <1>3, <1>5, Zenon DEF Models!Extended
  <1> QED BY <1>2, <1>6, Zenon

\* The first fragment is all of its arguments.
LEMMA ExtendsFirst ==
  ASSUME NEW A, NEW o \in Seq(A), KeysDiffer(o), NEW key, NEW id, NEW name, NEW more,
         NEW b \in A, b = Entry(key, id, name, <<>>), NEW e \in A, e = Entry(key, id, name, more),
         <<>> \o more = more, IsFree(o, key)
  PROVE  Models!Extended(Append(o, b), key, more) = Append(o, e)
  <1>1. PICK none : none = <<>>
    OBVIOUS
  <1>2. b = Entry(key, id, name, none) /\ more = none \o more
    BY <1>1
  <1> QED BY <1>2, ExtendsLast

\* Three elements, three steps.
LEMMA RunsThree ==
  ASSUME NEW how, NEW s, NEW t, NEW u, NEW v, NEW a, NEW b, NEW c,
         t = Move(how, s, a), u = Move(how, t, b), v = Move(how, u, c)
  PROVE  Runs(how, s, <<a, b, c>>, v)
  <1> DEFINE f == [k \in 0..3 |-> CASE k = 0 -> s [] k = 1 -> t [] k = 2 -> u [] OTHER -> v]
             z == <<a, b, c>>
  <1>1. f[0] = s /\ f[1] = t /\ f[2] = u /\ f[3] = v /\ Len(z) = 3 /\ z[1] = a /\ z[2] = b /\ z[3] = c
    OBVIOUS
  <1> HIDE DEF f, z
  <1>2. ASSUME NEW k \in 1..3 PROVE f[k] = Move(how, f[k - 1], z[k])
    <2>1. k = 1 \/ k = 2 \/ k = 3
      OBVIOUS
    <2>2. 1 - 1 = 0 /\ 2 - 1 = 1 /\ 3 - 1 = 2
      OBVIOUS
    <2> QED BY <1>1, <2>1, <2>2
  <1> QED BY <1>1, <1>2 DEF Runs, Running, z

\* Four elements, four steps.
LEMMA RunsFour ==
  ASSUME NEW how, NEW s, NEW t, NEW u, NEW v, NEW w, NEW a, NEW b, NEW c, NEW d,
         t = Move(how, s, a), u = Move(how, t, b), v = Move(how, u, c), w = Move(how, v, d)
  PROVE  Runs(how, s, <<a, b, c, d>>, w)
  <1> DEFINE f == [k \in 0..4 |-> CASE k = 0 -> s [] k = 1 -> t [] k = 2 -> u [] k = 3 -> v [] OTHER -> w]
             z == <<a, b, c, d>>
  <1>1. /\ f[0] = s /\ f[1] = t /\ f[2] = u /\ f[3] = v /\ f[4] = w
        /\ Len(z) = 4 /\ z[1] = a /\ z[2] = b /\ z[3] = c /\ z[4] = d
    OBVIOUS
  <1> HIDE DEF f, z
  <1>2. ASSUME NEW k \in 1..4 PROVE f[k] = Move(how, f[k - 1], z[k])
    <2>1. k = 1 \/ k = 2 \/ k = 3 \/ k = 4
      OBVIOUS
    <2>2. 1 - 1 = 0 /\ 2 - 1 = 1 /\ 3 - 1 = 2 /\ 4 - 1 = 3
      OBVIOUS
    <2> QED BY <1>1, <2>1, <2>2
  <1> QED BY <1>1, <1>2 DEF Runs, Running, z

-----------------------------------------------------------------------------
(* ModelStream: Responses.                                                   *)

\* A decoder that has seen a call.
LEMMA WithCalled ==
  ASSUME NEW t, NEW c, NEW o, NEW f, NEW k, NEW x, NEW d, d = Midway(t, c, o, f, k)
  PROVE  [d EXCEPT !.called = x] = Midway(t, c, o, f, x)
  BY DEF Midway

\* The three events of an item of Responses give its call.
LEMMA ResponsesTakes ==
  ASSUME NEW A, NEW t, NEW h, NEW o \in Seq(A), NEW k, NEW key, NEW call,
         Entry(key, call.id, call.name, <<>>) \in A, Entry(key, call.id, call.name, call.args) \in A,
         KeysDiffer(o), IsFree(o, key), call.name # None, <<>> \o call.args = call.args
  PROVE  Runs("responses", Midway(t, h, o, "stop", k),
              <<[type |-> "added", item |-> Entry(key, call.id, call.name, <<>>)],
                [type |-> "json", key |-> key, args |-> call.args],
                [type |-> "done", item |-> Entry(key, call.id, call.name, call.args)]>>,
              Midway(t, Append(h, Models!ToolCall(call.id, call.name, call.args)),
                     Append(o, Entry(key, call.id, call.name, call.args)), "stop", Yes))
  <1>0. PICK b, e : b = Entry(key, call.id, call.name, <<>>) /\ e = Entry(key, call.id, call.name, call.args)
    OBVIOUS
  <1>1. /\ b \in A /\ e \in A /\ b.key = key /\ e.key = key /\ b.args = <<>>
        /\ e.id = call.id /\ e.name = call.name /\ e.args = call.args
    BY <1>0, EntryIs
  <1>2. PICK d0, d1, d2, d3, x, y, z :
          /\ x = Append(o, b) /\ y = Append(o, e)
          /\ z = Append(h, Models!ToolCall(call.id, call.name, call.args))
          /\ d0 = Midway(t, h, o, "stop", k) /\ d1 = Midway(t, h, x, "stop", k)
          /\ d2 = Midway(t, h, y, "stop", k) /\ d3 = Midway(t, z, y, "stop", Yes)
    BY Zenon
  <1>7. d0 = Midway(t, h, o, "stop", k)
    BY <1>2
  <1>8. d1 = Midway(t, h, x, "stop", k)
    BY <1>2
  <1>9. d2 = Midway(t, h, y, "stop", k)
    BY <1>2
  <1>10. d3 = Midway(t, z, y, "stop", Yes)
    BY <1>2
  <1>11. d0.open = o /\ d1.open = x /\ d2.open = y /\ d2.calls = h
    BY <1>7, <1>8, <1>9, MidwayIs
  <1> DEFINE e1 == [type |-> "added", item |-> b]
             e2 == [type |-> "json", key |-> key, args |-> call.args]
             e3 == [type |-> "done", item |-> e]
  <1>3. d1 = Move("responses", d0, e1)
    <2>2. Models!Put(o, b) = x
      BY <1>1, <1>2, PutsNew
    <2>3. [d0 EXCEPT !.open = x] = d1
      BY <1>7, <1>8, WithOpen
    <2>4. e1.type = "added" /\ e1.item = b
      OBVIOUS
    <2> HIDE DEF e1
    <2>5. Models!ResponsesStep(d0, e1) = d1
      BY <1>11, <2>2, <2>3, <2>4 DEF Models!ResponsesStep
    <2> QED BY <2>5 DEF Move, Models!Step
  <1>4. d2 = Move("responses", d1, e2)
    <2>2. Models!Extended(x, key, call.args) = y
      <3>1. PICK id, name, args : id = call.id /\ name = call.name /\ args = call.args
        OBVIOUS
      <3>2. b = Entry(key, id, name, <<>>) /\ e = Entry(key, id, name, args) /\ <<>> \o args = args
        BY <1>0, <3>1
      <3>4. Models!Extended(Append(o, b), key, args) = Append(o, e)
        BY <1>1, <3>2, ExtendsFirst
      <3> QED BY <1>2, <3>1, <3>4
    <2>5. [d1 EXCEPT !.open = y] = d2
      BY <1>8, <1>9, WithOpen
    <2>6. e2.type = "json" /\ e2.key = key /\ e2.args = call.args
      OBVIOUS
    <2> HIDE DEF e2
    <2>7. Models!ResponsesStep(d1, e2) = d2
      BY <1>11, <2>2, <2>5, <2>6 DEF Models!ResponsesStep
    <2> QED BY <2>7 DEF Move, Models!Step
  <1>5. d3 = Move("responses", d2, e3)
    <2>4. Models!Put(y, e) = y
      BY <1>1, <1>2, LastOpen
    <2>5. [d2 EXCEPT !.open = y, !.called = Yes, !.calls = z] = d3
      <3>1. [d2 EXCEPT !.open = y, !.called = Yes, !.calls = z]
               = [[[d2 EXCEPT !.open = y] EXCEPT !.called = Yes] EXCEPT !.calls = z]
        OBVIOUS
      <3>2. PICK c1 : c1 = Midway(t, h, y, "stop", Yes)
        OBVIOUS
      <3>3. [d2 EXCEPT !.open = y] = d2
        BY <1>9, WithOpen
      <3>4. [d2 EXCEPT !.called = Yes] = c1
        BY <1>9, <3>2, WithCalled
      <3>5. [c1 EXCEPT !.calls = z] = d3
        BY <1>10, <3>2, WithCalls
      <3> QED BY <3>1, <3>3, <3>4, <3>5, Zenon
    <2>6. e3.type = "done" /\ e3.item = e
      OBVIOUS
    <2> HIDE DEF e3
    <2>8. [d2 EXCEPT !.open = y, !.called = TRUE, !.calls = z] = d3
      BY <2>5 DEF Yes
    <2>7. Models!ResponsesStep(d2, e3) = d3
      BY <1>1, <1>2, <1>11, <2>4, <2>8, <2>6, Zenon DEF Models!ResponsesStep
    <2> QED BY <2>7 DEF Move, Models!Step
  <1> HIDE DEF e1, e2, e3
  <1>6. Runs("responses", d0, <<e1, e2, e3>>, d3)
    BY <1>3, <1>4, <1>5, RunsThree
  <1> QED BY <1>0, <1>2, <1>6 DEF e1, e2, e3

\* Blocks of events, each a run on from the one before.
LEMMA BlocksRun ==
  ASSUME NEW how, NEW E, NEW blocks \in Seq(Seq(E)), NEW F,
         \A i \in 1..Len(blocks) : Runs(how, F[i - 1], blocks[i], F[i])
  PROVE  Models!FlattenSeq(blocks) \in Seq(E) /\ Runs(how, F[0], Models!FlattenSeq(blocks), F[Len(blocks)])
  <1>1. PICK z : Runs("join", <<>>, blocks, z)
    BY RunsAll, Zenon
  <1>2. Models!FlattenSeq(blocks) = z
    BY <1>1, FlattenJoins
  <1> QED BY <1>1, <1>2, RunsJoined, Zenon

\* What stands before an entry has its key free.
LEMMA FrontIsKeyed ==
  ASSUME NEW A, NEW z \in Seq(A), KeysDiffer(z), NEW i \in 1..Len(z)
  PROVE  KeysDiffer(SubSeq(z, 1, i - 1)) /\ IsFree(SubSeq(z, 1, i - 1), z[i].key)
  <1> DEFINE y == SubSeq(z, 1, i - 1)
  <1>1. /\ DOMAIN y = 1..(i - 1) /\ \A k \in 1..(i - 1) : y[k] = z[k]
        /\ \A k \in 1..(i - 1) : k \in DOMAIN z /\ k # i
        /\ i \in DOMAIN z
    OBVIOUS
  <1> HIDE DEF y
  <1>2. KeysDiffer(y)
    BY <1>1 DEF KeysDiffer
  <1>3. IsFree(y, z[i].key)
    BY <1>1 DEF KeysDiffer, IsFree
  <1> QED BY <1>2, <1>3 DEF y

\* The calls of an answer, and the items they are given in.
Whole(answer) ==
    [i \in 1..Len(answer.calls) |->
        Models!ToolCall(answer.calls[i].id, answer.calls[i].name, answer.calls[i].args)]
Items(answer) ==
    [i \in 1..Len(answer.calls) |->
        Entry(i, answer.calls[i].id, answer.calls[i].name, answer.calls[i].args)]

\* The calls and the items of an answer are sequences as long as its calls.
LEMMA ItemsAre ==
  ASSUME NEW C, NEW answer, IsAnswer(answer, C)
  PROVE  /\ Len(answer.calls) \in Nat
         /\ KeysDiffer(Items(answer))
         /\ \E A : Whole(answer) \in Seq(A) /\ Len(Whole(answer)) = Len(answer.calls)
         /\ \E A : Items(answer) \in Seq(A) /\ Len(Items(answer)) = Len(answer.calls)
  <1> DEFINE n == Len(answer.calls)
             A == {Whole(answer)[i] : i \in 1..n}
             B == {Items(answer)[i] : i \in 1..n}
  <1>1. n \in Nat
    BY DEF IsAnswer
  <1>2. Whole(answer) \in [1..n -> A] /\ Items(answer) \in [1..n -> B]
    BY DEF Whole, Items
  <1>3. DOMAIN Items(answer) = 1..n /\ \A i \in 1..n : Items(answer)[i].key = i
    BY EntryIs DEF Items
  <1> HIDE DEF A, B, n
  <1>4. KeysDiffer(Items(answer))
    BY <1>3 DEF KeysDiffer
  <1>5. /\ Whole(answer) \in Seq(A) /\ Len(Whole(answer)) = n
        /\ Items(answer) \in Seq(B) /\ Len(Items(answer)) = n
    BY <1>1, <1>2, FunIsSeq
  <1> QED BY <1>1, <1>4, <1>5 DEF n

\* The arguments of a call are its two fragments.
LEMMA ArgsAre ==
  ASSUME NEW C, NEW answer, IsAnswer(answer, C), NEW i \in 1..Len(answer.calls)
  PROVE  LET c == answer.calls[i] IN
         /\ c.id # None /\ c.name # None /\ c.args = <<c.args[1], c.args[2]>>
         /\ <<>> \o c.args = c.args
         /\ <<>> \o <<c.args[1]>> = <<c.args[1]>>
         /\ <<c.args[1]>> \o <<c.args[2]>> = c.args
  <1> DEFINE c == answer.calls[i]
             T == {c.args[1], c.args[2]}
  <1>1. c.id # None /\ c.name # None /\ c.args = <<c.args[1], c.args[2]>>
    BY DEF IsAnswer
  <1>2. PICK a, b : a = c.args[1] /\ b = c.args[2]
    BY Zenon
  <1>3. <<a>> \o <<b>> = <<a, b>> /\ <<>> \o <<a>> = <<a>> /\ <<>> \o <<a, b>> = <<a, b>>
    <2>1. <<a>> \in Seq({a, b}) /\ <<b>> \in Seq({a, b}) /\ <<a, b>> \in Seq({a, b})
      OBVIOUS
    <2>2. <<a>> \o <<b>> \in Seq({a, b}) /\ Len(<<a>> \o <<b>>) = 2
             /\ (<<a>> \o <<b>>)[1] = a /\ (<<a>> \o <<b>>)[2] = b
      BY <2>1
    <2>3. \A x \in 1..2 : (<<a>> \o <<b>>)[x] = <<a, b>>[x]
      <3>1. \A x \in 1..2 : x = 1 \/ x = 2
        OBVIOUS
      <3> QED BY <2>2, <3>1
    <2>4. Len(<<a, b>>) = 2
      OBVIOUS
    <2>5. <<a>> \o <<b>> = <<a, b>>
      BY <2>1, <2>2, <2>3, <2>4, SameSeq, Zenon
    <2>6. \A z \in Seq({a, b}) : <<>> \o z = z
      OBVIOUS
    <2> QED BY <2>1, <2>5, <2>6
  <1> QED BY <1>1, <1>2, <1>3

\* The decoder at the end of a stream of Responses.
LEMMA ResponsesEnds ==
  ASSUME NEW C, NEW answer, IsAnswer(answer, C)
  PROVE  \E k : /\ k = IF answer.calls = <<>> THEN No ELSE Yes
                /\ Ends("responses", Models!ResponsesStream(answer),
                        Midway(Said(answer), Whole(answer), Items(answer), "stop", k))
  <1> DEFINE n == Len(answer.calls)
             has == Whole(answer)
             open == Items(answer)
             begun(i) == Entry(i, answer.calls[i].id, answer.calls[i].name, <<>>)
             e1(i) == [type |-> "added", item |-> begun(i)]
             e2(i) == [type |-> "json", key |-> i, args |-> answer.calls[i].args]
             e3(i) == [type |-> "done", item |-> Entry(i, answer.calls[i].id, answer.calls[i].name, answer.calls[i].args)]
             blocks == [i \in 1..n |-> <<e1(i), e2(i), e3(i)>>]
             first == [type |-> "text", text |-> answer.text]
             last == [type |-> "end", finish |-> "stop"]
             E == {e1(i) : i \in 1..n} \cup {e2(i) : i \in 1..n} \cup {e3(i) : i \in 1..n} \cup {first, last}
             k(i) == IF i = 0 THEN No ELSE Yes
             F == [i \in 0..n |-> Midway(Said(answer), SubSeq(has, 1, i), SubSeq(open, 1, i), "stop", k(i))]
             done == Midway(Said(answer), has, open, "stop", k(n))
  <1>0. n \in Nat /\ DOMAIN answer.calls = 1..n /\ (n = 0 <=> answer.calls = <<>>)
    BY DEF IsAnswer
  <1>1. PICK A, B : has \in Seq(A) /\ open \in Seq(B) /\ Len(has) = n /\ Len(open) = n
    BY ItemsAre
  <1>2. Models!ResponsesStream(answer) = <<first>> \o Models!FlattenSeq(blocks) \o <<last>>
    BY <1>0 DEF Models!ResponsesStream, Models!Item, Entry
  <1>3. blocks \in Seq(Seq(E)) /\ Len(blocks) = n /\ <<first>> \in Seq(E) /\ <<last>> \in Seq(E)
    <2>1. \A i \in 1..n : e1(i) \in E /\ e2(i) \in E /\ e3(i) \in E
      OBVIOUS
    <2>2. first \in E /\ last \in E
      OBVIOUS
    <2> HIDE DEF E, first, last, e1, e2, e3, n
    <2>3. blocks \in [1..n -> Seq(E)]
      BY <2>1
    <2> HIDE DEF blocks
    <2>4. blocks \in Seq(Seq(E)) /\ Len(blocks) = n
      BY <1>0, <2>3, FunIsSeq
    <2> QED BY <2>2, <2>4
  <1>4. Move("responses", Models!Decoder, first) = F[0]
    <2>0. 0 \in 0..n /\ SubSeq(has, 1, 0) = <<>> /\ SubSeq(open, 1, 0) = <<>>
      BY <1>0, <1>1, OneLonger
    <2>1. F[0] = Midway(Said(answer), <<>>, <<>>, "stop", No)
      BY <2>0, Zenon
    <2>2. Models!Decoder = Midway(<<>>, <<>>, <<>>, "stop", No)
      BY DEF Models!Decoder, Midway, No
    <2>3. Models!Saying(Models!Decoder, answer.text) = Midway(Said(answer), <<>>, <<>>, "stop", No)
      BY <2>2, SayingIs
    <2>4. first.type = "text" /\ first.text = answer.text
      OBVIOUS
    <2> HIDE DEF first, F
    <2> QED BY <2>1, <2>3, <2>4 DEF Move, Models!Step, Models!ResponsesStep
  <1>5. Move("responses", F[n], last) = done
    <2>0. n \in 0..n /\ SubSeq(has, 1, n) = has /\ SubSeq(open, 1, n) = open
      BY <1>0, <1>1, OneLonger
    <2>1. F[n] = done
      BY <2>0
    <2>2. PICK d, c : c = k(n) /\ d = Midway(Said(answer), has, open, "stop", c)
      OBVIOUS
    <2>3. Models!Ending(d, "stop") = d
      <3>1. [d EXCEPT !.finish = "stop"] = d
        BY <2>2, WithFinish
      <3> QED BY <3>1 DEF Models!Ending
    <2>4. last.type = "end" /\ last.finish = "stop"
      OBVIOUS
    <2>5. done = d
      BY <2>2
    <2> HIDE DEF last, F, done
    <2> QED BY <2>1, <2>3, <2>4, <2>5 DEF Move, Models!Step, Models!ResponsesStep
  <1>6. ASSUME NEW i \in 1..n PROVE Runs("responses", F[i - 1], blocks[i], F[i])
    <2>1. i \in 0..n /\ i - 1 \in 0..n /\ i # 0
      BY <1>0
    <2>2. /\ F[i - 1] = Midway(Said(answer), SubSeq(has, 1, i - 1), SubSeq(open, 1, i - 1), "stop", k(i - 1))
          /\ F[i] = Midway(Said(answer), SubSeq(has, 1, i), SubSeq(open, 1, i), "stop", Yes)
          /\ blocks[i] = <<e1(i), e2(i), e3(i)>>
      BY <2>1
    <2>3. PICK t, h, o, c, call :
            /\ t = Said(answer) /\ h = SubSeq(has, 1, i - 1) /\ o = SubSeq(open, 1, i - 1)
            /\ c = k(i - 1) /\ call = answer.calls[i]
      BY Zenon
    <2>4. PICK b, e : b = Entry(i, call.id, call.name, <<>>) /\ e = Entry(i, call.id, call.name, call.args)
      OBVIOUS
    <2> DEFINE T == B \cup {b, e}
    <2>5. o \in Seq(T) /\ KeysDiffer(o) /\ IsFree(o, i)
      <3>1. i \in 1..Len(open) /\ open[i].key = i
        BY <1>1, EntryIs DEF Items
      <3>2. KeysDiffer(open)
        BY ItemsAre
      <3>3. KeysDiffer(SubSeq(open, 1, i - 1)) /\ IsFree(SubSeq(open, 1, i - 1), i)
        BY <1>1, <3>1, <3>2, FrontIsKeyed
      <3>4. i - 1 \in 0..Len(open)
        BY <1>1, <2>1
      <3> HIDE DEF has, open
      <3>5. o \in Seq(B)
        BY <1>1, <2>3, <3>4, OneLonger
      <3>6. o \in Seq(T)
        BY <3>5
      <3> QED BY <2>3, <3>3, <3>6
    <2>6. b \in T /\ e \in T /\ call.name # None /\ <<>> \o call.args = call.args
      <3>1. call.name # None /\ <<>> \o call.args = call.args
        BY <2>3, ArgsAre, Zenon
      <3> QED BY <3>1
    <2>7. /\ SubSeq(has, 1, i) = Append(h, Models!ToolCall(call.id, call.name, call.args))
          /\ SubSeq(open, 1, i) = Append(o, e)
      <3>1. i \in 1..Len(has) /\ i \in 1..Len(open)
        BY <1>1
      <3>2. has[i] = Models!ToolCall(call.id, call.name, call.args) /\ open[i] = e
        BY <2>3, <2>4 DEF Whole, Items
      <3> HIDE DEF has, open
      <3>3. SubSeq(has, 1, i) = Append(h, has[i]) /\ SubSeq(open, 1, i) = Append(o, open[i])
        BY <1>1, <2>3, <3>1, OneLonger
      <3> QED BY <3>2, <3>3
    <2> HIDE DEF F, blocks, has, open, T, k
    <2>8. Runs("responses", Midway(t, h, o, "stop", c),
              <<[type |-> "added", item |-> Entry(i, call.id, call.name, <<>>)],
                [type |-> "json", key |-> i, args |-> call.args],
                [type |-> "done", item |-> Entry(i, call.id, call.name, call.args)]>>,
              Midway(t, Append(h, Models!ToolCall(call.id, call.name, call.args)),
                     Append(o, Entry(i, call.id, call.name, call.args)), "stop", Yes))
      BY <2>4, <2>5, <2>6, ResponsesTakes
    <2> QED BY <2>2, <2>3, <2>4, <2>7, <2>8, Zenon
  <1> HIDE DEF F, blocks, first, last, E
  <1>7. Models!FlattenSeq(blocks) \in Seq(E) /\ Runs("responses", F[0], Models!FlattenSeq(blocks), F[n])
    BY <1>3, <1>6, BlocksRun, Zenon
  <1>8. Runs("responses", Models!Decoder, <<first>>, F[0]) /\ Runs("responses", F[n], <<last>>, done)
    BY <1>4, <1>5, RunsOne
  <1>9. Ends("responses", <<first>> \o Models!FlattenSeq(blocks) \o <<last>>, done)
    <2>1. Len(<<first>>) > 0 /\ Len(<<last>>) > 0
      OBVIOUS
    <2> QED BY <1>3, <1>7, <1>8, <2>1, EndsSo, Zenon
  <1> QED BY <1>0, <1>2, <1>9, Zenon

-----------------------------------------------------------------------------
(* ModelStream: Anthropic.                                                   *)

\* The four events of a tool_use block give its call.
LEMMA AnthropicTakes ==
  ASSUME NEW A, NEW t, NEW h, NEW o \in Seq(A), NEW key, NEW id, NEW name, NEW args, NEW p, NEW q,
         NEW b \in A, NEW c \in A, NEW e \in A,
         b = Entry(key, id, name, <<>>), c = Entry(key, id, name, p), e = Entry(key, id, name, args),
         KeysDiffer(o), IsFree(o, key), name # None, <<>> \o p = p, p \o q = args
  PROVE  Runs("anthropic", Midway(t, h, o, "stop", No),
              <<[type |-> "start", block |-> b], [type |-> "json", key |-> key, args |-> p],
                [type |-> "json", key |-> key, args |-> q], [type |-> "stop", key |-> key]>>,
              Midway(t, Append(h, Models!ToolCall(id, name, args)), Append(o, e), "stop", No))
  <1>1. /\ b.key = key /\ c.key = key /\ e.key = key /\ e.id = id /\ e.name = name /\ e.args = args
    BY EntryIs
  <1>2. PICK d0, d1, d2, d3, d4, x, y, z, new :
          /\ x = Append(o, b) /\ y = Append(o, c) /\ z = Append(o, e)
          /\ new = Append(h, Models!ToolCall(id, name, args))
          /\ d0 = Midway(t, h, o, "stop", No) /\ d1 = Midway(t, h, x, "stop", No)
          /\ d2 = Midway(t, h, y, "stop", No) /\ d3 = Midway(t, h, z, "stop", No)
          /\ d4 = Midway(t, new, z, "stop", No)
    BY ZenonT(40)
  <1>3. d0 = Midway(t, h, o, "stop", No)
    BY <1>2
  <1>4. d1 = Midway(t, h, x, "stop", No)
    BY <1>2
  <1>5. d2 = Midway(t, h, y, "stop", No)
    BY <1>2
  <1>6. d3 = Midway(t, h, z, "stop", No)
    BY <1>2
  <1>7. d4 = Midway(t, new, z, "stop", No)
    BY <1>2
  <1>8. d0.open = o /\ d1.open = x /\ d2.open = y /\ d3.open = z /\ d3.calls = h
    BY <1>3, <1>4, <1>5, <1>6, MidwayIs
  <1> DEFINE e1 == [type |-> "start", block |-> b]
             e2 == [type |-> "json", key |-> key, args |-> p]
             e3 == [type |-> "json", key |-> key, args |-> q]
             e4 == [type |-> "stop", key |-> key]
  <1>9. d1 = Move("anthropic", d0, e1)
    <2>1. Models!Put(o, b) = x
      BY <1>1, <1>2, PutsNew
    <2>2. [d0 EXCEPT !.open = x] = d1
      BY <1>3, <1>4, WithOpen
    <2>3. e1.type = "start" /\ e1.block = b
      OBVIOUS
    <2> HIDE DEF e1
    <2>4. Models!AnthropicStep(d0, e1) = d1
      BY <1>8, <2>1, <2>2, <2>3 DEF Models!AnthropicStep
    <2> QED BY <2>4 DEF Move, Models!Step
  <1>10. d2 = Move("anthropic", d1, e2)
    <2>1. Models!Extended(x, key, p) = y
      <3>3. Models!Extended(Append(o, b), key, p) = Append(o, c)
        BY ExtendsFirst
      <3> QED BY <1>2, <3>3
    <2>2. [d1 EXCEPT !.open = y] = d2
      BY <1>4, <1>5, WithOpen
    <2>3. e2.type = "json" /\ e2.key = key /\ e2.args = p
      OBVIOUS
    <2> HIDE DEF e2
    <2>4. Models!AnthropicStep(d1, e2) = d2
      BY <1>8, <2>1, <2>2, <2>3 DEF Models!AnthropicStep
    <2> QED BY <2>4 DEF Move, Models!Step
  <1>11. d3 = Move("anthropic", d2, e3)
    <2>1. Models!Extended(y, key, q) = z
      <3>1. Models!Extended(Append(o, c), key, q) = Append(o, e)
        BY ExtendsLast, SMTT(30)
      <3> QED BY <1>2, <3>1
    <2>2. [d2 EXCEPT !.open = z] = d3
      BY <1>5, <1>6, WithOpen
    <2>3. e3.type = "json" /\ e3.key = key /\ e3.args = q
      OBVIOUS
    <2> HIDE DEF e3
    <2>4. Models!AnthropicStep(d2, e3) = d3
      BY <1>8, <2>1, <2>2, <2>3 DEF Models!AnthropicStep
    <2> QED BY <2>4 DEF Move, Models!Step
  <1>12. d4 = Move("anthropic", d3, e4)
    <2>1. Models!Get(z, key) = e
      BY <1>1, <1>2, LastOpen
    <2>2. [d3 EXCEPT !.calls = new] = d4
      BY <1>6, <1>7, WithCalls
    <2>3. e4.type = "stop" /\ e4.key = key
      OBVIOUS
    <2> HIDE DEF e4
    <2>4. [d3 EXCEPT !.calls = Append(@, Models!ToolCall(id, name, args))] = d4
      BY <1>2, <1>8, <2>2
    <2>5. Models!AnthropicStep(d3, e4) = d4
      BY <1>1, <1>8, <2>1, <2>3, <2>4 DEF Models!AnthropicStep
    <2> QED BY <2>5 DEF Move, Models!Step
  <1> HIDE DEF e1, e2, e3, e4
  <1>13. Runs("anthropic", d0, <<e1, e2, e3, e4>>, d4)
    BY <1>9, <1>10, <1>11, <1>12, RunsFour
  <1> QED BY <1>2, <1>13 DEF e1, e2, e3, e4

\* The text block stands before the calls.
Parts(answer) ==
    [i \in 1..(Len(answer.calls) + 1) |->
        IF i = 1 THEN Entry(0, None, None, <<>>) ELSE Items(answer)[i - 1]]

\* The blocks of an answer: its text, then its calls.
LEMMA PartsAre ==
  ASSUME NEW C, NEW answer, IsAnswer(answer, C)
  PROVE  /\ KeysDiffer(Parts(answer))
         /\ \E A : Parts(answer) \in Seq(A) /\ Len(Parts(answer)) = Len(answer.calls) + 1
         /\ Parts(answer)[1] = Entry(0, None, None, <<>>)
         /\ \A i \in 1..Len(answer.calls) :
               /\ i + 1 \in 1..(Len(answer.calls) + 1)
               /\ Parts(answer)[i + 1] = Items(answer)[i] /\ Parts(answer)[i + 1].key = i
  <1> DEFINE n == Len(answer.calls)
             parts == Parts(answer)
             A == {parts[i] : i \in 1..(n + 1)}
  <1>1. n \in Nat /\ n + 1 \in Nat
    BY DEF IsAnswer
  <1>2. parts \in [1..(n + 1) -> A]
    BY DEF Parts
  <1>3. \A i \in 1..n : Items(answer)[i].key = i
    BY EntryIs DEF Items
  <1>4. \A i \in 1..n : i + 1 \in 1..(n + 1) /\ i + 1 # 1 /\ (i + 1) - 1 = i
    BY <1>1
  <1>5. 1 \in 1..(n + 1) /\ parts[1] = Entry(0, None, None, <<>>) /\ parts[1].key = 0
    BY <1>1, EntryIs DEF Parts
  <1>6. \A i \in 1..n : parts[i + 1] = Items(answer)[i] /\ parts[i + 1].key = i
    BY <1>3, <1>4 DEF Parts
  <1> HIDE DEF A, parts, n
  <1>7. \A i \in 1..(n + 1) : parts[i].key = i - 1
    <2> SUFFICES ASSUME NEW i \in 1..(n + 1) PROVE parts[i].key = i - 1
      OBVIOUS
    <2>1. CASE i = 1
      BY <1>5, <2>1
    <2>2. CASE i # 1
      <3>1. i - 1 \in 1..n /\ (i - 1) + 1 = i
        BY <1>1, <2>2
      <3> QED BY <1>6, <3>1
    <2> QED BY <2>1, <2>2
  <1>8. KeysDiffer(parts)
    <2>1. DOMAIN parts = 1..(n + 1)
      BY <1>2
    <2> SUFFICES ASSUME NEW j \in 1..(n + 1), NEW i \in 1..(n + 1), parts[j].key = parts[i].key PROVE j = i
      BY <2>1 DEF KeysDiffer
    <2>2. j - 1 = i - 1
      BY <1>7
    <2> QED BY <1>1, <2>2
  <1>9. parts \in Seq(A) /\ Len(parts) = n + 1
    BY <1>1, <1>2, FunIsSeq
  <1> QED BY <1>4, <1>5, <1>6, <1>8, <1>9, Zenon DEF n, parts

\* The text block, first.
LEMMA TextBlockTakes ==
  ASSUME NEW answer, NEW b, b = Entry(0, None, None, <<>>)
  PROVE  Runs("anthropic", Models!Decoder,
              <<[type |-> "start", block |-> b], [type |-> "text", text |-> answer.text],
                [type |-> "stop", key |-> 0]>>,
              Midway(Said(answer), <<>>, <<b>>, "stop", No))
  <1>1. b.key = 0 /\ b.name = None
    BY EntryIs
  <1>2. PICK x : x = <<b>>
    BY Zenon
  <1>3. PICK d0 : d0 = Midway(<<>>, <<>>, <<>>, "stop", No)
    OBVIOUS
  <1>4. PICK d1 : d1 = Midway(<<>>, <<>>, x, "stop", No)
    OBVIOUS
  <1>5. PICK d2 : d2 = Midway(Said(answer), <<>>, x, "stop", No)
    OBVIOUS
  <1>6. Models!Decoder = d0
    BY <1>3 DEF Models!Decoder, Midway, No
  <1>7. d0.open = <<>> /\ d2.open = x
    BY <1>3, <1>5, MidwayIs
  <1> DEFINE e1 == [type |-> "start", block |-> b]
             e2 == [type |-> "text", text |-> answer.text]
             e3 == [type |-> "stop", key |-> 0]
  <1>8. d1 = Move("anthropic", d0, e1)
    <2>1. IsFree(<<>>, b.key)
      BY DEF IsFree
    <2>2. Models!Put(<<>>, b) = Append(<<>>, b)
      BY <2>1, PutsNew, Zenon
    <2>3. Append(<<>>, b) = x
      BY <1>2
    <2>4. [d0 EXCEPT !.open = x] = d1
      BY <1>3, <1>4, WithOpen
    <2>5. e1.type = "start" /\ e1.block = b
      OBVIOUS
    <2> HIDE DEF e1
    <2>6. Models!AnthropicStep(d0, e1) = d1
      BY <1>7, <2>2, <2>3, <2>4, <2>5 DEF Models!AnthropicStep
    <2> QED BY <2>6 DEF Move, Models!Step
  <1>9. d2 = Move("anthropic", d1, e2)
    <2>1. Models!Saying(d1, answer.text) = d2
      BY <1>4, <1>5, SayingIs
    <2>2. e2.type = "text" /\ e2.text = answer.text
      OBVIOUS
    <2> HIDE DEF e2
    <2> QED BY <2>1, <2>2 DEF Move, Models!Step, Models!AnthropicStep
  <1>10. d2 = Move("anthropic", d2, e3)
    <2>1. Models!Get(x, 0) = b
      <3>1. DOMAIN x = 1..1 /\ x[1] = b
        BY <1>2
      <3>2. KeysDiffer(x) /\ 1 \in DOMAIN x
        BY <3>1 DEF KeysDiffer
      <3> QED BY <1>1, <3>1, <3>2, GetsAt
    <2>2. e3.type = "stop" /\ e3.key = 0
      OBVIOUS
    <2> HIDE DEF e3
    <2>3. Models!AnthropicStep(d2, e3) = d2
      BY <1>1, <1>7, <2>1, <2>2 DEF Models!AnthropicStep
    <2> QED BY <2>3 DEF Move, Models!Step
  <1> HIDE DEF e1, e2, e3
  <1>11. Runs("anthropic", d0, <<e1, e2, e3>>, d2)
    BY <1>8, <1>9, <1>10, RunsThree
  <1> QED BY <1>2, <1>5, <1>6, <1>11 DEF e1, e2, e3

AnthropicFinish(answer) == IF answer.calls # <<>> THEN "tool_use" ELSE "end_turn"

\* The decoder at the end of a stream of Anthropic's.
LEMMA AnthropicEnds ==
  ASSUME NEW C, NEW answer, IsAnswer(answer, C)
  PROVE  Ends("anthropic", Models!AnthropicStream(answer),
              Midway(Said(answer), Whole(answer), Parts(answer), AnthropicFinish(answer), No))
  <1> DEFINE n == Len(answer.calls)
             has == Whole(answer)
             parts == Parts(answer)
             begun(i, args) == Entry(i, answer.calls[i].id, answer.calls[i].name, args)
             e1(i) == [type |-> "start", block |-> begun(i, <<>>)]
             e2(i) == [type |-> "json", key |-> i, args |-> <<answer.calls[i].args[1]>>]
             e3(i) == [type |-> "json", key |-> i, args |-> <<answer.calls[i].args[2]>>]
             e4(i) == [type |-> "stop", key |-> i]
             blocks == [i \in 1..n |-> <<e1(i), e2(i), e3(i), e4(i)>>]
             block == Entry(0, None, None, <<>>)
             f1 == [type |-> "start", block |-> block]
             f2 == [type |-> "text", text |-> answer.text]
             f3 == [type |-> "stop", key |-> 0]
             last == [type |-> "end", finish |-> AnthropicFinish(answer)]
             E == {e1(i) : i \in 1..n} \cup {e2(i) : i \in 1..n} \cup {e3(i) : i \in 1..n}
                     \cup {e4(i) : i \in 1..n} \cup {f1, f2, f3, last}
             F == [i \in 0..n |-> Midway(Said(answer), SubSeq(has, 1, i), SubSeq(parts, 1, i + 1), "stop", No)]
             done == Midway(Said(answer), has, parts, AnthropicFinish(answer), No)
  <1>0. n \in Nat /\ DOMAIN answer.calls = 1..n
    BY DEF IsAnswer
  <1>1. PICK A, B : has \in Seq(A) /\ parts \in Seq(B) /\ Len(has) = n /\ Len(parts) = n + 1
    BY ItemsAre, PartsAre
  <1>2. Models!AnthropicStream(answer) = <<f1, f2, f3>> \o Models!FlattenSeq(blocks) \o <<last>>
    BY <1>0 DEF Models!AnthropicStream, Models!Item, Models!TextItem, Entry, AnthropicFinish
  <1>3. blocks \in Seq(Seq(E)) /\ Len(blocks) = n /\ <<f1, f2, f3>> \in Seq(E) /\ <<last>> \in Seq(E)
    <2>1. \A i \in 1..n : e1(i) \in E /\ e2(i) \in E /\ e3(i) \in E /\ e4(i) \in E
      BY Zenon
    <2>2. f1 \in E /\ f2 \in E /\ f3 \in E /\ last \in E
      OBVIOUS
    <2> HIDE DEF E, f1, f2, f3, last, e1, e2, e3, e4, n
    <2>3. blocks \in [1..n -> Seq(E)]
      BY <2>1
    <2> HIDE DEF blocks
    <2>4. blocks \in Seq(Seq(E)) /\ Len(blocks) = n
      BY <1>0, <2>3, FunIsSeq
    <2> QED BY <2>2, <2>4
  <1>4. Runs("anthropic", Models!Decoder, <<f1, f2, f3>>, F[0])
    <2>0. 0 \in 0..n /\ SubSeq(has, 1, 0) = <<>> /\ SubSeq(parts, 1, 0) = <<>> /\ 1 \in 1..Len(parts)
      BY <1>0, <1>1, OneLonger
    <2>1. SubSeq(parts, 1, 1) = <<block>>
      <3>1. parts[1] = block
        BY PartsAre
      <3> HIDE DEF parts
      <3>2. SubSeq(parts, 1, 1) = SubSeq(parts, 1, 1 - 1) \o <<parts[1]>>
        BY <1>1, <2>0, OneLonger
      <3>3. <<>> \o <<parts[1]>> = <<parts[1]>>
        OBVIOUS
      <3>4. SubSeq(parts, 1, 1) = SubSeq(parts, 1, 0) \o <<parts[1]>>
        <4>1. 1 - 1 = 0
          OBVIOUS
        <4> QED BY <3>2, <4>1
      <3> QED BY <2>0, <3>1, <3>3, <3>4, Zenon
    <2>2. F[0] = Midway(Said(answer), <<>>, <<block>>, "stop", No)
      <3>1. F[0] = Midway(Said(answer), SubSeq(has, 1, 0), SubSeq(parts, 1, 0 + 1), "stop", No)
        BY <2>0
      <3>2. 0 + 1 = 1
        OBVIOUS
      <3> HIDE DEF F, block
      <3> QED BY <2>0, <2>1, <3>1, <3>2, Zenon
    <2> HIDE DEF F
    <2> QED BY <2>2, TextBlockTakes
  <1>5. Move("anthropic", F[n], last) = done
    <2>0. n \in 0..n /\ SubSeq(has, 1, n) = has /\ SubSeq(parts, 1, n + 1) = parts
      BY <1>0, <1>1, OneLonger
    <2>1. F[n] = Midway(Said(answer), has, parts, "stop", No)
      BY <2>0, Zenon
    <2>2. PICK d, r : d = Midway(Said(answer), has, parts, "stop", No) /\ r = AnthropicFinish(answer)
      OBVIOUS
    <2>3. Models!Ending(d, r) = done
      <3>1. [d EXCEPT !.finish = r] = Midway(Said(answer), has, parts, r, No)
        BY <2>2, WithFinish
      <3>2. r # None
        BY <2>2, NoneAssumption DEF AnthropicFinish
      <3> QED BY <2>2, <3>1, <3>2 DEF Models!Ending
    <2>4. last.type = "end" /\ last.finish = r
      BY <2>2
    <2> HIDE DEF last, F, done
    <2> QED BY <2>1, <2>2, <2>3, <2>4 DEF Move, Models!Step, Models!AnthropicStep
  <1>6. ASSUME NEW i \in 1..n PROVE Runs("anthropic", F[i - 1], blocks[i], F[i])
    <2>1. i \in 0..n /\ i - 1 \in 0..n /\ (i - 1) + 1 = i /\ i \in 1..(n + 1) /\ i + 1 \in 1..(n + 1)
             /\ (i + 1) - 1 = i /\ i - 1 \in 0..(n + 1) /\ i \in 0..(n + 1)
      BY <1>0
    <2>2. /\ F[i - 1] = Midway(Said(answer), SubSeq(has, 1, i - 1), SubSeq(parts, 1, (i - 1) + 1), "stop", No)
          /\ F[i] = Midway(Said(answer), SubSeq(has, 1, i), SubSeq(parts, 1, i + 1), "stop", No)
          /\ blocks[i] = <<e1(i), e2(i), e3(i), e4(i)>>
      BY <2>1, Zenon
    <2>3. PICK t, h, o, id, name, args, p, q :
            /\ t = Said(answer) /\ h = SubSeq(has, 1, i - 1) /\ o = SubSeq(parts, 1, i)
            /\ id = answer.calls[i].id /\ name = answer.calls[i].name /\ args = answer.calls[i].args
            /\ p = <<answer.calls[i].args[1]>> /\ q = <<answer.calls[i].args[2]>>
      BY Zenon
    <2>4. PICK b, c, e :
            b = Entry(i, id, name, <<>>) /\ c = Entry(i, id, name, p) /\ e = Entry(i, id, name, args)
      OBVIOUS
    <2> DEFINE T == B \cup {b, c, e}
    <2>5. o \in Seq(T) /\ KeysDiffer(o) /\ IsFree(o, i)
      <3>1. i + 1 \in 1..Len(parts) /\ parts[i + 1].key = i
        BY <1>1, <2>1, PartsAre
      <3>2. KeysDiffer(parts)
        BY PartsAre
      <3>3. KeysDiffer(SubSeq(parts, 1, (i + 1) - 1)) /\ IsFree(SubSeq(parts, 1, (i + 1) - 1), i)
        BY <1>1, <3>1, <3>2, FrontIsKeyed
      <3>4. i \in 0..Len(parts)
        BY <1>1, <2>1
      <3> HIDE DEF has, parts
      <3>5. o \in Seq(B)
        BY <1>1, <2>3, <3>4, OneLonger
      <3>6. o \in Seq(T)
        BY <3>5
      <3> QED BY <2>1, <2>3, <3>3, <3>6
    <2>6. /\ b \in T /\ c \in T /\ e \in T
          /\ name # None /\ <<>> \o p = p /\ p \o q = args
      <3>1. name # None /\ <<>> \o p = p /\ p \o q = args
        BY <2>3, ArgsAre, Zenon
      <3> QED BY <3>1
    <2>7. /\ SubSeq(has, 1, i) = Append(h, Models!ToolCall(id, name, args))
          /\ SubSeq(parts, 1, i + 1) = Append(o, e)
      <3>1. i \in 1..Len(has) /\ i + 1 \in 1..Len(parts)
        BY <1>1, <2>1
      <3>2. has[i] = Models!ToolCall(id, name, args)
        BY <2>3 DEF Whole
      <3>3. parts[i + 1] = e
        <4>1. parts[i + 1] = Items(answer)[i]
          BY PartsAre
        <4>2. Items(answer)[i] = e
          BY <2>3, <2>4 DEF Items
        <4> QED BY <4>1, <4>2
      <3> HIDE DEF has, parts
      <3>4. SubSeq(has, 1, i) = Append(h, has[i])
        BY <1>1, <2>3, <3>1, OneLonger
      <3>5. SubSeq(parts, 1, i + 1) = Append(SubSeq(parts, 1, (i + 1) - 1), parts[i + 1])
        BY <1>1, <3>1, OneLonger
      <3> QED BY <2>1, <2>3, <3>2, <3>3, <3>4, <3>5
    <2>9. /\ e1(i) = [type |-> "start", block |-> b] /\ e2(i) = [type |-> "json", key |-> i, args |-> p]
          /\ e3(i) = [type |-> "json", key |-> i, args |-> q] /\ e4(i) = [type |-> "stop", key |-> i]
      BY <2>3, <2>4
    <2> HIDE DEF F, blocks, has, parts, T, e1, e2, e3, e4
    <2>8. Runs("anthropic", Midway(t, h, o, "stop", No),
              <<[type |-> "start", block |-> b], [type |-> "json", key |-> i, args |-> p],
                [type |-> "json", key |-> i, args |-> q], [type |-> "stop", key |-> i]>>,
              Midway(t, Append(h, Models!ToolCall(id, name, args)), Append(o, e), "stop", No))
      BY <2>4, <2>5, <2>6, AnthropicTakes, Zenon
    <2> QED BY <2>1, <2>2, <2>3, <2>7, <2>8, <2>9, Zenon
  <1> HIDE DEF F, blocks, f1, f2, f3, last, E
  <1>7. Models!FlattenSeq(blocks) \in Seq(E) /\ Runs("anthropic", F[0], Models!FlattenSeq(blocks), F[n])
    BY <1>3, <1>6, BlocksRun, Zenon
  <1>8. Runs("anthropic", F[n], <<last>>, done)
    BY <1>5, RunsOne
  <1>9. Ends("anthropic", <<f1, f2, f3>> \o Models!FlattenSeq(blocks) \o <<last>>, done)
    <2>1. Len(<<f1, f2, f3>>) > 0 /\ Len(<<last>>) > 0
      OBVIOUS
    <2> QED BY <1>3, <1>4, <1>7, <1>8, <2>1, EndsSo, Zenon
  <1> QED BY <1>2, <1>9

-----------------------------------------------------------------------------
(* ModelStream: chat completions.                                            *)

\* FlattenSeq undoes the making of one-element sequences.
LEMMA Singles ==
  ASSUME NEW A, NEW z \in Seq(A)
  PROVE  /\ [i \in 1..Len(z) |-> <<z[i]>>] \in Seq(Seq(A))
         /\ Models!FlattenSeq([i \in 1..Len(z) |-> <<z[i]>>]) = z
  <1> DEFINE n == Len(z)
             ss == [i \in 1..n |-> <<z[i]>>]
             f == [i \in 0..n |-> SubSeq(z, 1, i)]
  <1>0. n \in Nat /\ DOMAIN z = 1..n
    OBVIOUS
  <1>1. ss \in Seq(Seq(A)) /\ Len(ss) = n
    <2>1. ss \in [1..n -> Seq(A)]
      OBVIOUS
    <2> HIDE DEF ss
    <2> QED BY <1>0, <2>1, FunIsSeq
  <1>2. f[0] = <<>> /\ f[n] = z
    <2>1. 0 \in 0..n /\ n \in 0..n
      BY <1>0
    <2> QED BY <2>1, OneLonger
  <1>3. ASSUME NEW i \in 1..n PROVE f[i] = f[i - 1] \o ss[i]
    <2>1. i \in 0..n /\ i - 1 \in 0..n
      BY <1>0
    <2>2. f[i] = SubSeq(z, 1, i) /\ f[i - 1] = SubSeq(z, 1, i - 1) /\ ss[i] = <<z[i]>>
      BY <2>1
    <2>3. SubSeq(z, 1, i) = SubSeq(z, 1, i - 1) \o <<z[i]>>
      BY OneLonger
    <2> HIDE DEF f, ss
    <2> QED BY <2>2, <2>3
  <1> HIDE DEF f, ss, n
  <1>4. Runs("join", <<>>, ss, z)
    BY <1>1, <1>2, <1>3, Zenon DEF Runs, Running, Move
  <1>5. Models!FlattenSeq(ss) = z
    BY <1>1, <1>4, FlattenJoins
  <1> QED BY <1>1, <1>5 DEF ss, n

Delta(i, id, name, args) == [index |-> i, id |-> id, name |-> name, args |-> args]

\* The fields of a delta.
LEMMA DeltaIs ==
  ASSUME NEW i, NEW id, NEW name, NEW args
  PROVE  /\ Delta(i, id, name, args).index = i /\ Delta(i, id, name, args).id = id
         /\ Delta(i, id, name, args).name = name /\ Delta(i, id, name, args).args = args
  BY DEF Delta

\* The first delta of a call begins it.
LEMMA MergesNew ==
  ASSUME NEW o, NEW i, NEW id, NEW name, NEW c, c = Delta(i, id, name, <<>>),
         id # None, name # None, IsFree(o, i)
  PROVE  Models!MergeCall(o, c) = Append(o, Entry(i, id, name, <<>>))
  <1>1. PICK b, e : b = Entry(i, None, None, <<>>) /\ e = Entry(i, id, name, <<>>)
    OBVIOUS
  <1>2. Models!Get(o, i) = b
    BY <1>1, GetsNew
  <1>3. b.args = <<>> /\ e.key = i /\ <<>> \o <<>> = <<>>
    BY <1>1, EntryIs
  <1>4. Models!Put(o, e) = Append(o, e)
    BY <1>3, PutsNew
  <1>5. c.index = i /\ c.id = id /\ c.name = name /\ c.args = <<>>
    BY DeltaIs
  <1>6. Models!MergeCall(o, c) = Models!Put(o, Entry(i, id, name, b.args \o <<>>))
    BY <1>2, <1>5, Zenon DEF Models!MergeCall, Entry
  <1> QED BY <1>1, <1>3, <1>4, <1>6

\* A later one, without id and name, extends it.
LEMMA MergesMore ==
  ASSUME NEW o, NEW i, NEW id, NEW name, NEW args, NEW more, NEW new, NEW c, c = Delta(i, None, None, more),
         Models!Get(o, i) = Entry(i, id, name, args), new = args \o more
  PROVE  Models!MergeCall(o, c) = Models!Put(o, Entry(i, id, name, new))
  <1>1. PICK b : b = Entry(i, id, name, args)
    OBVIOUS
  <1>2. b.id = id /\ b.name = name /\ b.args = args
    BY <1>1, EntryIs
  <1>3. c.index = i /\ c.id = None /\ c.name = None /\ c.args = more
    BY DeltaIs
  <1>4. Models!Get(o, i) = b
    BY <1>1
  <1>5. Models!MergeCall(o, c) = Models!Put(o, Entry(i, b.id, b.name, b.args \o more))
    BY <1>3, <1>4 DEF Models!MergeCall, Entry
  <1> QED BY <1>2, <1>5

\* The deltas of one call, one after the other.
LEMMA MergesCall ==
  ASSUME NEW A, NEW o \in Seq(A), KeysDiffer(o), NEW i, IsFree(o, i), NEW id, NEW name, NEW args, NEW p, NEW q,
         NEW b \in A, NEW c \in A, NEW e \in A,
         b = Entry(i, id, name, <<>>), c = Entry(i, id, name, p), e = Entry(i, id, name, args),
         id # None, name # None, <<>> \o p = p, p \o q = args
  PROVE  Runs("merge", o, <<Delta(i, id, name, <<>>), Delta(i, None, None, p), Delta(i, None, None, q)>>,
              Append(o, e))
  <1>1. PICK x, y, z : x = Append(o, b) /\ y = Append(o, c) /\ z = Append(o, e)
    BY Zenon
  <1>2. PICK d1, d2, d3 : /\ d1 = Delta(i, id, name, <<>>) /\ d2 = Delta(i, None, None, p)
                          /\ d3 = Delta(i, None, None, q)
    OBVIOUS
  <1>3. b.key = i /\ c.key = i /\ e.key = i
    BY EntryIs
  <1>4. x = Move("merge", o, d1)
    <2>1. d1 = Delta(i, id, name, <<>>)
      BY <1>2
    <2>2. Models!MergeCall(o, d1) = Append(o, Entry(i, id, name, <<>>))
      BY <2>1, MergesNew
    <2> QED BY <1>1, <2>2 DEF Move
  <1>5. y = Move("merge", x, d2)
    <2>1. Models!Get(x, i) = b /\ Models!Put(x, c) = y
      BY <1>1, <1>3, LastOpen
    <2>2. PICK none, more : none = <<>> /\ more = p
      OBVIOUS
    <2>3. d2 = Delta(i, None, None, more) /\ Models!Get(x, i) = Entry(i, id, name, none) /\ p = none \o more
      BY <1>2, <2>1, <2>2
    <2>4. Models!MergeCall(x, d2) = Models!Put(x, Entry(i, id, name, p))
      BY <2>3, MergesMore, ZenonT(40)
    <2> QED BY <2>1, <2>4 DEF Move
  <1>6. z = Move("merge", y, d3)
    <2>1. Models!Get(y, i) = c /\ Models!Put(y, e) = z
      BY <1>1, <1>3, LastOpen
    <2>2. d3 = Delta(i, None, None, q) /\ Models!Get(y, i) = Entry(i, id, name, p) /\ args = p \o q
      BY <1>2, <2>1
    <2>4. Models!MergeCall(y, d3) = Models!Put(y, Entry(i, id, name, args))
      BY <2>2, MergesMore
    <2> QED BY <2>1, <2>4 DEF Move
  <1>7. Runs("merge", o, <<d1, d2, d3>>, z)
    BY <1>4, <1>5, <1>6, RunsThree
  <1> QED BY <1>1, <1>2, <1>7

\* The deltas of an answer: its calls begun, a fragment of each, all of each.
Begun(answer) ==
    [i \in 1..Len(answer.calls) |-> Delta(i, answer.calls[i].id, answer.calls[i].name, <<>>)]
Fragment(answer, k) ==
    [i \in 1..Len(answer.calls) |-> Delta(i, None, None, <<answer.calls[i].args[k]>>)]
CallByCall(answer) ==
    [i \in 1..Len(answer.calls) |->
        <<Begun(answer)[i], Fragment(answer, 1)[i], Fragment(answer, 2)[i]>>]
Order(answer, inTurn) ==
    IF inTurn THEN Begun(answer) \o Fragment(answer, 1) \o Fragment(answer, 2)
    ELSE Models!FlattenSeq(CallByCall(answer))

\* What came of the arguments of a call with k of its fragments.
Given(answer, i, k) ==
    CASE k = 0 -> <<>> [] k = 1 -> <<answer.calls[i].args[1]>> [] OTHER -> answer.calls[i].args
EntryAt(answer, i, k) == Entry(i, answer.calls[i].id, answer.calls[i].name, Given(answer, i, k))
Deltas(answer) ==
    {Begun(answer)[i] : i \in 1..Len(answer.calls)} \cup {Fragment(answer, 1)[i] : i \in 1..Len(answer.calls)}
        \cup {Fragment(answer, 2)[i] : i \in 1..Len(answer.calls)}

\* The deltas of an answer are sequences as long as its calls.
LEMMA DeltasAre ==
  ASSUME NEW C, NEW answer, IsAnswer(answer, C)
  PROVE  /\ Begun(answer) \in Seq(Deltas(answer)) /\ Len(Begun(answer)) = Len(answer.calls)
         /\ \A k \in 1..2 : /\ Fragment(answer, k) \in Seq(Deltas(answer))
                            /\ Len(Fragment(answer, k)) = Len(answer.calls)
         /\ CallByCall(answer) \in Seq(Seq(Deltas(answer))) /\ Len(CallByCall(answer)) = Len(answer.calls)
  <1> DEFINE n == Len(answer.calls)
             D == Deltas(answer)
  <1>0. n \in Nat
    BY DEF IsAnswer
  <1>1. \A i \in 1..n : Begun(answer)[i] \in D /\ Fragment(answer, 1)[i] \in D /\ Fragment(answer, 2)[i] \in D
    BY DEF Deltas
  <1> HIDE DEF D
  <1>2. Begun(answer) = [i \in 1..n |-> Begun(answer)[i]] /\ \A k \in 1..2 : Fragment(answer, k) = [i \in 1..n |-> Fragment(answer, k)[i]]
    BY DEF Begun, Fragment
  <1>3. \A k \in 1..2 : k = 1 \/ k = 2
    OBVIOUS
  <1>4. Begun(answer) \in [1..n -> D] /\ \A k \in 1..2 : Fragment(answer, k) \in [1..n -> D]
    BY <1>1, <1>2, <1>3, Zenon
  <1>5. CallByCall(answer) \in [1..n -> Seq(D)]
    BY <1>1 DEF CallByCall
  <1> HIDE DEF n
  <1>6. Begun(answer) \in Seq(D) /\ Len(Begun(answer)) = n
    BY <1>0, <1>4, FunIsSeq
  <1>7. CallByCall(answer) \in Seq(Seq(D)) /\ Len(CallByCall(answer)) = n
    BY <1>0, <1>5, FunIsSeq
  <1>8. \A k \in 1..2 : Fragment(answer, k) \in Seq(D) /\ Len(Fragment(answer, k)) = n
    BY <1>0, <1>4, FunIsSeq
  <1> QED BY <1>6, <1>7, <1>8 DEF D, n

\* Each fragment is given behind the ones before.
LEMMA GivenMore ==
  ASSUME NEW C, NEW answer, IsAnswer(answer, C), NEW i \in 1..Len(answer.calls)
  PROVE  /\ Given(answer, i, 0) = <<>> /\ Given(answer, i, 2) = answer.calls[i].args
         /\ Given(answer, i, 1) = Given(answer, i, 0) \o <<answer.calls[i].args[1]>>
         /\ Given(answer, i, 2) = Given(answer, i, 1) \o <<answer.calls[i].args[2]>>
  BY ArgsAre DEF Given

\* In turn: f[j] has one fragment more of the first j calls.
LEMMA FragmentsMerge ==
  ASSUME NEW C, NEW answer, IsAnswer(answer, C), NEW k \in 1..2
  PROVE  Runs("merge", [i \in 1..Len(answer.calls) |-> EntryAt(answer, i, k - 1)], Fragment(answer, k),
              [i \in 1..Len(answer.calls) |-> EntryAt(answer, i, k)])
  <1> DEFINE n == Len(answer.calls)
             at(i, j) == IF i <= j THEN EntryAt(answer, i, k) ELSE EntryAt(answer, i, k - 1)
             f == [j \in 0..n |-> [i \in 1..n |-> at(i, j)]]
             B == {EntryAt(answer, i, k) : i \in 1..n} \cup {EntryAt(answer, i, k - 1) : i \in 1..n}
  <1>0. n \in Nat /\ Len(Fragment(answer, k)) = n
    BY DeltasAre DEF IsAnswer
  <1>1. f[0] = [i \in 1..n |-> EntryAt(answer, i, k - 1)] /\ f[n] = [i \in 1..n |-> EntryAt(answer, i, k)]
    <2>1. 0 \in 0..n /\ n \in 0..n /\ \A i \in 1..n : i <= n /\ ~(i <= 0)
      BY <1>0
    <2> QED BY <2>1, Zenon
  <1>2. ASSUME NEW j \in 1..n PROVE f[j] = Move("merge", f[j - 1], Fragment(answer, k)[j])
    <2>1. j \in 0..n /\ j - 1 \in 0..n /\ ~(j <= j - 1) /\ j <= j
             /\ \A i \in 1..n : i # j => (i <= j <=> i <= j - 1)
      BY <1>0
    <2>2. f[j] = [i \in 1..n |-> at(i, j)] /\ f[j - 1] = [i \in 1..n |-> at(i, j - 1)]
      BY <2>1
    <2>3. PICK o, z : o = f[j - 1] /\ z = f[j]
      BY Zenon
    <2>4. /\ DOMAIN o = 1..n /\ o[j] = EntryAt(answer, j, k - 1)
          /\ z[j] = EntryAt(answer, j, k) /\ z = [i \in 1..n |-> z[i]]
          /\ \A i \in 1..n : i # j => z[i] = o[i]
      BY <2>1, <2>2, <2>3, Zenon
    <2>5. \A i \in 1..n : o[i].key = i
      <3>1. \A i \in 1..n : EntryAt(answer, i, k).key = i /\ EntryAt(answer, i, k - 1).key = i
        BY EntryIs DEF EntryAt
      <3> QED BY <2>2, <2>3, <3>1
    <2>6. o \in Seq(B)
      <3>1. \A i \in 1..n : at(i, j - 1) \in B
        OBVIOUS
      <3> HIDE DEF B
      <3>2. o \in [1..n -> B]
        BY <2>2, <2>3, <3>1
      <3> QED BY <1>0, <3>2, FunIsSeq
    <2>7. KeysDiffer(o)
      BY <2>4, <2>5 DEF KeysDiffer
    <2>8. PICK id, name, args, more, new :
            /\ id = answer.calls[j].id /\ name = answer.calls[j].name
            /\ args = Given(answer, j, k - 1) /\ new = Given(answer, j, k) /\ more = <<answer.calls[j].args[k]>>
      BY Zenon
    <2>9. new = args \o more
      <3>1. CASE k = 1
        <4>1. args = Given(answer, j, 0) /\ new = Given(answer, j, 1) /\ more = <<answer.calls[j].args[1]>>
          BY <2>8, <3>1
        <4> QED BY <4>1, GivenMore, Zenon
      <3>2. CASE k = 2
        <4>1. args = Given(answer, j, 1) /\ new = Given(answer, j, 2) /\ more = <<answer.calls[j].args[2]>>
          BY <2>8, <3>2
        <4> QED BY <4>1, GivenMore, Zenon
      <3> QED BY <3>1, <3>2
    <2>10. PICK c : c = Fragment(answer, k)[j]
      OBVIOUS
    <2>11. c = Delta(j, None, None, more)
      BY <2>8, <2>10 DEF Fragment
    <2>12. PICK e : e = EntryAt(answer, j, k)
      OBVIOUS
    <2>13. e = Entry(j, id, name, new) /\ e.key = j /\ o[j] = Entry(j, id, name, args)
      BY <2>4, <2>8, <2>12, EntryIs DEF EntryAt
    <2> HIDE DEF f, n, B
    <2>14. Models!Get(o, j) = o[j]
      BY <2>4, <2>5, <2>7, GetsAt, ZenonT(40)
    <2>15. Models!MergeCall(o, c) = Models!Put(o, Entry(j, id, name, new))
      <3>1. Models!Get(o, j) = Entry(j, id, name, args)
        BY <2>13, <2>14
      <3> QED BY <2>9, <2>11, <3>1, MergesMore, Zenon
    <2>16. Models!Put(o, e) = [o EXCEPT ![j] = e]
      <3>1. j \in DOMAIN o /\ o[j].key = e.key
        BY <2>4, <2>5, <2>13
      <3> QED BY <2>6, <2>7, <3>1, PutsAt
    <2>17. [o EXCEPT ![j] = e] = z
      <3>1. [o EXCEPT ![j] = e] = [i \in DOMAIN o |-> IF i = j THEN e ELSE o[i]]
        OBVIOUS
      <3>2. \A i \in 1..n : (IF i = j THEN e ELSE o[i]) = z[i]
        BY <2>4, <2>12
      <3> QED BY <2>4, <3>1, <3>2, Zenon
    <2> QED BY <2>3, <2>10, <2>13, <2>15, <2>16, <2>17 DEF Move
  <1> HIDE DEF f
  <1>3. Running(f, "merge", Fragment(answer, k), n)
    BY <1>2 DEF Running
  <1> QED BY <1>0, <1>1, <1>3, Zenon DEF Runs

\* In turn: the first deltas begin the calls, one after the other.
LEMMA BegunMerge ==
  ASSUME NEW C, NEW answer, IsAnswer(answer, C)
  PROVE  Runs("merge", <<>>, Begun(answer), [i \in 1..Len(answer.calls) |-> EntryAt(answer, i, 0)])
  <1> DEFINE n == Len(answer.calls)
             z == [i \in 1..n |-> EntryAt(answer, i, 0)]
             B == {EntryAt(answer, i, 0) : i \in 1..n}
             f == [j \in 0..n |-> SubSeq(z, 1, j)]
  <1>0. n \in Nat /\ Len(Begun(answer)) = n
    BY DeltasAre, SMTT(30) DEF IsAnswer
  <1>1. z \in Seq(B) /\ Len(z) = n /\ DOMAIN z = 1..n
    <2>1. z \in [1..n -> B]
      OBVIOUS
    <2> HIDE DEF B, z
    <2> QED BY <1>0, <2>1, FunIsSeq
  <1>2. KeysDiffer(z) /\ \A i \in 1..n : z[i].key = i
    <2>1. \A i \in 1..n : z[i].key = i
      BY EntryIs DEF EntryAt
    <2> HIDE DEF z
    <2> QED BY <1>1, <2>1 DEF KeysDiffer
  <1>3. f[0] = <<>> /\ f[n] = z
    <2>1. 0 \in 0..n /\ n \in 0..n
      BY <1>0
    <2> HIDE DEF z, B
    <2> QED BY <1>1, <2>1, OneLonger
  <1>4. ASSUME NEW j \in 1..n PROVE f[j] = Move("merge", f[j - 1], Begun(answer)[j])
    <2>1. j \in 0..n /\ j - 1 \in 0..n
      BY <1>0
    <2>2. z[j] = EntryAt(answer, j, 0)
      OBVIOUS
    <2>3. PICK o, e, id, name, c :
            /\ o = SubSeq(z, 1, j - 1) /\ e = z[j] /\ id = answer.calls[j].id /\ name = answer.calls[j].name
            /\ c = Begun(answer)[j]
      BY Zenon
    <2>4. c = Delta(j, id, name, <<>>) /\ id # None /\ name # None
      BY <2>3, ArgsAre, Zenon DEF Begun
    <2>5. e = Entry(j, id, name, <<>>)
      BY <2>2, <2>3, GivenMore, Zenon DEF EntryAt
    <2>6. f[j] = SubSeq(z, 1, j) /\ f[j - 1] = SubSeq(z, 1, j - 1)
      BY <2>1
    <2> HIDE DEF f, z, B
    <2>7. IsFree(o, j)
      BY <1>1, <1>2, <2>3, FrontIsKeyed
    <2>8. SubSeq(z, 1, j) = Append(o, e)
      BY <1>1, <2>3, OneLonger
    <2>9. Models!MergeCall(o, c) = Append(o, Entry(j, id, name, <<>>))
      BY <2>4, <2>7, MergesNew
    <2> QED BY <2>3, <2>5, <2>6, <2>8, <2>9, Zenon DEF Move
  <1> HIDE DEF f
  <1>5. Running(f, "merge", Begun(answer), n)
    BY <1>4 DEF Running
  <1> QED BY <1>0, <1>3, <1>5, Zenon DEF Runs

\* Call by call or in turn, the deltas of an answer make its calls.
LEMMA OrderMerges ==
  ASSUME NEW C, NEW answer, IsAnswer(answer, C), NEW inTurn \in BOOLEAN
  PROVE  /\ Order(answer, inTurn) \in Seq(Deltas(answer))
         /\ Runs("merge", <<>>, Order(answer, inTurn), Items(answer))
  <1> DEFINE n == Len(answer.calls)
             D == Deltas(answer)
             open == Items(answer)
  <1>0. n \in Nat
    BY DEF IsAnswer
  <1>1. CASE inTurn
    <2> DEFINE at(k) == [i \in 1..n |-> EntryAt(answer, i, k)]
    <2>1. Runs("merge", <<>>, Begun(answer), at(0))
      BY BegunMerge
    <2>2. \A k \in 1..2 : Runs("merge", at(k - 1), Fragment(answer, k), at(k))
      BY FragmentsMerge, Zenon
    <2>3. at(2) = open
      <3>1. \A i \in 1..n : EntryAt(answer, i, 2) = Entry(i, answer.calls[i].id, answer.calls[i].name, answer.calls[i].args)
        BY GivenMore, Zenon DEF EntryAt
      <3> QED BY <3>1 DEF Items
    <2> HIDE DEF at, open, n
    <2>4. Runs("merge", at(0), Fragment(answer, 1), at(1)) /\ Runs("merge", at(1), Fragment(answer, 2), at(2))
      <3>1. 1 \in 1..2 /\ 2 \in 1..2 /\ 1 - 1 = 0 /\ 2 - 1 = 1
        OBVIOUS
      <3> QED BY <2>2, <3>1
    <2>5. /\ Begun(answer) \in Seq(D) /\ Fragment(answer, 1) \in Seq(D) /\ Fragment(answer, 2) \in Seq(D)
      <3>1. 1 \in 1..2 /\ 2 \in 1..2
        OBVIOUS
      <3> QED BY <3>1, DeltasAre
    <2> HIDE DEF D
    <2>6. /\ Begun(answer) \o Fragment(answer, 1) \o Fragment(answer, 2) \in Seq(D)
          /\ Runs("merge", <<>>, Begun(answer) \o Fragment(answer, 1) \o Fragment(answer, 2), at(2))
      BY <2>1, <2>4, <2>5, InThreeParts
    <2> QED BY <1>1, <2>3, <2>6 DEF Order, D, open
  <1>2. CASE ~inTurn
    <2> DEFINE F == [i \in 0..n |-> SubSeq(open, 1, i)]
               blocks == CallByCall(answer)
    <2>1. PICK B : open \in Seq(B) /\ Len(open) = n
      BY ItemsAre
    <2>2. blocks \in Seq(Seq(D)) /\ Len(blocks) = n
      BY DeltasAre
    <2>3. F[0] = <<>> /\ F[n] = open
      <3>1. 0 \in 0..n /\ n \in 0..n
        BY <1>0
      <3> HIDE DEF open
      <3> QED BY <2>1, <3>1, OneLonger
    <2>4. ASSUME NEW i \in 1..n PROVE Runs("merge", F[i - 1], blocks[i], F[i])
      <3>1. i \in 0..n /\ i - 1 \in 0..n
        BY <1>0
      <3>2. F[i - 1] = SubSeq(open, 1, i - 1) /\ F[i] = SubSeq(open, 1, i)
        BY <3>1
      <3>3. PICK id, name, args, p, q, o :
              /\ id = answer.calls[i].id /\ name = answer.calls[i].name /\ args = answer.calls[i].args
              /\ p = <<answer.calls[i].args[1]>> /\ q = <<answer.calls[i].args[2]>>
              /\ o = SubSeq(open, 1, i - 1)
        BY Zenon
      <3>4. PICK b, c, e : /\ b = Entry(i, id, name, <<>>) /\ c = Entry(i, id, name, p)
                           /\ e = Entry(i, id, name, args)
        OBVIOUS
      <3> DEFINE T == B \cup {b, c, e}
      <3>5. id # None /\ name # None /\ <<>> \o p = p /\ p \o q = args
        BY <3>3, ArgsAre, Zenon
      <3>6. open[i] = e /\ open[i].key = i
        <4>1. open[i] = e
          BY <3>3, <3>4 DEF Items
        <4> QED BY <3>4, <4>1, EntryIs
      <3>7. blocks[i] = <<Delta(i, id, name, <<>>), Delta(i, None, None, p), Delta(i, None, None, q)>>
        BY <3>3 DEF CallByCall, Begun, Fragment
      <3>8. KeysDiffer(open)
        BY ItemsAre
      <3> HIDE DEF open, F, blocks
      <3>9. KeysDiffer(o) /\ IsFree(o, i)
        <4>1. i \in 1..Len(open)
          BY <2>1
        <4>2. KeysDiffer(SubSeq(open, 1, i - 1)) /\ IsFree(SubSeq(open, 1, i - 1), open[i].key)
          BY <2>1, <3>8, <4>1, FrontIsKeyed
        <4> QED BY <3>3, <3>6, <4>2
      <3>10. o \in Seq(T)
        <4>1. o \in Seq(B)
          BY <2>1, <3>1, <3>3, OneLonger
        <4> QED BY <4>1
      <3>11. SubSeq(open, 1, i) = Append(o, e)
        <4>1. SubSeq(open, 1, i) = Append(SubSeq(open, 1, i - 1), open[i])
          BY <2>1, OneLonger
        <4> QED BY <3>3, <3>6, <4>1
      <3>12. b \in T /\ c \in T /\ e \in T
        OBVIOUS
      <3> HIDE DEF T
      <3>13. Runs("merge", o, <<Delta(i, id, name, <<>>), Delta(i, None, None, p), Delta(i, None, None, q)>>,
                  Append(o, e))
        BY <3>4, <3>5, <3>9, <3>10, <3>12, MergesCall, Zenon
      <3> QED BY <3>2, <3>3, <3>7, <3>11, <3>13, Zenon
    <2> HIDE DEF F, blocks, D, open
    <2>5. Models!FlattenSeq(blocks) \in Seq(D) /\ Runs("merge", F[0], Models!FlattenSeq(blocks), F[n])
      BY <2>2, <2>4, BlocksRun, Zenon
    <2> QED BY <1>2, <2>3, <2>5 DEF Order, blocks, D, open
  <1> QED BY <1>1, <1>2

Single(c) == [text |-> None, calls |-> <<c>>, finish |-> None]
\* A decoder whose calls are flushed.
Ended(texts, calls, open, finish) ==
    [texts |-> texts, calls |-> calls, open |-> open, flushed |-> Yes, finish |-> finish, called |-> No]
ChatFinish(answer) == IF Len(answer.calls) > 0 THEN "tool_calls" ELSE "stop"

\* The fields of a decoder whose calls are flushed.
LEMMA EndedIs ==
  ASSUME NEW t, NEW c, NEW o, NEW f
  PROVE  /\ Ended(t, c, o, f).texts = t /\ Ended(t, c, o, f).calls = c
         /\ Ended(t, c, o, f).open = o /\ Ended(t, c, o, f).finish = f
         /\ Ended(t, c, o, f).called = No /\ Ended(t, c, o, f).flushed = Yes
  BY DEF Ended

\* A decoder with the flag set.
LEMMA WithFlushed ==
  ASSUME NEW t, NEW c, NEW o, NEW f, NEW k, NEW x, NEW d, d = Midway(t, c, o, f, k)
  PROVE  [d EXCEPT !.flushed = x]
         = [texts |-> t, calls |-> c, open |-> o, flushed |-> x, finish |-> f, called |-> k]
  BY DEF Midway

\* The same with other calls.
LEMMA WithFlushedCalls ==
  ASSUME NEW t, NEW c, NEW o, NEW f, NEW k, NEW x, NEW y, NEW d,
         d = [texts |-> t, calls |-> c, open |-> o, flushed |-> x, finish |-> f, called |-> k]
  PROVE  [d EXCEPT !.calls = y]
         = [texts |-> t, calls |-> y, open |-> o, flushed |-> x, finish |-> f, called |-> k]
  OBVIOUS

\* The deltas of an answer, each in an event of its own.
LEMMA ChatMerges ==
  ASSUME NEW D, NEW order \in Seq(D), NEW o, Runs("merge", <<>>, order, o), NEW t
  PROVE  Runs("chat", Midway(t, <<>>, <<>>, "stop", No), [i \in DOMAIN order |-> Single(order[i])],
              Midway(t, <<>>, o, "stop", No))
  <1> DEFINE n == Len(order)
             z == [i \in DOMAIN order |-> Single(order[i])]
  <1>0. n \in Nat /\ DOMAIN order = 1..n
    OBVIOUS
  <1>1. PICK f : f[0] = <<>> /\ f[n] = o /\ Running(f, "merge", order, n)
    BY DEF Runs
  <1> DEFINE g == [k \in 0..n |-> Midway(t, <<>>, f[k], "stop", No)]
  <1>2. g[0] = Midway(t, <<>>, <<>>, "stop", No) /\ g[n] = Midway(t, <<>>, o, "stop", No)
    BY <1>0, <1>1
  <1>3. Len(z) = n
    BY <1>0
  <1>4. ASSUME NEW k \in 1..n PROVE g[k] = Move("chat", g[k - 1], z[k])
    <2>1. k \in 0..n /\ k - 1 \in 0..n /\ k \in DOMAIN order
      BY <1>0
    <2>2. PICK c, e, x, y : c = order[k] /\ e = Single(c) /\ x = f[k - 1] /\ y = f[k]
      OBVIOUS
    <2>3. PICK d, u : d = Midway(t, <<>>, x, "stop", No) /\ u = Midway(t, <<>>, y, "stop", No)
      OBVIOUS
    <2>4. g[k - 1] = d /\ g[k] = u /\ z[k] = e
      BY <2>1, <2>2, <2>3
    <2>5. y = Models!MergeCall(x, c)
      BY <1>1, <2>2 DEF Running, Move
    <2>6. e.text = None /\ e.calls = <<c>> /\ e.finish = None
      BY <2>2 DEF Single
    <2>7. d.open = x
      BY <2>3, MidwayIs
    <2>8. Models!MergeCalls(d.open, <<c>>) = y
      BY <2>5, <2>7, MergeCallsIs, Zenon
    <2>9. [d EXCEPT !.open = y] = u
      BY <2>3, WithOpen
    <2>10. Models!Ending(Models!Saying(d, None), None) = d
      BY DEF Models!Ending, Models!Saying
    <2>11. Models!ChatStep(d, e) = [d EXCEPT !.open = Models!MergeCalls(@, <<c>>)]
      BY <2>6, <2>10 DEF Models!ChatStep
    <2>12. Models!ChatStep(d, e) = u
      BY <2>8, <2>9, <2>11
    <2> QED BY <2>4, <2>12 DEF Move, Models!Step
  <1> HIDE DEF g, z
  <1>5. Running(g, "chat", z, n)
    BY <1>4 DEF Running
  <1> QED BY <1>2, <1>3, <1>5, Zenon DEF Runs, z

\* Every item of an answer is complete.
LEMMA Flushes ==
  ASSUME NEW C, NEW answer, IsAnswer(answer, C), NEW t, NEW f
  PROVE  /\ Models!FlushTools(Midway(t, <<>>, Items(answer), f, No))
              = Ended(t, Whole(answer), Items(answer), f)
         /\ Models!FlushTools(Ended(t, Whole(answer), Items(answer), f))
              = Ended(t, Whole(answer), Items(answer), f)
  <1> DEFINE n == Len(answer.calls)
  <1>1. PICK has, open : has = Whole(answer) /\ open = Items(answer)
    OBVIOUS
  <1>2. PICK A : has \in Seq(A) /\ Len(has) = n
    BY <1>1, ItemsAre
  <1>3. [i \in DOMAIN open |-> IF Models!Complete(open[i])
                               THEN <<Models!ToolCall(open[i].id, open[i].name, open[i].args)>> ELSE <<>>]
        = [i \in 1..n |-> <<has[i]>>]
    <2>1. DOMAIN open = 1..n
      BY <1>1 DEF Items
    <2>2. ASSUME NEW i \in 1..n
          PROVE  /\ Models!Complete(open[i])
                 /\ Models!ToolCall(open[i].id, open[i].name, open[i].args) = has[i]
      <3>1. open[i] = Entry(i, answer.calls[i].id, answer.calls[i].name, answer.calls[i].args)
        BY <1>1 DEF Items
      <3>2. /\ open[i].id = answer.calls[i].id /\ open[i].name = answer.calls[i].name
            /\ open[i].args = answer.calls[i].args
        BY <3>1, EntryIs
      <3>3. answer.calls[i].id # None /\ answer.calls[i].name # None
        BY ArgsAre, Zenon
      <3> QED BY <1>1, <3>2, <3>3 DEF Models!Complete, Whole
    <2> HIDE DEF n
    <2> QED BY <2>1, <2>2
  <1>4. Models!FlattenSeq([i \in 1..n |-> <<has[i]>>]) = has
    BY <1>2, Singles
  <1>5. <<>> \o has = has
    BY <1>2
  <1>6. PICK d, e : d = Midway(t, <<>>, open, f, No) /\ e = Ended(t, has, open, f)
    OBVIOUS
  <1>7. ~d.flushed /\ d.open = open /\ d.calls = <<>>
    <2>1. d = Midway(t, <<>>, open, f, No)
      BY <1>6
    <2>2. d.flushed = No /\ d.open = open /\ d.calls = <<>>
      BY <2>1, MidwayIs
    <2> QED BY <2>2 DEF No
  <1>8. Models!FlushTools(d) = e
    <2>1. [d EXCEPT !.flushed = Yes, !.calls = has] = e
      <3>1. PICK none : d = Midway(t, none, open, f, No)
        BY <1>6
      <3>2. PICK x : x = [texts |-> t, calls |-> none, open |-> open, flushed |-> Yes, finish |-> f,
                          called |-> No]
        BY Zenon
      <3>3. [d EXCEPT !.flushed = Yes, !.calls = has] = [[d EXCEPT !.flushed = Yes] EXCEPT !.calls = has]
        OBVIOUS
      <3>4. [d EXCEPT !.flushed = Yes] = x
        BY <3>1, <3>2, WithFlushed
      <3>5. [x EXCEPT !.calls = has] = Ended(t, has, open, f)
        BY <3>2, WithFlushedCalls DEF Ended
      <3> QED BY <1>6, <3>3, <3>4, <3>5, Zenon
    <2>2. [d EXCEPT !.flushed = TRUE, !.calls = has] = e
      BY <2>1 DEF Yes
    <2>3. PICK all : all = Models!FlattenSeq([i \in DOMAIN open |-> IF Models!Complete(open[i])
                               THEN <<Models!ToolCall(open[i].id, open[i].name, open[i].args)>> ELSE <<>>])
      BY Zenon
    <2>4. all = has
      BY <1>3, <1>4, <2>3, Zenon
    <2>5. Models!FlushTools(d) = [d EXCEPT !.flushed = TRUE, !.calls = @ \o all]
      BY <1>7, <2>3 DEF Models!FlushTools
    <2> QED BY <1>5, <1>7, <2>2, <2>4, <2>5
  <1>9. Models!FlushTools(e) = e
    <2>1. e.flushed
      BY <1>6, EndedIs, Zenon DEF Yes
    <2> QED BY <2>1 DEF Models!FlushTools
  <1> QED BY <1>1, <1>6, <1>8, <1>9

\* The decoder at the end of a stream of chat completions, flushed.
LEMMA ChatEnds ==
  ASSUME NEW C, NEW answer, IsAnswer(answer, C), NEW inTurn \in BOOLEAN
  PROVE  \E d : /\ Ends("chat", Models!ChatStream(answer, inTurn), d)
                /\ Models!FlushTools(d)
                     = Ended(Said(answer), Whole(answer), Items(answer), ChatFinish(answer))
  <1> DEFINE n == Len(answer.calls)
             open == Items(answer)
             order == Order(answer, inTurn)
             mid == [i \in DOMAIN order |-> Single(order[i])]
             first == [text |-> answer.text, calls |-> <<>>, finish |-> None]
             last == [text |-> None, calls |-> <<>>, finish |-> ChatFinish(answer)]
             E == {mid[i] : i \in DOMAIN mid} \cup {first, last}
             u0 == Midway(Said(answer), <<>>, <<>>, "stop", No)
             u == Midway(Said(answer), <<>>, open, "stop", No)
             v == Move("chat", u, last)
  <1>0. n \in Nat
    BY DEF IsAnswer
  <1>1. order \in Seq(Deltas(answer)) /\ Runs("merge", <<>>, order, open)
    BY OrderMerges
  <1>2. Models!ChatStream(answer, inTurn) = <<first>> \o mid \o <<last>>
    BY DEF Models!ChatStream, Models!ChatEvent, Models!CallDelta, Order, CallByCall, Begun, Fragment, Delta,
           Single, ChatFinish
  <1>3. mid \in Seq(E) /\ <<first>> \in Seq(E) /\ <<last>> \in Seq(E)
    <2>1. first \in E /\ last \in E
      OBVIOUS
    <2>2. DOMAIN mid = 1..Len(order) /\ Len(order) \in Nat
      BY <1>1
    <2>3. mid \in [1..Len(order) -> E]
      BY <2>2
    <2> HIDE DEF mid, E, first, last, order
    <2>4. mid \in Seq(E)
      BY <2>2, <2>3, FunIsSeq
    <2> QED BY <2>1, <2>4
  <1>4. Move("chat", Models!Decoder, first) = u0
    <2>1. Models!Decoder = Midway(<<>>, <<>>, <<>>, "stop", No)
      BY DEF Models!Decoder, Midway, No
    <2>2. PICK d, t : d = u0 /\ t = Said(answer)
      OBVIOUS
    <2>3. Models!Saying(Models!Decoder, answer.text) = d
      BY <2>1, <2>2, SayingIs
    <2>4. Models!Ending(d, None) = d
      BY DEF Models!Ending
    <2>5. d = Midway(t, <<>>, <<>>, "stop", No)
      BY <2>2
    <2>6. d.open = <<>>
      BY <2>5, MidwayIs
    <2>7. [d EXCEPT !.open = <<>>] = d
      BY <2>5, WithOpen
    <2>8. Models!MergeCalls(<<>>, <<>>) = <<>>
      BY MergeCallsIs
    <2>9. first.text = answer.text /\ first.calls = <<>> /\ first.finish = None
      OBVIOUS
    <2> HIDE DEF first, u0
    <2>10. Models!ChatStep(Models!Decoder, first) = [d EXCEPT !.open = Models!MergeCalls(@, <<>>)]
      BY <2>3, <2>4, <2>9 DEF Models!ChatStep
    <2>11. Models!ChatStep(Models!Decoder, first) = d
      BY <2>6, <2>7, <2>8, <2>10
    <2> QED BY <2>2, <2>11 DEF Move, Models!Step
  <1>5. Runs("chat", u0, mid, u)
    <2> HIDE DEF order, open
    <2> QED BY <1>1, ChatMerges
  <1>6. Models!FlushTools(v) = Ended(Said(answer), Whole(answer), Items(answer), ChatFinish(answer))
    <2>1. PICK d, t, f : d = u /\ t = Said(answer) /\ f = ChatFinish(answer)
      OBVIOUS
    <2>2. PICK w, o : w = Midway(t, <<>>, o, f, No) /\ o = open
      OBVIOUS
    <2>3. d = Midway(t, <<>>, o, "stop", No)
      BY <2>1, <2>2
    <2>4. w = Midway(t, <<>>, o, f, No)
      BY <2>2
    <2>5. last.text = None /\ last.calls = <<>> /\ last.finish = f
      BY <2>1
    <2>6. f # None /\ (Models!NormalizeFinishReason(f) = "tool_calls" <=> f = "tool_calls")
      BY <2>1, NoneAssumption DEF ChatFinish, Models!NormalizeFinishReason
    <2>7. Models!Ending(Models!Saying(d, None), f) = w
      <3>1. [d EXCEPT !.finish = f] = w
        BY <2>3, <2>4, WithFinish
      <3> QED BY <2>6, <3>1 DEF Models!Saying, Models!Ending
    <2>8. w.open = o /\ [w EXCEPT !.open = o] = w
      <3>1. w.open = o
        BY <2>4, MidwayIs
      <3>2. [w EXCEPT !.open = o] = w
        BY <2>4, WithOpen
      <3> QED BY <3>1, <3>2
    <2>9. Models!MergeCalls(o, <<>>) = o
      BY MergeCallsIs
    <2>10. [w EXCEPT !.open = Models!MergeCalls(@, <<>>)] = w
      BY <2>8, <2>9
    <2> HIDE DEF last, open
    <2>11. Models!ChatStep(d, last) = IF f = "tool_calls" THEN Models!FlushTools(w) ELSE w
      BY <2>5, <2>6, <2>7, <2>10 DEF Models!ChatStep
    <2>12. v = IF f = "tool_calls" THEN Models!FlushTools(w) ELSE w
      BY <2>1, <2>11 DEF Move, Models!Step
    <2>13. PICK e : e = Ended(t, Whole(answer), Items(answer), f)
      OBVIOUS
    <2>14. Models!FlushTools(w) = e /\ Models!FlushTools(e) = e
      <3>1. w = Midway(t, <<>>, Items(answer), f, No)
        BY <2>2 DEF open
      <3> QED BY <2>13, <3>1, Flushes
    <2> HIDE DEF v
    <2> QED BY <2>1, <2>12, <2>13, <2>14
  <1> HIDE DEF mid, first, last, E, u0, u, v
  <1>7. Runs("chat", Models!Decoder, <<first>>, u0) /\ Runs("chat", u, <<last>>, v)
    BY <1>4, RunsOne DEF v
  <1>8. Ends("chat", <<first>> \o mid \o <<last>>, v)
    <2>1. Len(<<first>>) > 0 /\ Len(<<last>>) > 0
      OBVIOUS
    <2> QED BY <1>3, <1>5, <1>7, <2>1, EndsSo, Zenon
  <1> QED BY <1>2, <1>6, <1>8, Zenon

-----------------------------------------------------------------------------
(* ModelStream: every adapter.                                               *)

\* The calls and the items a decoder has of an answer at the end.
HasOf(adapter, answer, style) ==
    IF adapter = "gemini" THEN GeminiHas(answer, style) ELSE Whole(answer)
OpenOf(adapter, answer, style) ==
    CASE adapter = "gemini" -> GeminiOpen(answer, style)
      [] adapter = "anthropic" -> Parts(answer)
      [] OTHER -> Items(answer)
IsDecoded(adapter, answer, style, decoded) ==
    /\ decoded.texts = Said(answer)
    /\ decoded.calls = HasOf(adapter, answer, style)
    /\ decoded.saved.adapter = adapter
    /\ decoded.saved.open = OpenOf(adapter, answer, style)
    /\ adapter # "gemini" => (decoded.finish = "tool_calls" <=> answer.calls # <<>>)

\* The fields of what Decode keeps.
LEMMA KeptIs ==
  ASSUME NEW adapter, NEW d
  PROVE  /\ Kept(adapter, d).texts = d.texts /\ Kept(adapter, d).calls = d.calls
         /\ Kept(adapter, d).finish = Models!FinishOf(adapter, d)
         /\ Kept(adapter, d).saved.adapter = adapter /\ Kept(adapter, d).saved.open = d.open
  BY DEF Kept

\* No calls are calls of length zero.
LEMMA EmptyCalls ==
  ASSUME NEW C, NEW answer, IsAnswer(answer, C)
  PROVE  answer.calls = <<>> <=> ~(Len(answer.calls) > 0)
  BY DEF IsAnswer

\* The decoder at the end of a stream, for every adapter.
LEMMA StreamEnds ==
  ASSUME NEW C, NEW answer, IsAnswer(answer, C), NEW adapter \in Models!Adapters, NEW style \in BOOLEAN
  PROVE  \E d : /\ Ends(adapter, Models!Stream(adapter, answer, style), d)
                /\ IsDecoded(adapter, answer, style, Kept(adapter, Flushed(adapter, d)))
  <1>1. CASE adapter = "chat"
    <2>1. PICK d : /\ Ends("chat", Models!ChatStream(answer, style), d)
                   /\ Models!FlushTools(d)
                        = Ended(Said(answer), Whole(answer), Items(answer), ChatFinish(answer))
      BY ChatEnds
    <2>2. PICK e : e = Ended(Said(answer), Whole(answer), Items(answer), ChatFinish(answer))
      OBVIOUS
    <2>3. Flushed(adapter, d) = e
      BY <1>1, <2>1, <2>2 DEF Flushed
    <2>4. /\ e.texts = Said(answer) /\ e.calls = Whole(answer) /\ e.open = Items(answer)
          /\ e.finish = ChatFinish(answer)
      BY <2>2, EndedIs
    <2>5. Models!FinishOf(adapter, e) = "tool_calls" <=> answer.calls # <<>>
      BY <1>1, <2>4, EmptyCalls DEF Models!FinishOf, Models!NormalizeFinishReason, ChatFinish
    <2>6. IsDecoded(adapter, answer, style, Kept(adapter, e))
      BY <1>1, <2>4, <2>5, KeptIs DEF IsDecoded, HasOf, OpenOf
    <2> QED BY <1>1, <2>1, <2>3, <2>6 DEF Models!Stream
  <1>2. CASE adapter = "anthropic"
    <2>1. PICK e : e = Midway(Said(answer), Whole(answer), Parts(answer), AnthropicFinish(answer), No)
      OBVIOUS
    <2>2. Ends("anthropic", Models!AnthropicStream(answer), e)
      BY <2>1, AnthropicEnds
    <2>3. Flushed(adapter, e) = e
      BY <1>2 DEF Flushed
    <2>4. /\ e.texts = Said(answer) /\ e.calls = Whole(answer) /\ e.open = Parts(answer)
          /\ e.finish = AnthropicFinish(answer)
      BY <2>1, MidwayIs
    <2>5. Models!FinishOf(adapter, e) = "tool_calls" <=> answer.calls # <<>>
      BY <1>2, <2>4 DEF Models!FinishOf, Models!NormalizeFinishReason, AnthropicFinish
    <2>6. IsDecoded(adapter, answer, style, Kept(adapter, e))
      BY <1>2, <2>4, <2>5, KeptIs DEF IsDecoded, HasOf, OpenOf
    <2> QED BY <1>2, <2>2, <2>3, <2>6 DEF Models!Stream
  <1>3. CASE adapter = "responses"
    <2>1. PICK k : /\ k = IF answer.calls = <<>> THEN No ELSE Yes
                   /\ Ends("responses", Models!ResponsesStream(answer),
                           Midway(Said(answer), Whole(answer), Items(answer), "stop", k))
      BY ResponsesEnds
    <2>2. PICK e : e = Midway(Said(answer), Whole(answer), Items(answer), "stop", k)
      OBVIOUS
    <2>3. Flushed(adapter, e) = e
      BY <1>3 DEF Flushed
    <2>4. /\ e.texts = Said(answer) /\ e.calls = Whole(answer) /\ e.open = Items(answer)
          /\ e.finish = "stop" /\ e.called = k
      BY <2>2, MidwayIs
    <2>5. Models!FinishOf(adapter, e) = "tool_calls" <=> answer.calls # <<>>
      <3>1. e.called <=> answer.calls # <<>>
        BY <2>1, <2>4 DEF No, Yes
      <3> QED BY <1>3, <2>4, <3>1 DEF Models!FinishOf, Models!NormalizeFinishReason
    <2>6. IsDecoded(adapter, answer, style, Kept(adapter, e))
      BY <1>3, <2>4, <2>5, KeptIs DEF IsDecoded, HasOf, OpenOf
    <2> QED BY <1>3, <2>1, <2>2, <2>3, <2>6 DEF Models!Stream
  <1>4. CASE adapter = "gemini"
    <2>1. PICK e : e = Midway(Said(answer), GeminiHas(answer, style), GeminiOpen(answer, style), "STOP", No)
      OBVIOUS
    <2>2. Ends("gemini", Models!GeminiStream(answer, style), e)
      BY <2>1, GeminiEnds
    <2>3. Flushed(adapter, e) = e
      BY <1>4 DEF Flushed
    <2>4. /\ e.texts = Said(answer) /\ e.calls = GeminiHas(answer, style) /\ e.open = GeminiOpen(answer, style)
      BY <2>1, MidwayIs
    <2>6. IsDecoded(adapter, answer, style, Kept(adapter, e))
      BY <1>4, <2>4, KeptIs DEF IsDecoded, HasOf, OpenOf
    <2> QED BY <1>4, <2>2, <2>3, <2>6 DEF Models!Stream
  <1> QED BY <1>1, <1>2, <1>3, <1>4 DEF Models!Adapters

\* The wire of an answer is long enough to be cut, and every cut decodes.
LEMMA AnswerDecodes ==
  ASSUME NEW C, NEW answer, IsAnswer(answer, C), NEW adapter \in Models!Adapters, NEW style \in BOOLEAN
  PROVE  LET wire == Models!Wire(Models!Stream(adapter, answer, style)) IN
         /\ Len(wire) \in Nat /\ Len(wire) >= 5
         /\ IsDecoded(adapter, answer, style, Models!Decode(adapter, <<wire>>))
         /\ \A offset \in 1..Len(wire), size \in Nat \ {0} :
               IsDecoded(adapter, answer, style,
                         Models!Decode(adapter, Models!Chunked(wire, offset, size)))
  <1> DEFINE events == Models!Stream(adapter, answer, style)
             wire == Models!Wire(events)
  <1>1. PICK d : /\ Ends(adapter, events, d)
                 /\ IsDecoded(adapter, answer, style, Kept(adapter, Flushed(adapter, d)))
    BY StreamEnds
  <1>2. PICK E : events \in Seq(E) /\ Len(events) > 1 /\ Runs(adapter, Models!Decoder, events, d)
    BY <1>1 DEF Ends
  <1> HIDE DEF events
  <1>3. wire \in Seq(Tokens(E)) /\ Len(wire) >= 3 * Len(events) - 1
    <2>1. Len(events) > 0
      BY <1>2
    <2> QED BY <1>2, <2>1, WireIsRead
  <1>4. Len(wire) \in Nat /\ Len(wire) >= 5
    <2>1. Len(events) \in Nat /\ Len(wire) \in Nat
      BY <1>2, <1>3
    <2> QED BY <1>2, <1>3, <2>1
  <1> HIDE DEF wire
  <1>5. ASSUME NEW offset \in 1..Len(wire), NEW size \in Nat \ {0}
        PROVE  IsDecoded(adapter, answer, style, Models!Decode(adapter, Models!Chunked(wire, offset, size)))
    <2>1. Models!ParseSse(Models!Chunked(wire, offset, size)) = events
      <3>1. offset \in 1..Len(Models!Wire(events)) /\ size \in Nat /\ size >= 1
        BY DEF wire
      <3> QED BY <1>2, <3>1, StreamIsRead, Zenon DEF wire
    <2>2. Models!Decode(adapter, Models!Chunked(wire, offset, size)) = Kept(adapter, Flushed(adapter, d))
      BY <1>2, <2>1, DecodeIs
    <2> QED BY <1>1, <2>2
  <1>6. IsDecoded(adapter, answer, style, Models!Decode(adapter, <<wire>>))
    <2>0. 1 \in 1..Len(wire)
      BY <1>4
    <2>1. Models!ParseSse(<<wire>>) = events
      BY <1>2, <2>0, StreamIsRead DEF wire
    <2>2. Models!Decode(adapter, <<wire>>) = Kept(adapter, Flushed(adapter, d))
      BY <1>2, <2>1, DecodeIs
    <2> QED BY <1>1, <2>2
  <1> QED BY <1>4, <1>5, <1>6 DEF wire, events

\* Every call is had once, in order and whole.
LEMMA HasAre ==
  ASSUME NEW C, NEW answer, IsAnswer(answer, C), NEW adapter, NEW style \in BOOLEAN
  PROVE  LET has == HasOf(adapter, answer, style) IN
         /\ Len(has) = Len(answer.calls) /\ DOMAIN has = 1..Len(answer.calls)
         /\ \A i \in 1..Len(answer.calls) : /\ has[i].name = answer.calls[i].name
                                            /\ has[i].args = answer.calls[i].args
                                            /\ adapter # "gemini" => has[i].id = answer.calls[i].id
         /\ \A i, j \in 1..Len(answer.calls) : has[i].id = has[j].id => i = j
  <1> DEFINE n == Len(answer.calls)
             has == HasOf(adapter, answer, style)
  <1>0. n \in Nat
    BY DEF IsAnswer
  <1>1. CASE adapter = "gemini"
    <2>1. has = GeminiHas(answer, style)
      BY <1>1 DEF HasOf
    <2>2. \A i \in 1..n : /\ has[i].name = answer.calls[i].name /\ has[i].args = answer.calls[i].args
                          /\ has[i].id = GeminiId(answer, style, i)
      BY <2>1 DEF GeminiHas, Models!ToolCall
    <2>3. Len(has) = n /\ DOMAIN has = 1..n
      BY <1>0, <2>1 DEF GeminiHas
    <2> HIDE DEF has, n
    <2>4. \A i, j \in 1..n : has[i].id = has[j].id => i = j
      BY <2>2, GeminiIdsDiffer DEF n
    <2> QED BY <1>1, <2>2, <2>3, <2>4 DEF has, n
  <1>2. CASE adapter # "gemini"
    <2>1. has = Whole(answer)
      BY <1>2 DEF HasOf
    <2>2. \A i \in 1..n : /\ has[i].name = answer.calls[i].name /\ has[i].args = answer.calls[i].args
                          /\ has[i].id = answer.calls[i].id
      BY <2>1 DEF Whole, Models!ToolCall
    <2>3. Len(has) = n /\ DOMAIN has = 1..n
      BY <1>0, <2>1 DEF Whole
    <2>4. \A i, j \in 1..n : answer.calls[i].id = answer.calls[j].id => i = j
      BY DEF IsAnswer
    <2> HIDE DEF has, n
    <2>5. \A i, j \in 1..n : has[i].id = has[j].id => i = j
      BY <2>2, <2>4
    <2> QED BY <2>2, <2>3, <2>5 DEF has, n
  <1> QED BY <1>1, <1>2

\* The stream of an answer with any number of calls, under each adapter and
\* whatever freedom the provider takes, cut anywhere, gives the text, every call
\* once, in order and whole, under an id of its own, and a reason to go on.
THEOREM StreamDecodesHolds ==
  ASSUME NEW C, NEW answer, IsAnswer(answer, C), NEW adapter \in Models!Adapters, NEW style \in BOOLEAN,
         NEW offset \in 1..Len(Models!Wire(Models!Stream(adapter, answer, style))), NEW size \in Nat \ {0}
  PROVE  Models!StreamDecodes(adapter, answer, style, offset, size)
  <1>1. PICK wire : wire = Models!Wire(Models!Stream(adapter, answer, style))
    OBVIOUS
  <1>2. PICK decoded : decoded = Models!Decode(adapter, Models!Chunked(wire, offset, size))
    OBVIOUS
  <1>3. IsDecoded(adapter, answer, style, decoded)
    BY <1>1, <1>2, AnswerDecodes, Zenon
  <1>4. PICK n, calls : n = Len(answer.calls) /\ calls = HasOf(adapter, answer, style)
    BY Zenon
  <1>5. /\ Len(calls) = n /\ DOMAIN calls = 1..n
        /\ \A i \in 1..n : calls[i].name = answer.calls[i].name /\ calls[i].args = answer.calls[i].args
        /\ \A i, j \in 1..n : calls[i].id = calls[j].id => i = j
    BY <1>4, HasAre
  <1>6. Models!AssistantMessage(decoded).calls = calls
    BY <1>3, <1>4 DEF IsDecoded, Models!AssistantMessage
  <1>7. Models!IsInjective([i \in DOMAIN calls |-> calls[i].id])
    <2> DEFINE ids == [i \in DOMAIN calls |-> calls[i].id]
    <2>1. DOMAIN ids = 1..n /\ \A i \in 1..n : ids[i] = calls[i].id
      BY <1>5
    <2> HIDE DEF ids
    <2>2. Models!IsInjective(ids)
      BY <1>5, <2>1 DEF Models!IsInjective
    <2> QED BY <2>2 DEF ids
  <1>8. /\ decoded.texts = IF answer.text = None THEN <<>> ELSE <<answer.text>>
        /\ adapter # "gemini" => (decoded.finish = "tool_calls" <=> answer.calls # <<>>)
    BY <1>3 DEF IsDecoded, Said
  <1> QED BY <1>1, <1>2, <1>4, <1>5, <1>6, <1>7, <1>8 DEF Models!StreamDecodes

-----------------------------------------------------------------------------
(* ModelStream: the next request.                                            *)

\* What the next request has of the provider's own items: the calls.
NamedOnes(open) ==
    [i \in DOMAIN open |-> IF open[i].name # None THEN <<open[i]>> ELSE <<>>]

\* Of items that are all calls none is left out.
LEMMA AllNamed ==
  ASSUME NEW A, NEW open \in Seq(A), \A i \in 1..Len(open) : open[i].name # None
  PROVE  Models!FlattenSeq(NamedOnes(open)) = open
  <1>1. NamedOnes(open) = [i \in 1..Len(open) |-> <<open[i]>>]
    <2>1. DOMAIN open = 1..Len(open)
      OBVIOUS
    <2> QED BY <2>1 DEF NamedOnes
  <1> QED BY <1>1, Singles

\* The block of text that comes first is left out.
LEMMA AllButFirst ==
  ASSUME NEW A, NEW open \in Seq(A), NEW items \in Seq(A), Len(open) = Len(items) + 1,
         open[1].name = None,
         \A i \in 1..Len(items) : open[i + 1] = items[i] /\ items[i].name # None
  PROVE  Models!FlattenSeq(NamedOnes(open)) = items
  <1> DEFINE n == Len(items)
             ss == NamedOnes(open)
             f == [k \in 0..(n + 1) |-> IF k = 0 THEN <<>> ELSE SubSeq(items, 1, k - 1)]
  <1>0. n \in Nat /\ Len(open) = n + 1 /\ DOMAIN open = 1..(n + 1)
    OBVIOUS
  <1>1. \A k \in 1..(n + 1) : ss[k] = IF open[k].name # None THEN <<open[k]>> ELSE <<>>
    BY <1>0 DEF NamedOnes
  <1>2. ss \in Seq(Seq(A)) /\ Len(ss) = n + 1
    <2>1. \A k \in 1..(n + 1) : ss[k] \in Seq(A)
      <3>1. \A k \in 1..(n + 1) : open[k] \in A
        BY <1>0
      <3>2. \A x \in A : <<x>> \in Seq(A)
        OBVIOUS
      <3>3. <<>> \in Seq(A)
        OBVIOUS
      <3> HIDE DEF ss, n
      <3> QED BY <1>1, <3>1, <3>2, <3>3, Zenon
    <2>2. ss = [k \in 1..(n + 1) |-> ss[k]]
      BY <1>0 DEF NamedOnes
    <2> HIDE DEF ss, n
    <2>3. ss \in [1..(n + 1) -> Seq(A)] /\ n + 1 \in Nat
      BY <1>0, <2>1, <2>2
    <2> QED BY <2>3, FunIsSeq, Zenon
  <1>3. f[0] = <<>> /\ f[n + 1] = items
    <2>1. 0 \in 0..(n + 1) /\ n + 1 \in 0..(n + 1) /\ n + 1 # 0 /\ (n + 1) - 1 = n
      BY <1>0
    <2>2. SubSeq(items, 1, n) = items
      BY OneLonger
    <2> QED BY <2>1, <2>2
  <1>4. ASSUME NEW k \in 1..(n + 1) PROVE f[k] = f[k - 1] \o ss[k]
    <2>1. k \in 0..(n + 1) /\ k - 1 \in 0..(n + 1) /\ k # 0
      BY <1>0
    <2>2. f[k] = SubSeq(items, 1, k - 1)
      BY <2>1
    <2>3. CASE k = 1
      <3>1. f[k - 1] = <<>> /\ f[k] = SubSeq(items, 1, 0)
        BY <1>3, <2>2, <2>3
      <3>2. ss[k] = <<>>
        BY <1>1, <2>3, Zenon
      <3>3. SubSeq(items, 1, 0) = <<>> /\ <<>> \o <<>> = <<>>
        BY OneLonger
      <3> HIDE DEF f, ss
      <3> QED BY <3>1, <3>2, <3>3
    <2>4. CASE k # 1
      <3>1. k - 1 \in 1..n /\ k - 1 # 0 /\ (k - 1) + 1 = k
        BY <1>0, <2>4
      <3>2. f[k - 1] = SubSeq(items, 1, (k - 1) - 1)
        BY <2>1, <3>1
      <3>3. ss[k] = <<items[k - 1]>>
        <4>1. open[(k - 1) + 1] = items[k - 1] /\ items[k - 1].name # None
          BY <3>1
        <4>2. open[k] = items[k - 1]
          BY <3>1, <4>1
        <4> HIDE DEF ss
        <4> QED BY <1>1, <4>1, <4>2, Zenon
      <3>4. SubSeq(items, 1, k - 1) = SubSeq(items, 1, (k - 1) - 1) \o <<items[k - 1]>>
        BY <3>1, OneLonger
      <3> HIDE DEF f, ss
      <3> QED BY <2>2, <3>2, <3>3, <3>4
    <2> QED BY <2>3, <2>4, Zenon
  <1> HIDE DEF f, ss, n
  <1>5. Runs("join", <<>>, ss, items)
    <2>1. \A k \in 1..Len(ss) : f[k] = Move("join", f[k - 1], ss[k])
      BY <1>2, <1>4, Zenon DEF Move
    <2>2. f[0] = <<>> /\ f[Len(ss)] = items
      BY <1>2, <1>3
    <2> QED BY <2>1, <2>2 DEF Runs, Running
  <1> QED BY <1>2, <1>5, FlattenJoins DEF ss

\* The saved items of an answer are its calls.
LEMMA SavedAre ==
  ASSUME NEW C, NEW answer, IsAnswer(answer, C), NEW style \in BOOLEAN,
         NEW adapter \in Models!Adapters, NEW message, message.saved.open = OpenOf(adapter, answer, style)
  PROVE  Models!SavedCalls(message)
         = IF adapter = "gemini" THEN GeminiOpen(answer, style) ELSE Items(answer)
  <1> DEFINE n == Len(answer.calls)
  <1>0. n \in Nat
    BY DEF IsAnswer
  <1>1. Models!SavedCalls(message) = Models!FlattenSeq(NamedOnes(OpenOf(adapter, answer, style)))
    BY DEF Models!SavedCalls, NamedOnes
  <1>2. PICK items : items = Items(answer)
    OBVIOUS
  <1>3. PICK A : items \in Seq(A) /\ Len(items) = n
    BY <1>2, ItemsAre
  <1>4. \A i \in 1..n : items[i].name # None
    <2>1. \A i \in 1..n : items[i].name = answer.calls[i].name
      BY <1>2, EntryIs DEF Items
    <2> QED BY <2>1, ArgsAre, ZenonT(40)
  <1>5. CASE adapter = "gemini"
    <2>1. PICK open : open = GeminiOpen(answer, style)
      OBVIOUS
    <2> DEFINE B == {open[i] : i \in 1..n}
    <2>2. open \in [1..n -> B]
      BY <2>1 DEF GeminiOpen
    <2>3. \A i \in 1..n : open[i].name # None
      <3>1. \A i \in 1..n : open[i].name = answer.calls[i].name
        BY <2>1 DEF GeminiOpen, GeminiGiven
      <3> QED BY <3>1, ArgsAre, ZenonT(40)
    <2> HIDE DEF n, B
    <2>4. open \in Seq(B) /\ Len(open) = n
      BY <1>0, <2>2, FunIsSeq
    <2>5. Models!FlattenSeq(NamedOnes(open)) = open
      BY <2>3, <2>4, AllNamed
    <2> QED BY <1>1, <1>5, <2>1, <2>5 DEF OpenOf
  <1>6. CASE adapter = "anthropic"
    <2>1. PICK parts : parts = Parts(answer)
      OBVIOUS
    <2>2. PICK B : parts \in Seq(B) /\ Len(parts) = n + 1
      BY <2>1, PartsAre
    <2>3. parts[1].name = None /\ \A i \in 1..n : parts[i + 1] = items[i]
      <3>1. parts[1] = Entry(0, None, None, <<>>) /\ \A i \in 1..n : parts[i + 1] = items[i]
        BY <1>2, <2>1, PartsAre
      <3> QED BY <3>1, EntryIs
    <2> DEFINE D == A \cup B
    <2>4. parts \in Seq(D) /\ items \in Seq(D)
      BY <1>3, <2>2
    <2> HIDE DEF D, n
    <2>5. Len(parts) = Len(items) + 1 /\ \A i \in 1..Len(items) : parts[i + 1] = items[i] /\ items[i].name # None
      BY <1>3, <1>4, <2>2, <2>3
    <2>6. Models!FlattenSeq(NamedOnes(parts)) = items
      BY <2>3, <2>4, <2>5, AllButFirst
    <2> QED BY <1>1, <1>2, <1>6, <2>1, <2>6 DEF OpenOf
  <1>7. CASE adapter # "gemini" /\ adapter # "anthropic"
    <2>1. Models!FlattenSeq(NamedOnes(items)) = items
      <3> HIDE DEF n
      <3> QED BY <1>3, <1>4, AllNamed
    <2> QED BY <1>1, <1>2, <1>7, <2>1 DEF OpenOf
  <1> QED BY <1>5, <1>6, <1>7

\* What the next request has of an answer's calls: each in its place, and by its
\* name and, but for Gemini, its id.
LEMMA SentAre ==
  ASSUME NEW C, NEW answer, IsAnswer(answer, C), NEW style \in BOOLEAN,
         NEW from \in Models!Adapters, NEW to \in Models!Adapters, NEW message,
         message.calls = HasOf(from, answer, style), message.saved.adapter = from,
         message.saved.open = OpenOf(from, answer, style)
  PROVE  LET sent == Models!Replayed(to, message) IN
         /\ Len(sent) = Len(answer.calls) /\ DOMAIN sent = 1..Len(answer.calls)
         /\ \A i \in 1..Len(answer.calls) :
               /\ sent[i].name = message.calls[i].name
               /\ to # "gemini" => sent[i].id = message.calls[i].id
  <1> DEFINE n == Len(answer.calls)
  <1>0. n \in Nat
    BY DEF IsAnswer
  <1>1. PICK sent, has : sent = Models!Replayed(to, message) /\ has = message.calls
    OBVIOUS
  <1>2. /\ Len(has) = n /\ DOMAIN has = 1..n
        /\ \A i \in 1..n : /\ has[i].name = answer.calls[i].name
                           /\ from # "gemini" => has[i].id = answer.calls[i].id
    <2>1. has = HasOf(from, answer, style)
      BY <1>1
    <2> QED BY <2>1, HasAre
  <1>3. sent = has \/ (from = to /\ sent = Models!SavedCalls(message))
    BY <1>1 DEF Models!Replayed, Models!ChatCalls, Models!AnthropicCalls, Models!ResponsesCalls,
                Models!GeminiCalls, Models!SavedFor, Models!Adapters
  <1>4. CASE sent = has
    BY <1>1, <1>2, <1>4
  <1>5. CASE from = to /\ sent = Models!SavedCalls(message)
    <2>1. sent = IF from = "gemini" THEN GeminiOpen(answer, style) ELSE Items(answer)
      BY <1>5, SavedAre
    <2>2. CASE from = "gemini"
      <3>1. sent = GeminiOpen(answer, style)
        BY <2>1, <2>2
      <3>2. Len(sent) = n /\ DOMAIN sent = 1..n /\ \A i \in 1..n : sent[i].name = answer.calls[i].name
        BY <1>0, <3>1 DEF GeminiOpen, GeminiGiven
      <3> QED BY <1>1, <1>2, <1>5, <2>2, <3>2
    <2>3. CASE from # "gemini"
      <3>1. sent = Items(answer)
        BY <2>1, <2>3
      <3>2. Len(sent) = n /\ DOMAIN sent = 1..n
        BY <1>0, <3>1 DEF Items
      <3>3. \A i \in 1..n : sent[i].name = answer.calls[i].name /\ sent[i].id = answer.calls[i].id
        BY <3>1, EntryIs DEF Items
      <3> QED BY <1>1, <1>2, <2>3, <3>2, <3>3
    <2> QED BY <2>2, <2>3
  <1> QED BY <1>3, <1>4, <1>5

\* Whichever provider gave an answer and whichever one gets the next request,
\* every call is in it and its result stands where it is looked for.
THEOREM ResultsFindTheirCallsHolds ==
  ASSUME NEW C, NEW answer, IsAnswer(answer, C), NEW style \in BOOLEAN,
         NEW from \in Models!Adapters, NEW to \in Models!Adapters
  PROVE  Models!ResultsFindTheirCalls(from, to, answer, style)
  <1> DEFINE n == Len(answer.calls)
  <1>0. n \in Nat
    BY DEF IsAnswer
  <1>1. PICK decoded : decoded = Models!Decode(from, <<Models!Wire(Models!Stream(from, answer, style))>>)
    OBVIOUS
  <1>2. IsDecoded(from, answer, style, decoded)
    BY <1>1, AnswerDecodes
  <1>3. PICK message : message = Models!AssistantMessage(decoded)
    OBVIOUS
  <1>4. /\ message.calls = HasOf(from, answer, style) /\ message.saved.adapter = from
        /\ message.saved.open = OpenOf(from, answer, style)
    BY <1>2, <1>3 DEF IsDecoded, Models!AssistantMessage
  <1>5. PICK sent, has : sent = Models!Replayed(to, message) /\ has = message.calls
    OBVIOUS
  <1>6. /\ Len(sent) = n /\ DOMAIN sent = 1..n
        /\ \A i \in 1..n : /\ sent[i].name = has[i].name
                           /\ to # "gemini" => sent[i].id = has[i].id
    BY <1>4, <1>5, SentAre
  <1>7. DOMAIN has = 1..n /\ \A i, j \in 1..n : has[i].id = has[j].id => i = j
    <2>1. has = HasOf(from, answer, style)
      BY <1>4, <1>5
    <2> QED BY <2>1, HasAre
  <1> HIDE DEF n
  <1>8. ASSUME NEW i \in 1..n
        PROVE  Models!FormatResult(to, message, has[i].id) = Models!CallHandle(to, sent[i])
    <2>1. CASE to # "gemini"
      BY <1>6, <2>1 DEF Models!FormatResult, Models!CallHandle
    <2>2. CASE to = "gemini"
      <3> DEFINE named == {k \in DOMAIN message.calls : message.calls[k].id = has[i].id}
      <3>1. named = {i}
        BY <1>5, <1>7
      <3>2. Models!Min(named) = i
        <4>1. i <= i
          BY <1>0
        <4> QED BY <3>1, <4>1 DEF Models!Min
      <3>3. named # {}
        BY <3>1
      <3>4. Models!FindToolName(message, has[i].id) = message.calls[Models!Min(named)].name
        BY <3>3 DEF Models!FindToolName
      <3>5. Models!FindToolName(message, has[i].id) = has[i].name
        BY <1>5, <3>2, <3>4, Zenon
      <3> QED BY <1>6, <2>2, <3>5 DEF Models!FormatResult, Models!CallHandle
    <2> QED BY <2>1, <2>2
  <1> QED BY <1>1, <1>3, <1>5, <1>6, <1>8 DEF Models!ResultsFindTheirCalls, n

-----------------------------------------------------------------------------
(* ModelStream: the answers the run draws.                                   *)

\* What is drawn of an answer and of its cuts.
AnswerInputs ==
    /\ input.of = "answer" =>
          input.from \in Models!Adapters /\ input.answer \in Answers /\ input.style \in BOOLEAN
    /\ input.of = "whole_answer" =>
          /\ input.from \in Models!Adapters /\ input.answer \in Answers /\ input.style \in BOOLEAN
          /\ input.offset \in 1..4 /\ input.size \in 1..5 /\ input.to \in Models!Adapters

\* Every answer the run draws comes under an adapter and is cut at the start.
LEMMA InputsAreAnswers == Spec => []AnswerInputs
  <1>1. Init => AnswerInputs
    BY Zenon DEF Init, AnswerInputs
  <1>2. AnswerInputs /\ [Next]_input => AnswerInputs'
    <2> SUFFICES ASSUME AnswerInputs, [Next]_input PROVE AnswerInputs'
      OBVIOUS
    <2> DEFINE Cut == \E offset \in 1..4, size \in 1..5, to \in Models!Adapters :
                  input' = [of |-> "whole_answer", from |-> input.from, answer |-> input.answer,
                            style |-> input.style, offset |-> offset, size |-> size, to |-> to]
    <2>1. CASE UNCHANGED input
      BY <2>1 DEF AnswerInputs
    <2>2. CASE input.of = "answer" /\ Cut
      <3>1. PICK offset \in 1..4, size \in 1..5, to \in Models!Adapters :
               input' = [of |-> "whole_answer", from |-> input.from, answer |-> input.answer,
                         style |-> input.style, offset |-> offset, size |-> size, to |-> to]
        BY <2>2
      <3>2. /\ input'.of = "whole_answer" /\ input'.from = input.from /\ input'.answer = input.answer
            /\ input'.style = input.style /\ input'.offset = offset /\ input'.size = size
            /\ input'.to = to
        BY <3>1
      <3> QED BY <2>2, <3>2 DEF AnswerInputs
    <2>3. CASE input'.of \notin {"answer", "whole_answer"}
      BY <2>3 DEF AnswerInputs
    <2>4. Next => input'.of \notin {"answer", "whole_answer"} \/ (input.of = "answer" /\ Cut)
      <3> HIDE DEF Cut
      <3>1. CASE input.of = "answer" /\ Cut
        BY <3>1
      <3>2. CASE \E new, third, context :
                    input' = [of |-> "whole_diff", old |-> input.old,
                              new |-> new, third |-> third, context |-> context]
        BY <3>2
      <3>3. CASE \E more :
                    input' = [of |-> "whole_shell", line |-> input.line, rules |-> input.rules,
                              more |-> more]
        BY <3>3
      <3>4. CASE \E more :
                    input' = [of |-> "whole_plan", first |-> input.first, disk |-> input.disk,
                              more |-> more]
        BY <3>4
      <3>5. CASE \E target, new :
                    input' = [of |-> "whole_edit", file |-> input.file, target |-> target, new |-> new]
        BY <3>5
      <3>6. CASE \E edit : input' = [of |-> "whole_call", file |-> input.file, edit |-> edit]
        BY <3>6
      <3> QED BY <3>1, <3>2, <3>3, <3>4, <3>5, <3>6, Zenon DEF Next, Cut
    <2> QED BY <2>1, <2>2, <2>3, <2>4
  <1> QED BY <1>1, <1>2, PTL DEF Spec

\* The calls of the answers that are drawn.
Calls == {Call(i, name) : i \in 1..2, name \in {"read", "edit"}}

\* The answers that are drawn are answers.
LEMMA AnswersAre ==
  ASSUME NEW answer \in Answers PROVE IsAnswer(answer, Calls)
  <1>1. \A i \in 1..2, name \in {"read", "edit"} :
           /\ Call(i, name) \in Calls /\ Call(i, name).id = <<"call", i>> /\ Call(i, name).id # None
           /\ Call(i, name).name = name /\ name # None /\ Call(i, name).args = <<"a", "b">>
    BY NoneAssumption DEF Call, Calls
  <1>2. \A c \in Calls : c.id # None /\ c.name # None /\ c.args = <<"a", "b">>
    BY <1>1 DEF Calls
  <1>3. \A c \in Calls : c.args = <<c.args[1], c.args[2]>>
    <2>1. \A c \in Calls : c.args[1] = "a" /\ c.args[2] = "b"
      BY <1>2
    <2> QED BY <1>2, <2>1
  <1>4. PICK calls : calls = answer.calls
    OBVIOUS
  <1>5. \/ calls = <<>>
        \/ \E c \in Calls : calls = <<c>>
        \/ \E c, d \in Calls : c.id = <<"call", 1>> /\ d.id = <<"call", 2>> /\ calls = <<c, d>>
    <2>1. \/ calls = <<>>
          \/ \E m \in {"read", "edit"} : calls = <<Call(1, m)>>
          \/ \E m, n \in {"read", "edit"} : calls = <<Call(1, m), Call(2, n)>>
      BY <1>4 DEF Answers
    <2>2. 1 \in 1..2 /\ 2 \in 1..2
      OBVIOUS
    <2> HIDE DEF Calls
    <2> QED BY <1>1, <2>1, <2>2
  <1> HIDE DEF Calls
  <1>6. calls \in Seq(Calls)
    <2>1. /\ <<>> \in Seq(Calls)
          /\ \A c, d \in Calls : <<c>> \in Seq(Calls) /\ <<c, d>> \in Seq(Calls)
      OBVIOUS
    <2> QED BY <1>5, <2>1, Zenon
  <1>7. \A i, j \in 1..Len(calls) : calls[i].id = calls[j].id => i = j
    <2>1. CASE calls = <<>>
      BY <2>1
    <2>2. CASE \E c \in Calls : calls = <<c>>
      <3>1. Len(calls) = 1
        BY <2>2
      <3> QED BY <3>1
    <2>3. CASE \E c, d \in Calls : c.id = <<"call", 1>> /\ d.id = <<"call", 2>> /\ calls = <<c, d>>
      <3>1. Len(calls) = 2 /\ calls[1].id = <<"call", 1>> /\ calls[2].id = <<"call", 2>>
        BY <2>3
      <3>2. <<"call", 1>> # <<"call", 2>>
        OBVIOUS
      <3>3. \A i \in 1..Len(calls) : i = 1 \/ i = 2
        BY <3>1
      <3> QED BY <3>1, <3>2, <3>3
    <2> QED BY <1>5, <2>1, <2>2, <2>3
  <1>8. \A i \in 1..Len(calls) : calls[i] \in Calls
    BY <1>6
  <1> QED BY <1>2, <1>3, <1>4, <1>6, <1>7, <1>8 DEF IsAnswer

\* A stream gives the same answer however it is cut, and the results of its
\* calls stand where the next request looks for them.
THEOREM ConversationsCarryOverHolds == Spec => []ConversationsCarryOver
  <1>1. AnswerInputs => ConversationsCarryOver
    <2> SUFFICES ASSUME AnswerInputs, input.of = "whole_answer"
                 PROVE  /\ Models!StreamDecodes(input.from, input.answer, input.style, input.offset, input.size)
                        /\ Models!ResultsFindTheirCalls(input.from, input.to, input.answer, input.style)
      BY DEF ConversationsCarryOver
    <2>1. PICK from, answer, style, offset, size, to :
            /\ from = input.from /\ answer = input.answer /\ style = input.style
            /\ offset = input.offset /\ size = input.size /\ to = input.to
      OBVIOUS
    <2>2. /\ from \in Models!Adapters /\ answer \in Answers /\ style \in BOOLEAN
          /\ offset \in 1..4 /\ size \in 1..5 /\ to \in Models!Adapters
      BY <2>1 DEF AnswerInputs
    <2>3. IsAnswer(answer, Calls)
      BY <2>2, AnswersAre
    <2>4. PICK wire : wire = Models!Wire(Models!Stream(from, answer, style))
      OBVIOUS
    <2>5. offset \in 1..Len(wire) /\ size \in Nat \ {0}
      <3>1. Len(wire) \in Nat /\ Len(wire) >= 5
        BY <2>2, <2>3, <2>4, AnswerDecodes, Zenon
      <3> QED BY <2>2, <3>1
    <2>6. Models!StreamDecodes(from, answer, style, offset, size)
      BY <2>2, <2>3, <2>4, <2>5, StreamDecodesHolds
    <2>7. Models!ResultsFindTheirCalls(from, to, answer, style)
      BY <2>2, <2>3, ResultsFindTheirCallsHolds
    <2> QED BY <2>1, <2>6, <2>7
  <1> QED BY <1>1, InputsAreAnswers, PTL
-----------------------------------------------------------------------------
(* TextEdits: edit_file.                                                     *)

\* The places found up to the nth character.
PlacesAfter(g, text, s) ==
    g = [n \in 0..Len(text) |->
            IF n = 0 THEN <<>>
            ELSE IF n \in Edits!Occurrences(text, s) THEN Edits!PlaceOn(g[n - 1], n, Len(s)) ELSE g[n - 1]]

\* The same without the recursion: f goes from character to character.
Placing(f, text, s, n) ==
    /\ f[0] = <<>>
    /\ \A k \in 1..n :
          f[k] = IF k \in Edits!Occurrences(text, s) THEN Edits!PlaceOn(f[k - 1], k, Len(s)) ELSE f[k - 1]

\* The recursion of Places has a value, and it goes from character to character.
LEMMA PlacesAre ==
  ASSUME NEW A, NEW text \in Seq(A), NEW s
  PROVE  \E f : f[Len(text)] = Edits!Places(text, s) /\ Placing(f, text, s, Len(text))
  <1> DEFINE L == Len(text)
             S == {m \in 0..L : \E f : Placing(f, text, s, m)}
             g == CHOOSE g : PlacesAfter(g, text, s)
             On(e, k) == IF k \in Edits!Occurrences(text, s) THEN Edits!PlaceOn(e, k, Len(s)) ELSE e
  <1>0. L \in Nat
    OBVIOUS
  <1> HIDE DEF L
  <1>1. 0 \in S
    <2> DEFINE f == [k \in 0..0 |-> <<>>]
    <2>1. Placing(f, text, s, 0) /\ 0 \in 0..L
      BY <1>0 DEF Placing
    <2> QED BY <2>1
  <1>2. \A m \in 0..(L - 1) : m \in S => m + 1 \in S
    <2> SUFFICES ASSUME NEW m \in 0..(L - 1), m \in S PROVE m + 1 \in S
      OBVIOUS
    <2>1. PICK f : Placing(f, text, s, m)
      OBVIOUS
    <2> DEFINE h == [k \in 0..(m + 1) |-> IF k <= m THEN f[k] ELSE On(f[m], m + 1)]
    <2>2. \A k \in 0..m : h[k] = f[k]
      OBVIOUS
    <2>3. h[m + 1] = On(f[m], m + 1)
      OBVIOUS
    <2> HIDE DEF h
    <2>4. ASSUME NEW k \in 1..(m + 1) PROVE h[k] = On(h[k - 1], k)
      <3>1. CASE k = m + 1
        <4>1. k - 1 = m /\ m \in 0..m
          BY <3>1
        <4> HIDE DEF On
        <4> QED BY <2>2, <2>3, <3>1, <4>1
      <3>2. CASE k # m + 1
        <4>1. k \in 1..m /\ k \in 0..m /\ k - 1 \in 0..m
          BY <3>2
        <4>2. f[k] = On(f[k - 1], k)
          BY <2>1, <4>1 DEF Placing
        <4> HIDE DEF On
        <4> QED BY <2>2, <4>1, <4>2
      <3> QED BY <3>1, <3>2
    <2>5. h[0] = <<>>
      <3>1. 0 \in 0..m
        OBVIOUS
      <3> QED BY <2>1, <2>2, <3>1 DEF Placing
    <2>6. Placing(h, text, s, m + 1) /\ m + 1 \in 0..L
      BY <1>0, <2>4, <2>5 DEF Placing
    <2> QED BY <2>6
  <1>3. PICK f : Placing(f, text, s, L)
    <2> HIDE DEF S
    <2>1. L \in 0..L
      BY <1>0
    <2>2. L \in S
      BY <1>0, <1>1, <1>2, <2>1, UpTo, Zenon
    <2> QED BY <2>2 DEF S
  <1>4. \E h : PlacesAfter(h, text, s)
    <2> DEFINE h == [n \in 0..L |-> f[n]]
    <2>1. ASSUME NEW n \in 0..L PROVE h[n] = IF n = 0 THEN <<>> ELSE On(h[n - 1], n)
      <3>1. n # 0 => n \in 1..L /\ n - 1 \in 0..L
        BY <1>0
      <3> QED BY <1>3, <3>1 DEF Placing
    <2>2. h = [n \in 0..L |-> h[n]]
      OBVIOUS
    <2> HIDE DEF h
    <2>3. h = [n \in 0..L |-> IF n = 0 THEN <<>> ELSE On(h[n - 1], n)]
      BY <2>1, <2>2, Zenon
    <2> QED BY <2>3 DEF PlacesAfter, L
  <1>5. PlacesAfter(g, text, s)
    BY <1>4
  <1>6. Edits!Places(text, s) = g[Len(text)]
    BY DEF Edits!Places, PlacesAfter
  <1> HIDE DEF g
  <1>7. Placing(g, text, s, L)
    <2>1. 0 \in 0..L /\ \A n \in 1..L : n # 0 /\ n \in 0..L
      BY <1>0
    <2>2. \A n \in 0..L : g[n] = IF n = 0 THEN <<>> ELSE On(g[n - 1], n)
      BY <1>5, Zenon DEF PlacesAfter, L
    <2> QED BY <2>1, <2>2 DEF Placing
  <1> QED BY <1>6, <1>7 DEF L

\* One place or none: whatever lies over it begins within its length.
Sole(found, text, s, n) ==
    /\ found \in Seq(1..n)
    /\ \A k \in 1..Len(found) : found[k] \in Edits!Occurrences(text, s)
    /\ found = <<>> => \A i \in 1..n : i \notin Edits!Occurrences(text, s)
    /\ Len(found) = 1 =>
          \A i \in 1..n : i \in Edits!Occurrences(text, s) => found[1] <= i /\ i < found[1] + Len(s)

\* Further characters leave this so.
LEMMA SoleOn ==
  ASSUME NEW text, NEW s, Len(s) \in Nat \ {0}, NEW n \in Nat, NEW found, Sole(found, text, s, n),
         NEW i, i = n + 1, i \in Edits!Occurrences(text, s)
  PROVE  Sole(Edits!PlaceOn(found, i, Len(s)), text, s, i)
  <1>1. PICK O, len : O = Edits!Occurrences(text, s) /\ len = Len(s)
    OBVIOUS
  <1>2. found \in Seq(1..i) /\ Len(found) \in Nat
    <2>1. found \in Seq(1..n) /\ 1..n \subseteq 1..i
      BY DEF Sole
    <2> QED BY <2>1
  <1>6. /\ \A k \in 1..Len(found) : found[k] \in O /\ found[k] \in 1..n
        /\ found = <<>> => \A j \in 1..n : j \notin O
        /\ Len(found) = 1 => \A j \in 1..n : j \in O => found[1] <= j /\ j < found[1] + len
    BY <1>1, SMTT(30) DEF Sole
  <1>7. i \in O /\ len \in Nat \ {0} /\ i \in Nat /\ \A j \in 1..i : j \in 1..n \/ j = i
    BY <1>1
  <1>8. ASSUME NEW more, more \in Seq(1..i), \A k \in 1..Len(more) : more[k] \in O,
               more = <<>> => \A j \in 1..i : j \notin O,
               Len(more) = 1 => \A j \in 1..i : j \in O => more[1] <= j /\ j < more[1] + len
        PROVE  Sole(more, text, s, i)
    BY <1>1, <1>8 DEF Sole
  <1>3. CASE found = <<>>
    <2>1. Edits!PlaceOn(found, i, Len(s)) = <<i>>
      BY <1>3 DEF Edits!PlaceOn
    <2>2. \A j \in 1..n : j \notin O
      BY <1>3, <1>6
    <2>3. \A j \in 1..i : j \in O => i <= j /\ j < i + len
      BY <1>7, <2>2
    <2>4. PICK more : more = <<i>>
      BY Zenon
    <2>5. more \in Seq(1..i) /\ Len(more) = 1 /\ more[1] = i /\ more # <<>>
      BY <1>7, <2>4
    <2>6. Sole(more, text, s, i)
      BY <1>7, <1>8, <2>3, <2>5, SMTT(30)
    <2> QED BY <2>1, <2>4, <2>6
  <1>4. CASE found # <<>> /\ i < Edits!Last(found) + Len(s)
    <2>1. Edits!PlaceOn(found, i, Len(s)) = found
      BY <1>4 DEF Edits!PlaceOn
    <2>2. ASSUME Len(found) = 1, NEW j \in 1..i, j \in O PROVE found[1] <= j /\ j < found[1] + len
      <3>1. CASE j = i
        <4>1. Edits!Last(found) = found[1] /\ found[1] \in 1..n
          BY <1>6, <2>2 DEF Edits!Last
        <4>2. i < found[1] + len /\ found[1] <= i
          BY <1>1, <1>4, <4>1
        <4> QED BY <3>1, <4>2
      <3>2. CASE j # i
        <4>1. j \in 1..n
          BY <1>7, <3>2
        <4> QED BY <1>6, <2>2, <4>1
      <3> QED BY <3>1, <3>2
    <2> QED BY <1>2, <1>4, <1>6, <1>8, <2>1, <2>2
  <1>5. CASE found # <<>> /\ ~(i < Edits!Last(found) + Len(s))
    <2>1. Edits!PlaceOn(found, i, Len(s)) = Append(found, i)
      BY <1>5 DEF Edits!PlaceOn
    <2>2. Len(found) # 0
      BY <1>2, <1>5
    <2>3. PICK more : more = Append(found, i)
      BY Zenon
    <2>4. /\ more \in Seq(1..i) /\ Len(more) = Len(found) + 1 /\ Len(more) # 1 /\ more # <<>>
          /\ \A k \in 1..Len(more) : more[k] = IF k <= Len(found) THEN found[k] ELSE i
      BY <1>2, <2>2, <2>3
    <2>5. ASSUME NEW k \in 1..Len(more) PROVE more[k] \in O
      <3>1. CASE k <= Len(found)
        <4>1. k \in 1..Len(found)
          BY <1>2, <3>1
        <4> QED BY <1>6, <2>4, <3>1, <4>1, Zenon
      <3>2. CASE ~(k <= Len(found))
        BY <1>7, <2>4, <3>2
      <3> QED BY <3>1, <3>2
    <2>6. Sole(more, text, s, i)
      BY <1>8, <2>4, <2>5, Zenon
    <2> QED BY <2>1, <2>3, <2>6, Zenon
  <1> QED BY <1>3, <1>4, <1>5

\* So it is at the end of the text.
LEMMA PlacesAreSole ==
  ASSUME NEW A, NEW text \in Seq(A), NEW s, Len(s) \in Nat \ {0}
  PROVE  Sole(Edits!Places(text, s), text, s, Len(text))
  <1>1. PICK f : f[Len(text)] = Edits!Places(text, s) /\ Placing(f, text, s, Len(text))
    BY PlacesAre
  <1> DEFINE L == Len(text)
             S == {m \in 0..L : Sole(f[m], text, s, m)}
  <1>0. L \in Nat
    OBVIOUS
  <1> HIDE DEF L
  <1>2. 0 \in S
    <2>1. f[0] = <<>> /\ 0 \in 0..L
      BY <1>0, <1>1 DEF Placing
    <2>2. Sole(<<>>, text, s, 0)
      BY DEF Sole
    <2> QED BY <2>1, <2>2
  <1>3. \A m \in 0..(L - 1) : m \in S => m + 1 \in S
    <2> SUFFICES ASSUME NEW m \in 0..(L - 1), m \in S PROVE m + 1 \in S
      OBVIOUS
    <2>1. m + 1 \in 1..L /\ m + 1 \in 0..L /\ (m + 1) - 1 = m /\ m \in Nat
      BY <1>0
    <2>2. Sole(f[m], text, s, m)
      OBVIOUS
    <2>3. f[m + 1] = IF m + 1 \in Edits!Occurrences(text, s) THEN Edits!PlaceOn(f[m], m + 1, Len(s)) ELSE f[m]
      BY <1>1, <2>1 DEF Placing, L
    <2>4. CASE m + 1 \in Edits!Occurrences(text, s)
      <3>1. Sole(Edits!PlaceOn(f[m], m + 1, Len(s)), text, s, m + 1)
        BY <2>1, <2>2, <2>4, SoleOn
      <3> QED BY <2>1, <2>3, <2>4, <3>1
    <2>5. CASE m + 1 \notin Edits!Occurrences(text, s)
      <3>1. PICK found : found = f[m]
        OBVIOUS
      <3>2. found \in Seq(1..m) /\ 1..m \subseteq 1..(m + 1)
        BY <2>1, <2>2, <3>1 DEF Sole
      <3>3. found \in Seq(1..(m + 1))
        BY <3>2
      <3>4. \A i \in 1..(m + 1) : i \in 1..m \/ i = m + 1
        BY <2>1
      <3>5. Sole(found, text, s, m + 1)
        BY <2>2, <2>5, <3>1, <3>3, <3>4 DEF Sole
      <3> QED BY <2>1, <2>3, <2>5, <3>1, <3>5
    <2> QED BY <2>4, <2>5
  <1> HIDE DEF S
  <1>4. L \in S
    <2>1. L \in 0..L
      BY <1>0
    <2> QED BY <1>0, <1>2, <1>3, <2>1, UpTo, Zenon
  <1> QED BY <1>1, <1>4 DEF S, L

\* A text without the sign that String.replace reads is put as it is.
LEMMA ExpandsToItself ==
  ASSUME NEW A, NEW new \in Seq(A), \A i \in 1..Len(new) : new[i] # "$&", NEW old
  PROVE  Edits!Expanded(new, old) = new
  <1> DEFINE ss == [i \in 1..Len(new) |-> <<new[i]>>]
  <1>1. DOMAIN new = 1..Len(new)
    OBVIOUS
  <1>2. [i \in DOMAIN new |-> IF new[i] = "$&" THEN old ELSE <<new[i]>>] = ss
    BY <1>1
  <1>3. Models!FlattenSeq(ss) = new
    BY Singles
  <1>4. Edits!FlattenSeq(ss) = Models!FlattenSeq(ss)
    BY DEF Edits!FlattenSeq, Models!FlattenSeq
  <1> HIDE DEF ss
  <1> QED BY <1>2, <1>3, <1>4 DEF Edits!Expanded

\* A single edit is one step.
LEMMA OneEdit ==
  ASSUME NEW content, NEW edit
  PROVE  Edits!EditFile(content, <<edit>>)
           = LET edited == Edits!EditOnce(content, edit)
             IN  IF edited.applied THEN Edits!Applied(Edits!Staged(content, edited.text)) ELSE Edits!Refused
  <1> DEFINE After1(g) == g = [n \in 0..Len(<<edit>>) |->
                                 IF n = 0 THEN Edits!Applied(content) ELSE Edits!EditNext(g[n - 1], <<edit>>[n])]
             g == CHOOSE g : After1(g)
             first == Edits!Applied(content)
             h == [n \in 0..1 |-> IF n = 0 THEN first ELSE Edits!EditNext(first, edit)]
  <1>1. h[0] = first /\ h[1] = Edits!EditNext(first, edit) /\ Len(<<edit>>) = 1 /\ <<edit>>[1] = edit
    OBVIOUS
  <1>2. h = [n \in 0..1 |-> h[n]]
    OBVIOUS
  <1> HIDE DEF h, first
  <1>3. \A n \in 0..1 : h[n] = IF n = 0 THEN first ELSE Edits!EditNext(h[n - 1], <<edit>>[n])
    <2>1. \A n \in 0..1 : n = 0 \/ (n = 1 /\ n - 1 = 0)
      OBVIOUS
    <2> QED BY <1>1, <2>1
  <1>4. h = [n \in 0..1 |-> IF n = 0 THEN first ELSE Edits!EditNext(h[n - 1], <<edit>>[n])]
    BY <1>2, <1>3
  <1>5. After1(g)
    <2>1. After1(h)
      BY <1>1, <1>4 DEF first
    <2> QED BY <2>1
  <1>6. Edits!EditFile(content, <<edit>>)
          = IF g[Len(<<edit>>)].applied THEN Edits!Applied(Edits!Staged(content, g[Len(<<edit>>)].text))
            ELSE Edits!Refused
    BY DEF Edits!EditFile
  <1> HIDE DEF g
  <1>7. g[0] = first /\ g[1] = Edits!EditNext(g[0], edit)
    <2>1. \A n \in 0..1 : g[n] = IF n = 0 THEN first ELSE Edits!EditNext(g[n - 1], <<edit>>[n])
      BY <1>1, <1>5, Zenon DEF first
    <2>2. g[1] = Edits!EditNext(g[1 - 1], <<edit>>[1])
      BY <2>1
    <2> QED BY <1>1, <2>1, <2>2
  <1>8. first.applied /\ first.text = content
    BY DEF first, Edits!Applied
  <1> QED BY <1>1, <1>6, <1>7, <1>8 DEF Edits!EditNext

-----------------------------------------------------------------------------
(* TextEdits: applySurgicalPatch.                                            *)

\* A set of naturals has its least element for Min.
LEMMA MinIs ==
  ASSUME NEW S \in SUBSET Nat, NEW n \in S
  PROVE  Edits!Min(S) \in S /\ \A x \in S : Edits!Min(S) <= x
  <1>1. \E m \in S : \A x \in S : m <= x
    BY Least
  <1> QED BY <1>1, Zenon DEF Edits!Min

\* And one that is bounded its greatest for Max.
LEMMA MaxIs ==
  ASSUME NEW L \in Nat, NEW S \in SUBSET (1..L), NEW n \in S
  PROVE  Edits!Max(S) \in S
  <1> DEFINE T == {L - x : x \in S}
  <1>1. T \in SUBSET Nat /\ L - n \in T
    OBVIOUS
  <1> HIDE DEF T
  <1>2. PICK m \in T : \A x \in T : m <= x
    BY <1>1, Least
  <1>3. PICK y \in S : m = L - y
    BY <1>2 DEF T
  <1>4. \A x \in S : y >= x
    <2> SUFFICES ASSUME NEW x \in S PROVE y >= x
      OBVIOUS
    <2>1. m <= L - x
      BY <1>2 DEF T
    <2>2. x \in 1..L /\ y \in 1..L
      OBVIOUS
    <2> QED BY <1>3, <2>1, <2>2
  <1>5. \E x \in S : \A z \in S : x >= z
    BY <1>4
  <1> QED BY <1>5, Zenon DEF Edits!Max

\* Nothing in it but characters other than c.
Without(t, c) == \A i \in 1..Len(t) : t[i] # c
Endings == {"nl", "crlf"}

\* What is replaced, is replaced at each place by itself.
LEMMA ReplacedIs ==
  ASSUME NEW C, NEW t \in Seq(C), NEW c, NEW d \in C
  PROVE  /\ Edits!Replaced(t, c, d) \in Seq(C) /\ Len(Edits!Replaced(t, c, d)) = Len(t)
         /\ \A i \in 1..Len(t) : Edits!Replaced(t, c, d)[i] = IF t[i] = c THEN d ELSE t[i]
  <1> DEFINE n == Len(t)
             z == [i \in 1..n |-> IF t[i] = c THEN d ELSE t[i]]
  <1>1. n \in Nat /\ DOMAIN t = 1..n /\ \A i \in 1..n : t[i] \in C
    OBVIOUS
  <1>2. Edits!Replaced(t, c, d) = z
    BY <1>1 DEF Edits!Replaced
  <1>3. z \in [1..n -> C]
    BY <1>1
  <1>4. \A i \in 1..n : z[i] = IF t[i] = c THEN d ELSE t[i]
    OBVIOUS
  <1> HIDE DEF z, n
  <1>5. z \in Seq(C) /\ Len(z) = n
    BY <1>1, <1>3, FunIsSeq
  <1> QED BY <1>2, <1>4, <1>5 DEF n

\* In a piece of a text as in the text.
LEMMA ReplacedIn ==
  ASSUME NEW C, NEW t \in Seq(C), NEW c, NEW d \in C, NEW i \in 1..(Len(t) + 1), NEW j \in (i - 1)..Len(t)
  PROVE  Edits!Replaced(SubSeq(t, i, j), c, d) = SubSeq(Edits!Replaced(t, c, d), i, j)
  <1>1. PICK piece, r, rp, rs :
          /\ piece = SubSeq(t, i, j) /\ r = Edits!Replaced(t, c, d)
          /\ rp = Edits!Replaced(piece, c, d) /\ rs = SubSeq(r, i, j)
    BY Zenon
  <1>0. Len(t) \in Nat /\ i \in Nat \ {0} /\ j \in Nat
    OBVIOUS
  <1>2. /\ piece \in Seq(C) /\ Len(piece) = j - i + 1
        /\ \A k \in 1..(j - i + 1) : piece[k] = t[i + k - 1] /\ i + k - 1 \in 1..Len(t)
    BY <1>0, <1>1, SMTT(30)
  <1>3. r \in Seq(C) /\ Len(r) = Len(t) /\ \A k \in 1..Len(t) : r[k] = IF t[k] = c THEN d ELSE t[k]
    BY <1>1, ReplacedIs
  <1>4. rp \in Seq(C) /\ Len(rp) = j - i + 1 /\ \A k \in 1..(j - i + 1) : rp[k] = IF piece[k] = c THEN d ELSE piece[k]
    <2>1. rp = Edits!Replaced(piece, c, d) /\ piece \in Seq(C)
      BY <1>1, <1>2
    <2>2. rp \in Seq(C) /\ Len(rp) = Len(piece) /\ \A k \in 1..Len(piece) : rp[k] = IF piece[k] = c THEN d ELSE piece[k]
      BY <2>1, ReplacedIs
    <2> QED BY <1>2, <2>2
  <1>5. rs \in Seq(C) /\ Len(rs) = j - i + 1 /\ \A k \in 1..(j - i + 1) : rs[k] = r[i + k - 1]
    BY <1>0, <1>1, <1>3
  <1>6. \A k \in 1..(j - i + 1) : rp[k] = rs[k]
    BY <1>2, <1>3, <1>4, <1>5, Zenon
  <1>7. rp = rs
    BY <1>4, <1>5, <1>6, SameSeq, Zenon
  <1> QED BY <1>1, <1>7

\* Two texts, one behind the other.
LEMMA JoinIs ==
  ASSUME NEW C, NEW x \in Seq(C), NEW y \in Seq(C)
  PROVE  /\ x \o y \in Seq(C) /\ Len(x \o y) = Len(x) + Len(y)
         /\ \A k \in 1..(Len(x) + Len(y)) : (x \o y)[k] = IF k <= Len(x) THEN x[k] ELSE y[k - Len(x)]
  OBVIOUS

\* In a text and what follows it.
LEMMA ReplacedInBoth ==
  ASSUME NEW C, NEW x \in Seq(C), NEW y \in Seq(C), NEW c, NEW d \in C
  PROVE  Edits!Replaced(x \o y, c, d) = Edits!Replaced(x, c, d) \o Edits!Replaced(y, c, d)
  <1>1. PICK z, rx, ry, rz, both :
          /\ z = x \o y /\ rx = Edits!Replaced(x, c, d) /\ ry = Edits!Replaced(y, c, d)
          /\ rz = Edits!Replaced(z, c, d) /\ both = rx \o ry
    BY Zenon
  <1>2. PICK m \in Nat, n \in Nat : m = Len(x) /\ n = Len(y)
    OBVIOUS
  <1>3. z \in Seq(C) /\ Len(z) = m + n /\ \A k \in 1..(m + n) : z[k] = IF k <= m THEN x[k] ELSE y[k - m]
    BY <1>1, <1>2
  <1>4. /\ rx \in Seq(C) /\ Len(rx) = m /\ \A k \in 1..m : rx[k] = IF x[k] = c THEN d ELSE x[k]
        /\ ry \in Seq(C) /\ Len(ry) = n /\ \A k \in 1..n : ry[k] = IF y[k] = c THEN d ELSE y[k]
        /\ rz \in Seq(C) /\ Len(rz) = m + n /\ \A k \in 1..(m + n) : rz[k] = IF z[k] = c THEN d ELSE z[k]
    <2>4. rz = Edits!Replaced(z, c, d) /\ z \in Seq(C)
      BY <1>1, <1>3
    <2>1. rz \in Seq(C) /\ Len(rz) = Len(z) /\ \A k \in 1..Len(z) : rz[k] = IF z[k] = c THEN d ELSE z[k]
      BY <2>4, ReplacedIs
    <2>2. rx \in Seq(C) /\ Len(rx) = m /\ \A k \in 1..m : rx[k] = IF x[k] = c THEN d ELSE x[k]
      BY <1>1, <1>2, ReplacedIs
    <2>3. ry \in Seq(C) /\ Len(ry) = n /\ \A k \in 1..n : ry[k] = IF y[k] = c THEN d ELSE y[k]
      BY <1>1, <1>2, ReplacedIs
    <2> QED BY <1>3, <2>1, <2>2, <2>3
  <1>5. both \in Seq(C) /\ Len(both) = m + n /\ \A k \in 1..(m + n) : both[k] = IF k <= m THEN rx[k] ELSE ry[k - m]
    <2>1. rx \in Seq(C) /\ Len(rx) = m /\ ry \in Seq(C) /\ Len(ry) = n
      BY <1>4
    <2>2. both = rx \o ry
      BY <1>1
    <2>3. /\ rx \o ry \in Seq(C) /\ Len(rx \o ry) = Len(rx) + Len(ry)
          /\ \A k \in 1..(Len(rx) + Len(ry)) : (rx \o ry)[k] = IF k <= Len(rx) THEN rx[k] ELSE ry[k - Len(rx)]
      BY <2>1, JoinIs, Zenon
    <2> QED BY <2>1, <2>2, <2>3, Zenon
  <1>6. ASSUME NEW k \in 1..(m + n) PROVE rz[k] = both[k]
    <2>1. CASE k <= m
      <3>1. k \in 1..m
        BY <2>1
      <3>2. rz[k] = (IF z[k] = c THEN d ELSE z[k]) /\ rx[k] = IF x[k] = c THEN d ELSE x[k]
        BY <1>4, <3>1
      <3>3. z[k] = x[k] /\ both[k] = rx[k]
        BY <1>3, <1>5, <2>1
      <3> QED BY <3>2, <3>3
    <2>2. CASE ~(k <= m)
      <3>1. k - m \in 1..n
        BY <2>2
      <3>2. rz[k] = (IF z[k] = c THEN d ELSE z[k]) /\ ry[k - m] = IF y[k - m] = c THEN d ELSE y[k - m]
        BY <1>4, <3>1
      <3>3. z[k] = y[k - m] /\ both[k] = ry[k - m]
        BY <1>3, <1>5, <2>2
      <3> QED BY <3>2, <3>3
    <2> QED BY <2>1, <2>2
  <1>7. rz = both
    <2>1. rz \in Seq(C) /\ both \in Seq(C) /\ Len(rz) = Len(both) /\ \A k \in 1..Len(rz) : rz[k] = both[k]
      BY <1>4, <1>5, <1>6
    <2> QED BY <2>1, SameSeq
  <1> QED BY <1>1, <1>7

\* And in a text between two others.
Between(x, y, z) == (x \o y) \o z

\* What is between two others is replaced on its own.
LEMMA ReplacedInThree ==
  ASSUME NEW C, NEW x \in Seq(C), NEW y \in Seq(C), NEW z \in Seq(C), NEW c, NEW d \in C
  PROVE  Edits!Replaced(Between(x, y, z), c, d)
           = Between(Edits!Replaced(x, c, d), Edits!Replaced(y, c, d), Edits!Replaced(z, c, d))
  <1>1. PICK xy : xy = x \o y
    BY Zenon
  <1>2. xy \in Seq(C)
    BY <1>1
  <1>3. Edits!Replaced(xy \o z, c, d) = Edits!Replaced(xy, c, d) \o Edits!Replaced(z, c, d)
    BY <1>2, ReplacedInBoth, SMTT(30)
  <1>4. Edits!Replaced(x \o y, c, d) = Edits!Replaced(x, c, d) \o Edits!Replaced(y, c, d)
    BY ReplacedInBoth, SMTT(30)
  <1> QED BY <1>1, <1>3, <1>4, Zenon DEF Between

\* A place of a text and what it holds after a splice.
LEMMA SpliceIs ==
  ASSUME NEW C, NEW t \in Seq(C), NEW new \in Seq(C), NEW i \in 1..(Len(t) + 1), NEW n \in 0..(Len(t) + 1 - i)
  PROVE  /\ Edits!Splice(t, i, n, new) = SubSeq(t, 1, i - 1) \o new \o SubSeq(t, i + n, Len(t))
         /\ SubSeq(t, 1, i - 1) \in Seq(C) /\ SubSeq(t, i + n, Len(t)) \in Seq(C)
         /\ Edits!Splice(t, i, n, new) \in Seq(C)
  <1>1. SubSeq(t, 1, i - 1) \in Seq(C) /\ SubSeq(t, i + n, Len(t)) \in Seq(C)
    OBVIOUS
  <1> QED BY <1>1 DEF Edits!Splice

\* In a splice as in the text and in what is put into it.
LEMMA ReplacedAround ==
  ASSUME NEW C, NEW t \in Seq(C), NEW new \in Seq(C), NEW i \in 1..(Len(t) + 1), NEW n \in 0..(Len(t) + 1 - i),
         NEW c, NEW d \in C
  PROVE  Edits!Replaced(Edits!Splice(t, i, n, new), c, d)
           = Edits!Splice(Edits!Replaced(t, c, d), i, n, Edits!Replaced(new, c, d))
  <1>1. PICK before, behind : before = SubSeq(t, 1, i - 1) /\ behind = SubSeq(t, i + n, Len(t))
    BY Zenon
  <1>2. PICK r : r = Edits!Replaced(t, c, d)
    OBVIOUS
  <1>3. Len(t) \in Nat /\ r \in Seq(C) /\ Len(r) = Len(t)
    BY <1>2, ReplacedIs
  <1>4. Edits!Replaced(before, c, d) = SubSeq(r, 1, i - 1)
    <2>1. 1 \in 1..(Len(t) + 1) /\ i - 1 \in (1 - 1)..Len(t)
      BY <1>3
    <2> QED BY <1>1, <1>2, <2>1, ReplacedIn, SMTT(30)
  <1>5. Edits!Replaced(behind, c, d) = SubSeq(r, i + n, Len(t))
    <2>1. i + n \in 1..(Len(t) + 1) /\ Len(t) \in (i + n - 1)..Len(t)
      BY <1>3
    <2> QED BY <1>1, <1>2, <2>1, ReplacedIn, SMTT(30)
  <1>6. before \in Seq(C) /\ behind \in Seq(C)
    BY <1>1, SpliceIs, Zenon
  <1>7. Edits!Replaced(Between(before, new, behind), c, d)
          = Between(Edits!Replaced(before, c, d), Edits!Replaced(new, c, d), Edits!Replaced(behind, c, d))
    BY <1>6, ReplacedInThree
  <1>8. Edits!Splice(t, i, n, new) = Between(before, new, behind)
    BY <1>1 DEF Edits!Splice, Between
  <1>9. Edits!Splice(r, i, n, Edits!Replaced(new, c, d))
          = Between(SubSeq(r, 1, i - 1), Edits!Replaced(new, c, d), SubSeq(r, i + n, Len(t)))
    BY <1>3 DEF Edits!Splice, Between
  <1> QED BY <1>2, <1>4, <1>5, <1>7, <1>8, <1>9

\* A text has no c when it counts none.
LEMMA CountsNone ==
  ASSUME NEW C, NEW t \in Seq(C), NEW c
  PROVE  /\ Edits!Count(t, c) \in Nat
         /\ Edits!Count(t, c) = 0 <=> Without(t, c)
  <1> DEFINE S == {i \in DOMAIN t : t[i] = c}
  <1>1. Len(t) \in Nat /\ DOMAIN t = 1..Len(t)
    OBVIOUS
  <1>2. IsFiniteSet(1..Len(t))
    BY <1>1, FS_Interval
  <1>3. S \in SUBSET (1..Len(t))
    BY <1>1
  <1>4. Edits!Count(t, c) = Cardinality(S)
    BY DEF Edits!Count, Edits!Cardinality, Cardinality
  <1>5. S = {} <=> Without(t, c)
    BY <1>1 DEF Without
  <1> HIDE DEF S
  <1>6. IsFiniteSet(S)
    BY <1>2, <1>3, FS_Subset, Zenon
  <1> QED BY <1>4, <1>5, <1>6, FS_EmptySet, FS_CardinalityType

\* A normalized text gets its ends of line and loses them again.
LEMMA EndsOfLine ==
  ASSUME NEW C, Endings \subseteq C, NEW t \in Seq(C), Without(t, "crlf"), NEW e \in Endings
  PROVE  /\ Edits!ApplyEol(t, e) \in Seq(C) /\ Len(Edits!ApplyEol(t, e)) = Len(t)
         /\ Edits!Normalized(Edits!ApplyEol(t, e)) = t
  <1>0. "nl" \in C /\ "crlf" \in C /\ e \in C /\ "nl" # "crlf" /\ Len(t) \in Nat
    BY DEF Endings
  <1>1. PICK x, y : x = Edits!ApplyEol(t, e) /\ y = Edits!Normalized(x)
    OBVIOUS
  <1>2. x \in Seq(C) /\ Len(x) = Len(t) /\ \A i \in 1..Len(t) : x[i] = IF t[i] = "nl" THEN e ELSE t[i]
    BY <1>0, <1>1, ReplacedIs DEF Edits!ApplyEol
  <1>3. y \in Seq(C) /\ Len(y) = Len(x) /\ \A i \in 1..Len(x) : y[i] = IF x[i] = "crlf" THEN "nl" ELSE x[i]
    BY <1>0, <1>1, <1>2, ReplacedIs DEF Edits!Normalized
  <1>4. \A i \in 1..Len(y) : y[i] = t[i]
    <2> SUFFICES ASSUME NEW i \in 1..Len(t) PROVE y[i] = t[i]
      BY <1>2, <1>3
    <2>1. t[i] # "crlf" /\ e \in {"nl", "crlf"}
      BY DEF Without, Endings
    <2> QED BY <1>0, <1>2, <1>3, <2>1
  <1>5. y = t
    BY <1>2, <1>3, <1>4, SameSeq
  <1> QED BY <1>1, <1>2, <1>5

\* A normalized text is one without the other end of line.
LEMMA NormalizedIs ==
  ASSUME NEW C, Endings \subseteq C, NEW t \in Seq(C)
  PROVE  /\ Edits!Normalized(t) \in Seq(C) /\ Len(Edits!Normalized(t)) = Len(t)
         /\ Without(Edits!Normalized(t), "crlf")
  <1>0. "nl" \in C /\ "nl" # "crlf"
    BY DEF Endings
  <1>1. PICK y : y = Edits!Normalized(t)
    OBVIOUS
  <1>2. y \in Seq(C) /\ Len(y) = Len(t) /\ \A i \in 1..Len(t) : y[i] = IF t[i] = "crlf" THEN "nl" ELSE t[i]
    BY <1>0, <1>1, ReplacedIs DEF Edits!Normalized
  <1>3. Without(y, "crlf")
    BY <1>0, <1>2 DEF Without
  <1> QED BY <1>1, <1>2, <1>3

\* A text with one end of line has it again after the way there and back.
LEMMA UniformComesBack ==
  ASSUME NEW C, Endings \subseteq C, NEW t \in Seq(C),
         Edits!Count(t, "nl") = 0 \/ Edits!Count(t, "crlf") = 0
  PROVE  /\ Edits!DetectEol(t) \in Endings
         /\ Edits!ApplyEol(Edits!Normalized(t), Edits!DetectEol(t)) = t
  <1>0. "nl" \in C /\ "crlf" \in C /\ "nl" # "crlf" /\ Len(t) \in Nat
    BY DEF Endings
  <1>1. PICK e, x, y : e = Edits!DetectEol(t) /\ x = Edits!Normalized(t) /\ y = Edits!ApplyEol(x, e)
    OBVIOUS
  <1>2. e \in Endings
    BY <1>1 DEF Edits!DetectEol, Endings
  <1>3. x \in Seq(C) /\ Len(x) = Len(t) /\ \A i \in 1..Len(t) : x[i] = IF t[i] = "crlf" THEN "nl" ELSE t[i]
    BY <1>0, <1>1, ReplacedIs DEF Edits!Normalized
  <1>4. y \in Seq(C) /\ Len(y) = Len(x) /\ \A i \in 1..Len(x) : y[i] = IF x[i] = "nl" THEN e ELSE x[i]
    <2>1. e \in C
      BY <1>2
    <2> QED BY <1>1, <1>3, <2>1, ReplacedIs DEF Edits!ApplyEol
  <1>5. PICK lf, crlf : lf = Edits!Count(t, "nl") /\ crlf = Edits!Count(t, "crlf")
    OBVIOUS
  <1>6. lf \in Nat /\ crlf \in Nat /\ (lf = 0 <=> Without(t, "nl")) /\ (crlf = 0 <=> Without(t, "crlf"))
    BY <1>5, CountsNone
  <1>7. e = IF crlf > 0 /\ crlf * 2 >= crlf + lf THEN "crlf" ELSE "nl"
    BY <1>1, <1>5 DEF Edits!DetectEol
  <1>8. CASE crlf = 0
    <2>1. e = "nl" /\ Without(t, "crlf")
      BY <1>6, <1>7, <1>8
    <2>2. \A i \in 1..Len(y) : y[i] = t[i]
      BY <1>3, <1>4, <2>1 DEF Without
    <2>3. y = t
      BY <1>3, <1>4, <2>2, SameSeq
    <2> QED BY <1>1, <1>2, <2>3
  <1>9. CASE crlf # 0
    <2>1. lf = 0
      BY <1>5, <1>9
    <2>2. e = "crlf" /\ Without(t, "nl")
      BY <1>6, <1>7, <1>9, <2>1
    <2>3. \A i \in 1..Len(y) : y[i] = t[i]
      BY <1>0, <1>3, <1>4, <2>2 DEF Without
    <2>4. y = t
      BY <1>3, <1>4, <2>3, SameSeq
    <2> QED BY <1>1, <1>2, <2>4
  <1> QED BY <1>8, <1>9

\* A text that is staged has one end of line, and changes in no other way.
LEMMA StagedIs ==
  ASSUME NEW C, Endings \subseteq C, NEW content \in Seq(C), NEW text \in Seq(C)
  PROVE  Edits!Normalized(Edits!Staged(content, text)) = Edits!Normalized(text)
  <1>1. PICK eol, normal : eol = Edits!DetectEol(content) /\ normal = Edits!Normalized(text)
    OBVIOUS
  <1>2. eol \in Endings
    BY <1>1 DEF Edits!DetectEol, Endings
  <1>3. normal \in Seq(C) /\ Without(normal, "crlf")
    BY <1>1, NormalizedIs
  <1>4. Edits!Normalized(Edits!ApplyEol(normal, eol)) = normal
    BY <1>2, <1>3, EndsOfLine
  <1> QED BY <1>1, <1>4 DEF Edits!Staged

\* Around what is put into a text with one end of line nothing changes.
LEMMA StagedAround ==
  ASSUME NEW C, Endings \subseteq C, NEW content \in Seq(C), NEW new \in Seq(C),
         NEW i \in 1..(Len(content) + 1), NEW n \in 0..(Len(content) + 1 - i), Edits!Uniform(content)
  PROVE  Edits!Staged(content, Edits!Splice(content, i, n, new))
           = Edits!Splice(content, i, n, Edits!ApplyEol(Edits!Normalized(new), Edits!DetectEol(content)))
  <1>1. PICK crlf, nl, eol, normal, put :
          /\ crlf = "crlf" /\ nl = "nl" /\ eol = Edits!DetectEol(content)
          /\ normal = Edits!Replaced(content, crlf, nl) /\ put = Edits!Replaced(new, crlf, nl)
    BY Zenon
  <1>2. nl \in C /\ eol \in C
    BY <1>1 DEF Edits!DetectEol, Endings
  <1>3. normal \in Seq(C) /\ Len(normal) = Len(content) /\ put \in Seq(C)
    BY <1>1, <1>2, ReplacedIs
  <1>4. Edits!Replaced(Edits!Splice(content, i, n, new), crlf, nl) = Edits!Splice(normal, i, n, put)
    BY <1>1, <1>2, ReplacedAround
  <1>5. Edits!Replaced(Edits!Splice(normal, i, n, put), nl, eol)
          = Edits!Splice(Edits!Replaced(normal, nl, eol), i, n, Edits!Replaced(put, nl, eol))
    <2>1. i \in 1..(Len(normal) + 1) /\ n \in 0..(Len(normal) + 1 - i)
      BY <1>3
    <2>2. normal \in Seq(C) /\ put \in Seq(C) /\ eol \in C
      BY <1>2, <1>3
    <2> QED BY <2>1, <2>2, ReplacedAround, SMTT(60)
  <1>6. Edits!ApplyEol(normal, eol) = content
    BY <1>1, UniformComesBack, Zenon DEF Edits!Uniform, Edits!Normalized
  <1> QED BY <1>1, <1>4, <1>5, <1>6, Zenon DEF Edits!Staged, Edits!ApplyEol, Edits!Normalized

\* Whatever a file and an edit hold: an edit that is applied replaces one place,
\* and there was no second one beside it, if its new text has no sign that
\* String.replace reads.  Only ends of line may change elsewhere, and none does
\* in a file with one of the two.
THEOREM EditsReplaceOnePlace ==
  ASSUME NEW A, NEW content \in Seq(A), NEW edit, edit.old \in Seq(A), edit.new \in Seq(A),
         edit.replaceAll \in BOOLEAN, \A i \in 1..Len(edit.new) : edit.new[i] # "$&"
  PROVE  Edits!EditIsExact(content, edit)
  <1>1. PICK result, old, places :
          /\ result = Edits!EditOnce(content, edit) /\ old = edit.old /\ places = Edits!Places(content, edit.old)
    OBVIOUS
  <1> DEFINE given == Edits!ApplyEol(Edits!Normalized(edit.new), Edits!DetectEol(content))
             One(i, text) ==
               /\ Edits!Normalized(text) = Edits!Normalized(Edits!Splice(content, i, Len(old), edit.new))
               /\ Edits!Uniform(content) => text = Edits!Splice(content, i, Len(old), given)
  <1>2. SUFFICES ASSUME result.applied, ~edit.replaceAll
                 PROVE  /\ \E i \in Edits!Occurrences(content, old) : One(i, Edits!Staged(content, result.text))
                        /\ \A i, j \in Edits!Occurrences(content, old) : i < j => j < i + Len(old)
    <2>1. ~Edits!Refused.applied /\ \A t : Edits!Applied(t).text = t
      BY DEF Edits!Refused, Edits!Applied
    <2>2. Edits!EditFile(content, <<edit>>)
            = IF result.applied THEN Edits!Applied(Edits!Staged(content, result.text)) ELSE Edits!Refused
      BY <1>1, OneEdit
    <2>3. Edits!EditFile(content, <<edit>>).applied =>
            result.applied /\ Edits!EditFile(content, <<edit>>).text = Edits!Staged(content, result.text)
      BY <2>1, <2>2
    <2> QED BY <1>1, <2>3 DEF Edits!EditIsExact
  <1> HIDE DEF given
  <1>3. old # <<>> /\ places # <<>> /\ ~Edits!Ambiguous(places, edit)
    <2>1. ~Edits!Refused.applied
      BY DEF Edits!Refused
    <2> QED BY <1>1, <1>2, <2>1 DEF Edits!EditOnce
  <1>4. result = Edits!Applied(Edits!Splice(content, Head(places), Len(old), Edits!Expanded(edit.new, old)))
    BY <1>1, <1>2, <1>3 DEF Edits!EditOnce
  <1>5. Len(old) \in Nat \ {0}
    BY <1>1, <1>3
  <1>6. Sole(places, content, old, Len(content))
    BY <1>1, <1>5, PlacesAreSole
  <1>7. Len(places) = 1 /\ Head(places) = places[1]
    <2>1. places \in Seq(1..Len(content))
      BY <1>6 DEF Sole
    <2>2. Len(places) \in Nat /\ Len(places) # 0 /\ Head(places) = places[1]
      BY <1>3, <2>1
    <2>3. ~(Len(places) > 1)
      BY <1>2, <1>3 DEF Edits!Ambiguous
    <2>4. PICK len : len = Len(places)
      BY Zenon
    <2>5. len = 1
      <3>1. len \in Nat /\ len # 0 /\ ~(len > 1)
        BY <2>2, <2>3, <2>4, Zenon
      <3> QED BY <3>1
    <2> QED BY <2>2, <2>4, <2>5, Zenon
  <1>8. PICK p : p = places[1]
    OBVIOUS
  <1>9. /\ p \in Edits!Occurrences(content, old) /\ p \in Nat
        /\ \A i \in 1..Len(content) : i \in Edits!Occurrences(content, old) => p <= i /\ i < p + Len(old)
    <2>1. 1 \in 1..Len(places) /\ places \in Seq(1..Len(content))
      BY <1>6, <1>7 DEF Sole
    <2>2. p \in 1..Len(content)
      BY <1>8, <2>1
    <2> QED BY <1>6, <1>7, <1>8, <2>1, <2>2 DEF Sole
  <1>10. result.text = Edits!Splice(content, p, Len(old), edit.new)
    <2>1. Edits!Expanded(edit.new, old) = edit.new
      BY ExpandsToItself
    <2> QED BY <1>4, <1>7, <1>8, <2>1 DEF Edits!Applied
  <1>11. \A i \in Edits!Occurrences(content, old) : i \in 1..Len(content)
    <2>1. Len(content) \in Nat
      OBVIOUS
    <2> QED BY <1>5, <2>1 DEF Edits!Occurrences
  <1>12. \A i, j \in Edits!Occurrences(content, old) : i < j => j < i + Len(old)
    <2> SUFFICES ASSUME NEW i \in Edits!Occurrences(content, old), NEW j \in Edits!Occurrences(content, old)
                 PROVE  j < i + Len(old)
      OBVIOUS
    <2>1. i \in 1..Len(content) /\ j \in 1..Len(content) /\ p <= i /\ j < p + Len(old)
      BY <1>9, <1>11, Zenon
    <2>2. Len(content) \in Nat
      OBVIOUS
    <2> QED BY <1>5, <1>9, <2>1, <2>2
  <1>13. One(p, Edits!Staged(content, result.text))
    <2>1. PICK C : C = A \cup Endings
      BY Zenon
    <2>2. Endings \subseteq C /\ content \in Seq(C) /\ edit.new \in Seq(C)
      BY <2>1
    <2>3. p \in 1..(Len(content) + 1) /\ Len(old) \in 0..(Len(content) + 1 - p)
      <3>1. PICK l \in Nat, n \in Nat : l = Len(content) /\ n = Len(old)
        BY <1>5
      <3>2. p \in 1..(l - n + 1)
        BY <1>9, <3>1 DEF Edits!Occurrences
      <3>3. p \in 1..(l + 1) /\ n \in 0..(l + 1 - p)
        BY <3>1, <3>2
      <3> QED BY <3>1, <3>3, Zenon
    <2>4. result.text \in Seq(C)
      <3>1. PICK n, new : n = Len(old) /\ new = edit.new
        BY Zenon
      <3>2. new \in Seq(C) /\ n \in 0..(Len(content) + 1 - p)
        BY <2>2, <2>3, <3>1, Zenon
      <3>3. Edits!Splice(content, p, n, new) \in Seq(C)
        BY <2>2, <2>3, <3>2, SpliceIs
      <3> QED BY <1>10, <3>1, <3>3, Zenon
    <2>5. Edits!Normalized(Edits!Staged(content, result.text)) = Edits!Normalized(result.text)
      BY <2>2, <2>4, StagedIs
    <2>6. ASSUME Edits!Uniform(content)
          PROVE  Edits!Staged(content, result.text) = Edits!Splice(content, p, Len(old), given)
      BY <1>10, <2>2, <2>3, <2>6, StagedAround DEF given
    <2> QED BY <1>10, <2>5, <2>6
  <1> QED BY <1>9, <1>12, <1>13

\* A piece of a text without c has none.
LEMMA PieceWithout ==
  ASSUME NEW C, NEW t \in Seq(C), NEW i \in 1..(Len(t) + 1), NEW j \in (i - 1)..Len(t)
  PROVE  /\ SubSeq(t, i, j) \in Seq(C) /\ Len(SubSeq(t, i, j)) = j - i + 1
         /\ \A c : Without(t, c) => Without(SubSeq(t, i, j), c)
  <1>1. PICK piece : piece = SubSeq(t, i, j)
    BY Zenon
  <1>2. /\ piece \in Seq(C) /\ Len(piece) = j - i + 1
        /\ \A k \in 1..(j - i + 1) : piece[k] = t[i + k - 1] /\ i + k - 1 \in 1..Len(t)
    BY <1>1
  <1>3. ASSUME NEW c, Without(t, c) PROVE Without(piece, c)
    BY <1>2, <1>3, Zenon DEF Without
  <1> QED BY <1>1, <1>2, <1>3

\* A trimmed text is a piece of the text.
LEMMA TrimIs ==
  ASSUME NEW C, NEW t \in Seq(C)
  PROVE  /\ Edits!Trim(t) \in Seq(C)
         /\ \A c : Without(t, c) => Without(Edits!Trim(t), c)
  <1> DEFINE inked == {i \in DOMAIN t : t[i] \notin Edits!Blank}
  <1>0. Len(t) \in Nat /\ DOMAIN t = 1..Len(t)
    OBVIOUS
  <1>1. inked \in SUBSET (1..Len(t)) /\ inked \in SUBSET Nat
    BY <1>0
  <1>2. Edits!Trim(t) = IF inked = {} THEN <<>> ELSE SubSeq(t, Edits!Min(inked), Edits!Max(inked))
    BY DEF Edits!Trim
  <1> HIDE DEF inked
  <1>3. CASE inked = {}
    <2>1. Edits!Trim(t) = <<>>
      BY <1>2, <1>3
    <2>2. \A c : Without(<<>>, c)
      BY DEF Without
    <2> QED BY <2>1, <2>2
  <1>4. CASE inked # {}
    <2>1. PICK n \in inked : TRUE
      BY <1>4
    <2>2. PICK i, j : i = Edits!Min(inked) /\ j = Edits!Max(inked)
      OBVIOUS
    <2>3. i \in inked /\ j \in inked /\ i <= j
      <3>1. i \in inked /\ \A x \in inked : i <= x
        BY <1>1, <2>1, <2>2, MinIs
      <3>2. j \in inked
        BY <1>0, <1>1, <2>1, <2>2, MaxIs, Zenon
      <3> QED BY <3>1, <3>2
    <2>4. i \in 1..(Len(t) + 1) /\ j \in (i - 1)..Len(t)
      BY <1>0, <1>1, <2>3
    <2>5. Edits!Trim(t) = SubSeq(t, i, j)
      BY <1>2, <1>4, <2>2, Zenon
    <2> QED BY <2>4, <2>5, PieceWithout
  <1> QED BY <1>3, <1>4

\* Something stands in a normalized text where it stands in the file.
LEMMA SameOccurrences ==
  ASSUME NEW C, Endings \subseteq C, NEW t \in Seq(C), Without(t, "crlf"),
         NEW w \in Seq(C), Without(w, "crlf"), NEW e \in Endings
  PROVE  Edits!Occurrences(Edits!ApplyEol(t, e), Edits!ApplyEol(w, e)) = Edits!Occurrences(t, w)
  <1>1. PICK x, y : x = Edits!ApplyEol(t, e) /\ y = Edits!ApplyEol(w, e)
    OBVIOUS
  <1>2. /\ x \in Seq(C) /\ Len(x) = Len(t) /\ Edits!Normalized(x) = t
        /\ y \in Seq(C) /\ Len(y) = Len(w) /\ Edits!Normalized(y) = w
    BY <1>1, EndsOfLine
  <1>3. PICK m, n : m = Len(t) /\ n = Len(w)
    BY Zenon
  <1>4. m \in Nat /\ n \in Nat
    BY <1>3
  <1>5. ASSUME NEW i \in 1..(m - n + 1) PROVE SubSeq(x, i, i + n - 1) = y <=> SubSeq(t, i, i + n - 1) = w
    <2>1. i \in 1..(Len(t) + 1) /\ i + n - 1 \in (i - 1)..Len(t)
      BY <1>3, <1>4
    <2>2. "nl" \in C /\ e \in C
      BY DEF Endings
    <2>3. PICK px, pt : px = SubSeq(x, i, i + n - 1) /\ pt = SubSeq(t, i, i + n - 1)
      BY Zenon
    <2>4. Edits!ApplyEol(pt, e) = px
      BY <1>1, <2>1, <2>2, <2>3, ReplacedIn DEF Edits!ApplyEol
    <2>5. Edits!Normalized(px) = pt
      BY <1>2, <2>1, <2>2, <2>3, ReplacedIn DEF Edits!Normalized
    <2> QED BY <1>1, <1>2, <2>3, <2>4, <2>5, Zenon
  <1>6. Edits!Occurrences(x, y) = Edits!Occurrences(t, w)
    BY <1>2, <1>3, <1>5, Zenon DEF Edits!Occurrences
  <1> QED BY <1>1, <1>6

\* Joining is associative, and what begins alike goes on alike.
LEMMA Associates ==
  ASSUME NEW C, NEW x \in Seq(C), NEW y \in Seq(C), NEW z \in Seq(C)
  PROVE  (x \o y) \o z = x \o (y \o z) /\ x \o <<>> = x /\ <<>> \o x = x
  BY SMTT(30)

\* What is the same behind the same beginning is the same.
LEMMA GoesOnAlike ==
  ASSUME NEW C, NEW x \in Seq(C), NEW y \in Seq(C), NEW c, <<c>> \o x = <<c>> \o y
  PROVE  x = y
  <1>1. PICK u, v : u = <<c>> \o x /\ v = <<c>> \o y
    BY Zenon
  <1>2. /\ Len(x) \in Nat /\ Len(u) = Len(x) + 1 /\ \A i \in 1..Len(x) : u[i + 1] = x[i]
        /\ Len(y) \in Nat /\ Len(v) = Len(y) + 1 /\ \A i \in 1..Len(y) : v[i + 1] = y[i]
    BY <1>1
  <1>3. u = v
    BY <1>1
  <1>4. Len(x) = Len(y) /\ \A i \in 1..Len(x) : x[i] = y[i]
    BY <1>2, <1>3
  <1> QED BY <1>4, SameSeq

\* What is joined onto something is joined onto nothing and put behind it.
LEMMA JoinedOnto ==
  ASSUME NEW C, NEW seqs \in Seq(Seq(C)), NEW s \in Seq(C), NEW t, NEW u,
         Runs("join", s, seqs, t), Runs("join", <<>>, seqs, u)
  PROVE  t = s \o u
  <1> DEFINE L == Len(seqs)
  <1>0. L \in Nat /\ \A i \in 1..L : seqs[i] \in Seq(C)
    OBVIOUS
  <1>1. PICK f : f[0] = s /\ f[L] = t /\ Running(f, "join", seqs, L)
    BY DEF Runs
  <1>2. PICK g : g[0] = <<>> /\ g[L] = u /\ Running(g, "join", seqs, L)
    BY DEF Runs
  <1>3. \A i \in 1..L : f[i] = f[i - 1] \o seqs[i] /\ g[i] = g[i - 1] \o seqs[i]
    BY <1>1, <1>2, Zenon DEF Running, Move
  <1> DEFINE S == {i \in 0..L : g[i] \in Seq(C) /\ f[i] = s \o g[i]}
  <1> HIDE DEF L
  <1>4. 0 \in S
    <2>1. 0 \in 0..L /\ s \o <<>> = s /\ <<>> \in Seq(C)
      BY <1>0
    <2> QED BY <1>1, <1>2, <2>1, Zenon
  <1>5. \A m \in 0..(L - 1) : m \in S => m + 1 \in S
    <2> SUFFICES ASSUME NEW m \in 0..(L - 1), m \in S PROVE m + 1 \in S
      BY Zenon
    <2>1. m + 1 \in 1..L /\ m + 1 \in 0..L /\ (m + 1) - 1 = m
      BY <1>0
    <2>2. PICK x, y, z : x = g[m] /\ y = seqs[m + 1] /\ z = g[m + 1]
      OBVIOUS
    <2>3. x \in Seq(C) /\ y \in Seq(C) /\ f[m] = s \o x
      BY <1>0, <2>1, <2>2
    <2>4. z = x \o y /\ f[m + 1] = (s \o x) \o y
      BY <1>3, <2>1, <2>2, <2>3, Zenon
    <2>5. f[m + 1] = s \o z /\ z \in Seq(C)
      <3>1. (s \o x) \o y = s \o (x \o y)
        BY <2>3, Associates, SMTT(30)
      <3>2. x \o y \in Seq(C)
        BY <2>3
      <3> QED BY <2>4, <3>1, <3>2, Zenon
    <2> QED BY <2>1, <2>2, <2>5
  <1> HIDE DEF S
  <1>6. L \in S
    <2>1. L \in 0..L
      BY <1>0
    <2> QED BY <1>0, <1>4, <1>5, <2>1, UpTo, Zenon
  <1> QED BY <1>1, <1>2, <1>6, Zenon DEF S

\* What a list of texts is, joined.
LEMMA FlatIs ==
  ASSUME NEW C, NEW ss \in Seq(Seq(C))
  PROVE  Edits!FlattenSeq(ss) \in Seq(C) /\ Runs("join", <<>>, ss, Edits!FlattenSeq(ss))
  <1>1. PICK z : Runs("join", <<>>, ss, z)
    BY RunsAll, Zenon
  <1>2. Models!FlattenSeq(ss) = z /\ z \in Seq(C)
    BY <1>1, FlattenJoins, JoinedIsSeq
  <1>3. Edits!FlattenSeq(ss) = Models!FlattenSeq(ss)
    BY DEF Edits!FlattenSeq, Models!FlattenSeq
  <1> QED BY <1>1, <1>2, <1>3

\* The value of a joining run is the joined sequence.
LEMMA FlatRun ==
  ASSUME NEW C, NEW ss \in Seq(Seq(C)), NEW z, Runs("join", <<>>, ss, z)
  PROVE  Edits!FlattenSeq(ss) = z
  <1>1. Models!FlattenSeq(ss) = z
    BY FlattenJoins
  <1>2. Edits!FlattenSeq(ss) = Models!FlattenSeq(ss)
    BY DEF Edits!FlattenSeq, Models!FlattenSeq
  <1> QED BY <1>1, <1>2

\* Two lists, one behind the other, and a list of one text.
LEMMA FlatOfBoth ==
  ASSUME NEW C, NEW x \in Seq(Seq(C)), NEW y \in Seq(Seq(C))
  PROVE  Edits!FlattenSeq(x \o y) = Edits!FlattenSeq(x) \o Edits!FlattenSeq(y)
  <1>1. PICK fx, fy : fx = Edits!FlattenSeq(x) /\ fy = Edits!FlattenSeq(y)
    OBVIOUS
  <1>2. fx \in Seq(C) /\ Runs("join", <<>>, x, fx) /\ fy \in Seq(C) /\ Runs("join", <<>>, y, fy)
    BY <1>1, FlatIs
  <1>3. PICK t : Runs("join", fx, y, t)
    BY RunsAll, Zenon
  <1>4. t = fx \o fy
    BY <1>2, <1>3, JoinedOnto, Zenon
  <1>5. Runs("join", <<>>, x \o y, t)
    BY <1>2, <1>3, RunsOn
  <1>6. PICK xy : xy = x \o y
    BY Zenon
  <1>7. xy \in Seq(Seq(C))
    BY <1>6
  <1>8. Edits!FlattenSeq(xy) = t
    BY <1>5, <1>6, <1>7, FlatRun, Zenon
  <1> QED BY <1>1, <1>4, <1>6, <1>8

\* One sequence joined is itself, none is nothing.
LEMMA FlatOfOne ==
  ASSUME NEW C, NEW x \in Seq(C)
  PROVE  Edits!FlattenSeq(<<x>>) = x /\ Edits!FlattenSeq(<<>>) = <<>>
  <1>1. Move("join", <<>>, x) = x
    <2>1. <<>> \o x = x
      OBVIOUS
    <2> QED BY <2>1 DEF Move
  <1>2. PICK one : one = <<x>>
    BY Zenon
  <1>3. one \in Seq(Seq(C)) /\ Runs("join", <<>>, one, x)
    <2>1. Runs("join", <<>>, <<x>>, Move("join", <<>>, x))
      BY RunsOne
    <2> QED BY <1>1, <1>2, <2>1
  <1>4. Edits!FlattenSeq(one) = x
    BY <1>3, FlatRun
  <1>5. Edits!FlattenSeq(<<>>) = <<>>
    <2>1. <<>> \in Seq(Seq(C)) /\ Runs("join", <<>>, <<>>, <<>>)
      BY RunsNowhere
    <2> QED BY <2>1, FlatRun, Zenon
  <1> QED BY <1>2, <1>4, <1>5

\* Lines, each with an end of line before it.
Starts(lines) == [k \in 1..Len(lines) |-> <<"nl">> \o lines[k]]
Started(lines) == Edits!FlattenSeq(Starts(lines))

\* Each line gets an end of line before it.
LEMMA StartsAre ==
  ASSUME NEW C, "nl" \in C, NEW lines \in Seq(Seq(C))
  PROVE  /\ Starts(lines) \in Seq(Seq(C)) /\ Len(Starts(lines)) = Len(lines)
         /\ \A k \in 1..Len(lines) : Starts(lines)[k] = <<"nl">> \o lines[k]
  <1> DEFINE n == Len(lines)
             z == [k \in 1..n |-> <<"nl">> \o lines[k]]
  <1>1. n \in Nat /\ \A k \in 1..n : lines[k] \in Seq(C)
    OBVIOUS
  <1>2. \A k \in 1..n : <<"nl">> \o lines[k] \in Seq(C)
    <2>1. \A l \in Seq(C) : <<"nl">> \o l \in Seq(C)
      OBVIOUS
    <2> QED BY <1>1, <2>1
  <1>3. z \in [1..n -> Seq(C)] /\ \A k \in 1..n : z[k] = <<"nl">> \o lines[k]
    BY <1>2
  <1>4. Starts(lines) = z
    BY DEF Starts
  <1> HIDE DEF z, n
  <1>5. z \in Seq(Seq(C)) /\ Len(z) = n
    BY <1>1, <1>3, FunIsSeq
  <1> QED BY <1>3, <1>4, <1>5 DEF n

\* Lines behind others get theirs behind the ones of the others.
LEMMA StartsOfBoth ==
  ASSUME NEW C, "nl" \in C, NEW x \in Seq(Seq(C)), NEW y \in Seq(Seq(C))
  PROVE  Starts(x \o y) = Starts(x) \o Starts(y)
  <1>1. PICK z, sx, sy, sz, both :
          z = x \o y /\ sx = Starts(x) /\ sy = Starts(y) /\ sz = Starts(z) /\ both = sx \o sy
    BY Zenon
  <1>2. PICK m, n : m = Len(x) /\ n = Len(y)
    BY Zenon
  <1>3. m \in Nat /\ n \in Nat
    BY <1>2
  <1>4. z \in Seq(Seq(C)) /\ Len(z) = m + n /\ \A k \in 1..(m + n) : z[k] = IF k <= m THEN x[k] ELSE y[k - m]
    BY <1>1, <1>2
  <1>5. /\ sx \in Seq(Seq(C)) /\ Len(sx) = m /\ \A k \in 1..m : sx[k] = <<"nl">> \o x[k]
        /\ sy \in Seq(Seq(C)) /\ Len(sy) = n /\ \A k \in 1..n : sy[k] = <<"nl">> \o y[k]
    BY <1>1, <1>2, StartsAre, Zenon
  <1>6. sz \in Seq(Seq(C)) /\ Len(sz) = m + n /\ \A k \in 1..(m + n) : sz[k] = <<"nl">> \o z[k]
    <2>1. sz = Starts(z) /\ z \in Seq(Seq(C))
      BY <1>1, <1>4
    <2>2. sz \in Seq(Seq(C)) /\ Len(sz) = Len(z) /\ \A k \in 1..Len(z) : sz[k] = <<"nl">> \o z[k]
      BY <2>1, StartsAre, Zenon
    <2> QED BY <1>4, <2>2
  <1>7. both \in Seq(Seq(C)) /\ Len(both) = m + n /\ \A k \in 1..(m + n) : both[k] = IF k <= m THEN sx[k] ELSE sy[k - m]
    <2>1. sx \in Seq(Seq(C)) /\ Len(sx) = m /\ sy \in Seq(Seq(C)) /\ Len(sy) = n
      BY <1>5
    <2>2. /\ sx \o sy \in Seq(Seq(C)) /\ Len(sx \o sy) = Len(sx) + Len(sy)
          /\ \A k \in 1..(Len(sx) + Len(sy)) : (sx \o sy)[k] = IF k <= Len(sx) THEN sx[k] ELSE sy[k - Len(sx)]
      BY <2>1, JoinIs, Zenon
    <2>3. both = sx \o sy
      BY <1>1
    <2> QED BY <2>1, <2>2, <2>3, Zenon
  <1>8. ASSUME NEW k \in 1..(m + n) PROVE sz[k] = both[k]
    <2>1. CASE k <= m
      <3>1. k \in 1..m
        BY <1>3, <2>1
      <3>2. z[k] = x[k] /\ both[k] = sx[k]
        BY <1>4, <1>7, <2>1
      <3> QED BY <1>5, <1>6, <3>1, <3>2, Zenon
    <2>2. CASE ~(k <= m)
      <3>1. k - m \in 1..n
        BY <1>3, <2>2
      <3>2. z[k] = y[k - m] /\ both[k] = sy[k - m]
        BY <1>4, <1>7, <2>2
      <3> QED BY <1>5, <1>6, <3>1, <3>2, Zenon
    <2> QED BY <2>1, <2>2
  <1>9. sz = both
    <2>1. sz \in Seq(Seq(C)) /\ both \in Seq(Seq(C)) /\ Len(sz) = Len(both) /\ \A k \in 1..Len(sz) : sz[k] = both[k]
      BY <1>6, <1>7, <1>8
    <2> QED BY <2>1, SameSeq, Zenon
  <1> QED BY <1>1, <1>9

\* So do the texts they make.
LEMMA StartedIs ==
  ASSUME NEW C, "nl" \in C
  PROVE  /\ \A x \in Seq(Seq(C)) : Started(x) \in Seq(C)
         /\ \A x \in Seq(Seq(C)), y \in Seq(Seq(C)) : Started(x \o y) = Started(x) \o Started(y)
         /\ \A l \in Seq(C) : Started(<<l>>) = <<"nl">> \o l
         /\ Started(<<>>) = <<>>
  <1>1. ASSUME NEW x \in Seq(Seq(C)) PROVE Started(x) \in Seq(C)
    <2>1. Starts(x) \in Seq(Seq(C))
      BY StartsAre
    <2> QED BY <2>1, FlatIs DEF Started
  <1>2. ASSUME NEW x \in Seq(Seq(C)), NEW y \in Seq(Seq(C)) PROVE Started(x \o y) = Started(x) \o Started(y)
    <2>1. PICK sx, sy : sx = Starts(x) /\ sy = Starts(y)
      OBVIOUS
    <2>2. sx \in Seq(Seq(C)) /\ sy \in Seq(Seq(C))
      BY <2>1, StartsAre
    <2>3. Edits!FlattenSeq(sx \o sy) = Edits!FlattenSeq(sx) \o Edits!FlattenSeq(sy)
      BY <2>2, FlatOfBoth, Zenon
    <2>4. Starts(x \o y) = sx \o sy
      BY <2>1, StartsOfBoth, Zenon
    <2> QED BY <2>1, <2>3, <2>4, Zenon DEF Started
  <1>3. ASSUME NEW l \in Seq(C) PROVE Started(<<l>>) = <<"nl">> \o l
    <2>1. PICK line : line = <<"nl">> \o l
      BY Zenon
    <2>2. Starts(<<l>>) = <<line>>
      <3>1. \A k \in 1..1 : <<l>>[k] = l /\ <<line>>[k] = line
        OBVIOUS
      <3>2. Len(<<l>>) = 1 /\ <<line>> = [k \in 1..1 |-> line]
        OBVIOUS
      <3> QED BY <2>1, <3>1, <3>2 DEF Starts
    <2>3. line \in Seq(C)
      BY <2>1
    <2> QED BY <2>1, <2>2, <2>3, FlatOfOne, Zenon DEF Started
  <1>4. Started(<<>>) = <<>>
    <2>1. Starts(<<>>) = <<>>
      BY DEF Starts
    <2>2. <<>> \in Seq(C)
      OBVIOUS
    <2> QED BY <2>1, <2>2, FlatOfOne, Zenon DEF Started
  <1> QED BY <1>1, <1>2, <1>3, <1>4, Zenon

\* Lines are joined by the ends of line but the first one.
LEMMA JoinLinesIs ==
  ASSUME NEW C, "nl" \in C, NEW lines \in Seq(Seq(C)), lines # <<>>
  PROVE  Edits!JoinLines(lines) \in Seq(C) /\ <<"nl">> \o Edits!JoinLines(lines) = Started(lines)
  <1>1. PICK n, h, rest : n = Len(lines) /\ h = lines[1] /\ rest = Tail(lines)
    BY Zenon
  <1>2. /\ n \in Nat \ {0} /\ DOMAIN lines = 1..n /\ h \in Seq(C)
        /\ rest \in Seq(Seq(C)) /\ Len(rest) = n - 1 /\ \A k \in 1..(n - 1) : rest[k] = lines[k + 1]
    BY <1>1
  <1>3. PICK one, more : one = <<h>> /\ more = Starts(rest)
    BY Zenon
  <1>4. one \in Seq(Seq(C)) /\ Len(one) = 1 /\ one[1] = h
    BY <1>2, <1>3
  <1>5. more \in Seq(Seq(C)) /\ Len(more) = n - 1 /\ \A k \in 1..(n - 1) : more[k] = <<"nl">> \o rest[k]
    BY <1>2, <1>3, StartsAre, Zenon
  <1>6. lines = one \o rest
    BY <1>1, <1>3
  <1> DEFINE list == [k \in DOMAIN lines |-> IF k = 1 THEN lines[k] ELSE <<"nl">> \o lines[k]]
  <1>7. \A k \in 1..n : list[k] = IF k = 1 THEN h ELSE <<"nl">> \o lines[k]
    BY <1>1, <1>2
  <1>8. list = one \o more
    <2>1. list \in Seq(Seq(C)) /\ Len(list) = n
      <3>1. \A k \in 1..n : (IF k = 1 THEN lines[k] ELSE <<"nl">> \o lines[k]) \in Seq(C)
        <4>1. \A l \in Seq(C) : <<"nl">> \o l \in Seq(C)
          OBVIOUS
        <4>2. \A k \in 1..n : lines[k] \in Seq(C)
          BY <1>1
        <4> QED BY <4>1, <4>2
      <3>2. list \in [1..n -> Seq(C)]
        BY <1>2, <3>1
      <3> HIDE DEF list
      <3> QED BY <1>2, <3>2, FunIsSeq
    <2>2. PICK both : both = one \o more
      BY Zenon
    <2>3. both \in Seq(Seq(C)) /\ Len(both) = n /\ \A k \in 1..n : both[k] = IF k <= 1 THEN one[k] ELSE more[k - 1]
      <3>1. /\ one \o more \in Seq(Seq(C)) /\ Len(one \o more) = Len(one) + Len(more)
            /\ \A k \in 1..(Len(one) + Len(more)) : (one \o more)[k] = IF k <= Len(one) THEN one[k] ELSE more[k - Len(one)]
        BY <1>4, <1>5, JoinIs, Zenon
      <3>2. Len(one) + Len(more) = n
        BY <1>2, <1>4, <1>5
      <3> QED BY <1>4, <2>2, <3>1, <3>2, Zenon
    <2> HIDE DEF list
    <2>4. ASSUME NEW k \in 1..n PROVE list[k] = both[k]
      <3>1. CASE k = 1
        BY <1>2, <1>4, <1>7, <2>3, <3>1
      <3>2. CASE k # 1
        <4>1. k - 1 \in 1..(n - 1) /\ ~(k <= 1) /\ (k - 1) + 1 = k
          BY <1>2, <3>2
        <4>2. more[k - 1] = <<"nl">> \o rest[k - 1] /\ rest[k - 1] = lines[k]
          BY <1>2, <1>5, <4>1, Zenon
        <4> QED BY <1>7, <2>3, <3>2, <4>1, <4>2, Zenon
      <3> QED BY <3>1, <3>2
    <2>5. list = both
      BY <2>1, <2>3, <2>4, SameSeq
    <2> QED BY <2>2, <2>5
  <1>9. Edits!JoinLines(lines) = Edits!FlattenSeq(list)
    BY DEF Edits!JoinLines
  <1> HIDE DEF list
  <1>10. Edits!JoinLines(lines) = h \o Started(rest)
    <2>1. Edits!FlattenSeq(one \o more) = Edits!FlattenSeq(one) \o Edits!FlattenSeq(more)
      BY <1>4, <1>5, FlatOfBoth, Zenon
    <2>2. Edits!FlattenSeq(one) = h
      BY <1>2, <1>3, FlatOfOne
    <2>3. Edits!FlattenSeq(more) = Started(rest)
      BY <1>3 DEF Started
    <2> QED BY <1>8, <1>9, <2>1, <2>2, <2>3, Zenon
  <1>11. PICK tail : tail = Started(rest)
    OBVIOUS
  <1>12. tail \in Seq(C)
    BY <1>2, <1>11, StartedIs
  <1>13. Started(lines) = (<<"nl">> \o h) \o tail
    <2>1. Started(one \o rest) = Started(one) \o Started(rest)
      BY <1>2, <1>4, StartedIs, Zenon
    <2>2. Started(one) = <<"nl">> \o h
      BY <1>2, <1>3, StartedIs, Zenon
    <2> QED BY <1>6, <1>11, <2>1, <2>2, Zenon
  <1>14. (<<"nl">> \o h) \o tail = <<"nl">> \o (h \o tail) /\ h \o tail \in Seq(C)
    <2>1. <<"nl">> \in Seq(C)
      OBVIOUS
    <2> QED BY <1>2, <1>12, <2>1, Associates
  <1> QED BY <1>10, <1>11, <1>13, <1>14, Zenon

\* The recursion of LinesOf, and that it is a run.
LinesAfter(g, text) ==
    g = [n \in 0..Len(text) |-> IF n = 0 THEN <<<<>>>> ELSE Edits!LineOn(g[n - 1], text[n])]

\* The lines of a text are the outcome of a run over its characters.
LEMMA LinesRun ==
  ASSUME NEW C, NEW text \in Seq(C)
  PROVE  Runs("line", <<<<>>>>, text, Edits!LinesOf(text))
  <1> DEFINE g == CHOOSE g : LinesAfter(g, text)
  <1>1. PICK t : Runs("line", <<<<>>>>, text, t)
    BY RunsAll, Zenon
  <1>2. /\ \E h : IsAfter(h, "line", <<<<>>>>, text)
        /\ \A h : IsAfter(h, "line", <<<<>>>>, text) => h[Len(text)] = t
    BY <1>1, After
  <1>3. \A h : LinesAfter(h, text) <=> IsAfter(h, "line", <<<<>>>>, text)
    BY DEF LinesAfter, IsAfter, Move
  <1>4. LinesAfter(g, text)
    BY <1>2, <1>3
  <1>5. Edits!LinesOf(text) = g[Len(text)]
    BY DEF Edits!LinesOf, LinesAfter
  <1> HIDE DEF g
  <1> QED BY <1>1, <1>2, <1>3, <1>4, <1>5

\* The same run from no line, with an end of line before the text.
LEMMA LinesRunFromNone ==
  ASSUME NEW C, "nl" \in C, NEW text \in Seq(C)
  PROVE  Runs("line", <<>>, <<"nl">> \o text, Edits!LinesOf(text))
  <1>1. Move("line", <<>>, "nl") = <<<<>>>>
    <2>1. Append(<<>>, <<>>) = <<<<>>>>
      OBVIOUS
    <2> QED BY <2>1 DEF Move, Edits!LineOn
  <1>2. Runs("line", <<>>, <<"nl">>, Move("line", <<>>, "nl"))
    BY RunsOne
  <1>3. Runs("line", <<<<>>>>, text, Edits!LinesOf(text))
    BY LinesRun
  <1>4. PICK first : first = <<"nl">>
    BY Zenon
  <1>5. first \in Seq(C)
    BY <1>4
  <1>6. Runs("line", <<>>, first, <<<<>>>>)
    BY <1>1, <1>2, <1>4
  <1>7. Runs("line", <<>>, first \o text, Edits!LinesOf(text))
    BY <1>3, <1>5, <1>6, RunsOn
  <1> QED BY <1>4, <1>7

\* Lines without an end of line in them.
AreLines(lines, C) ==
    lines \in Seq(Seq(C)) /\ \A k \in 1..Len(lines) : Without(lines[k], "nl")

\* Joining, the other way round.
LEMMA Associated ==
  ASSUME NEW C, NEW x \in Seq(C), NEW y \in Seq(C), NEW z \in Seq(C)
  PROVE  x \o (y \o z) = (x \o y) \o z
  BY SMTT(30)

\* A character more.
LEMMA LineOnIs ==
  ASSUME NEW C, "nl" \in C, NEW lines, AreLines(lines, C), NEW c \in C, c # "nl" => lines # <<>>
  PROVE  /\ AreLines(Edits!LineOn(lines, c), C) /\ Edits!LineOn(lines, c) # <<>>
         /\ Started(Edits!LineOn(lines, c)) = Started(lines) \o <<c>>
  <1>0. lines \in Seq(Seq(C)) /\ \A k \in 1..Len(lines) : Without(lines[k], "nl")
    BY DEF AreLines
  <1>1. CASE c = "nl"
    <2>1. PICK none, next : none = <<<<>>>> /\ next = lines \o none
      BY Zenon
    <2>2. Edits!LineOn(lines, c) = next
      <3>1. Append(lines, <<>>) = lines \o <<<<>>>>
        BY <1>0
      <3> QED BY <1>1, <2>1, <3>1 DEF Edits!LineOn
    <2>3. none \in Seq(Seq(C)) /\ Len(none) = 1 /\ none[1] = <<>>
      BY <2>1
    <2>4. /\ next \in Seq(Seq(C)) /\ Len(next) = Len(lines) + 1 /\ Len(lines) \in Nat
          /\ \A k \in 1..Len(next) : next[k] = IF k <= Len(lines) THEN lines[k] ELSE <<>>
      BY <1>0, <2>1
    <2>5. AreLines(next, C)
      <3>1. Without(<<>>, "nl")
        BY DEF Without
      <3>2. ASSUME NEW k \in 1..Len(next) PROVE Without(next[k], "nl")
        <4>1. CASE k <= Len(lines)
          <5>1. k \in 1..Len(lines) /\ next[k] = lines[k]
            BY <2>4, <4>1
          <5> QED BY <1>0, <5>1
        <4>2. CASE ~(k <= Len(lines))
          BY <2>4, <3>1, <4>2
        <4> QED BY <4>1, <4>2
      <3> QED BY <2>4, <3>2 DEF AreLines
    <2>6. Started(next) = Started(lines) \o <<c>>
      <3>1. Started(lines \o none) = Started(lines) \o Started(none)
        BY <1>0, <2>3, StartedIs, Zenon
      <3>2. Started(none) = <<"nl">> \o <<>>
        <4>1. <<>> \in Seq(C)
          OBVIOUS
        <4> QED BY <2>1, <4>1, StartedIs, Zenon
      <3>3. <<"nl">> \o <<>> = <<"nl">>
        OBVIOUS
      <3> QED BY <1>1, <2>1, <3>1, <3>2, <3>3, Zenon
    <2>7. next # <<>>
      BY <2>4
    <2> QED BY <2>2, <2>5, <2>6, <2>7
  <1>2. CASE c # "nl"
    <2>1. PICK n, front, last, longer, next :
            /\ n = Len(lines) /\ front = SubSeq(lines, 1, n - 1) /\ last = lines[n]
            /\ longer = last \o <<c>> /\ next = [lines EXCEPT ![n] = longer]
      BY Zenon
    <2>2. n \in Nat \ {0} /\ n \in 1..n /\ last \in Seq(C)
      BY <1>0, <1>2, <2>1
    <2>3. Edits!LineOn(lines, c) = next
      <3>1. Append(last, c) = longer
        BY <2>1, <2>2
      <3>2. Edits!LineOn(lines, c) = [lines EXCEPT ![n] = Append(last, c)]
        BY <1>2, <2>1 DEF Edits!LineOn
      <3> QED BY <2>1, <3>1, <3>2
    <2>4. longer \in Seq(C) /\ Without(longer, "nl")
      <3>1. longer \in Seq(C) /\ Len(longer) = Len(last) + 1 /\ Len(last) \in Nat
            /\ \A i \in 1..Len(longer) : longer[i] = IF i <= Len(last) THEN last[i] ELSE c
        BY <2>1, <2>2
      <3>2. Without(last, "nl")
        BY <1>0, <2>1, <2>2
      <3>3. ASSUME NEW i \in 1..Len(longer) PROVE longer[i] # "nl"
        <4>1. CASE i <= Len(last)
          <5>1. i \in 1..Len(last) /\ longer[i] = last[i]
            BY <3>1, <4>1
          <5> QED BY <3>2, <5>1 DEF Without
        <4>2. CASE ~(i <= Len(last))
          BY <1>2, <3>1, <4>2
        <4> QED BY <4>1, <4>2
      <3> QED BY <3>1, <3>3 DEF Without
    <2>5. /\ next \in Seq(Seq(C)) /\ Len(next) = n
          /\ \A k \in 1..n : next[k] = IF k = n THEN longer ELSE lines[k]
      <3>1. /\ DOMAIN next = 1..n
            /\ \A k \in 1..n : next[k] = IF k = n THEN longer ELSE lines[k]
        BY <1>0, <2>1, <2>2
      <3>2. \A k \in 1..n : next[k] \in Seq(C)
        BY <1>0, <2>1, <2>4, <3>1
      <3>3. next = [k \in 1..n |-> next[k]]
        <4>1. DOMAIN lines = 1..n
          BY <1>0, <2>1
        <4>2. [lines EXCEPT ![n] = longer] = [k \in DOMAIN lines |-> IF k = n THEN longer ELSE lines[k]]
          OBVIOUS
        <4>3. next = [k \in 1..n |-> IF k = n THEN longer ELSE lines[k]]
          BY <2>1, <4>1, <4>2, Zenon
        <4> QED BY <3>1, <4>3
      <3>4. next \in [1..n -> Seq(C)]
        BY <3>2, <3>3
      <3> QED BY <2>2, <3>1, <3>4, FunIsSeq
    <2>6. AreLines(next, C)
      <3>1. \A k \in 1..n : Without(next[k], "nl")
        BY <1>0, <2>1, <2>4, <2>5, Zenon
      <3> QED BY <2>5, <3>1 DEF AreLines
    <2>7. front \in Seq(Seq(C)) /\ lines = front \o <<last>> /\ next = front \o <<longer>>
      <3>1. front \in Seq(Seq(C)) /\ Len(front) = n - 1 /\ \A k \in 1..(n - 1) : front[k] = lines[k]
        BY <1>0, <2>1, <2>2, SMTT(30)
      <3>2. lines = front \o <<last>>
        <4>1. SubSeq(lines, 1, n) = lines /\ SubSeq(lines, 1, n) = SubSeq(lines, 1, n - 1) \o <<lines[n]>>
          BY <1>0, <2>1, <2>2, OneLonger
        <4> QED BY <2>1, <4>1
      <3>3. next = front \o <<longer>>
        <4>1. PICK one, both : one = <<longer>> /\ both = front \o one
          BY Zenon
        <4>2. one \in Seq(Seq(C)) /\ Len(one) = 1 /\ one[1] = longer
          BY <2>4, <4>1
        <4>3. both \in Seq(Seq(C)) /\ Len(both) = n /\ \A k \in 1..n : both[k] = IF k <= n - 1 THEN front[k] ELSE one[k - (n - 1)]
          <5>1. /\ front \o one \in Seq(Seq(C)) /\ Len(front \o one) = Len(front) + Len(one)
                /\ \A k \in 1..(Len(front) + Len(one)) :
                      (front \o one)[k] = IF k <= Len(front) THEN front[k] ELSE one[k - Len(front)]
            BY <3>1, <4>2, JoinIs, Zenon
          <5>2. Len(front) + Len(one) = n
            BY <2>2, <3>1, <4>2
          <5>3. Len(front) = n - 1
            BY <3>1
          <5>4. both \in Seq(Seq(C)) /\ Len(both) = n
            BY <4>1, <5>1, <5>2, Zenon
          <5>5. \A k \in 1..n : both[k] = IF k <= n - 1 THEN front[k] ELSE one[k - (n - 1)]
            BY <4>1, <5>1, <5>2, <5>3, ZenonT(30)
          <5> QED BY <5>4, <5>5
        <4>4. \A k \in 1..n : both[k] = next[k]
          <5> SUFFICES ASSUME NEW k \in 1..n PROVE both[k] = next[k]
            OBVIOUS
          <5>1. CASE k = n
            <6>1. k - (n - 1) = 1 /\ ~(k <= n - 1)
              BY <2>2, <5>1
            <6> QED BY <2>5, <4>2, <4>3, <5>1, <6>1, Zenon
          <5>2. CASE k # n
            <6>1. k <= n - 1 /\ k \in 1..(n - 1)
              BY <2>2, <5>2
            <6> QED BY <2>5, <3>1, <4>3, <5>2, <6>1, Zenon
          <5> QED BY <5>1, <5>2
        <4>5. both = next
          BY <2>5, <4>3, <4>4, SameSeq
        <4> QED BY <4>1, <4>5
      <3> QED BY <3>1, <3>2, <3>3
    <2>8. Started(next) = Started(lines) \o <<c>>
      <3>1. PICK s, a, b : s = Started(front) /\ a = <<last>> /\ b = <<longer>>
        BY Zenon
      <3>2. a \in Seq(Seq(C)) /\ b \in Seq(Seq(C))
        BY <2>2, <2>4, <3>1
      <3>3. Started(front \o a) = s \o Started(a) /\ Started(front \o b) = s \o Started(b) /\ s \in Seq(C)
        BY <2>7, <3>1, <3>2, StartedIs, Zenon
      <3>4. Started(a) = <<"nl">> \o last /\ Started(b) = <<"nl">> \o longer
        BY <2>2, <2>4, <3>1, StartedIs, Zenon
      <3>5. PICK nl, one : nl = <<"nl">> /\ one = <<c>>
        BY Zenon
      <3>6. nl \in Seq(C) /\ one \in Seq(C)
        BY <3>5
      <3>7. nl \o (last \o one) = (nl \o last) \o one
        BY <2>2, <3>6, Associates
      <3>8. PICK start : start = nl \o last
        BY Zenon
      <3>9. start \in Seq(C)
        BY <2>2, <3>6, <3>8
      <3>10. s \o (start \o one) = (s \o start) \o one
        <4> HIDE DEF Started
        <4>1. s \in Seq(C)
          BY <3>3, Zenon
        <4> QED BY <3>6, <3>9, <4>1, Associated, SMTT(30)
      <3>11. Started(next) = s \o (nl \o (last \o one))
        BY <2>1, <2>7, <3>1, <3>3, <3>4, <3>5, Zenon
      <3>12. Started(lines) = s \o start
        BY <2>7, <3>1, <3>3, <3>4, <3>5, <3>8, Zenon
      <3>13. Started(next) = s \o (start \o one)
        BY <3>7, <3>8, <3>11, Zenon
      <3> QED BY <3>5, <3>10, <3>12, <3>13, Zenon
    <2> QED BY <2>2, <2>3, <2>5, <2>6, <2>8
  <1> QED BY <1>1, <1>2

\* The lines of a text, joined again, are the text.
LEMMA LinesAre ==
  ASSUME NEW C, "nl" \in C, NEW text \in Seq(C)
  PROVE  /\ AreLines(Edits!LinesOf(text), C) /\ Edits!LinesOf(text) # <<>>
         /\ Started(Edits!LinesOf(text)) = <<"nl">> \o text
  <1>1. PICK z : z = <<"nl">> \o text
    BY Zenon
  <1> DEFINE L == Len(z)
  <1>0. /\ z \in Seq(C) /\ L \in Nat \ {0} /\ z[1] = "nl" /\ \A i \in 1..L : z[i] \in C
        /\ SubSeq(z, 1, L) = z
    BY <1>1
  <1>2. PICK f : f[0] = <<>> /\ f[L] = Edits!LinesOf(text) /\ Running(f, "line", z, L)
    BY <1>1, LinesRunFromNone DEF Runs
  <1>3. \A i \in 1..L : f[i] = Edits!LineOn(f[i - 1], z[i])
    BY <1>2 DEF Running, Move
  <1> DEFINE S == {i \in 0..L : AreLines(f[i], C) /\ (i # 0 => f[i] # <<>>) /\ Started(f[i]) = SubSeq(z, 1, i)}
  <1> HIDE DEF L
  <1>4. 0 \in S
    <2>1. 0 \in 0..L /\ SubSeq(z, 1, 0) = <<>>
      BY <1>0
    <2>2. AreLines(<<>>, C)
      BY DEF AreLines
    <2>3. Started(<<>>) = <<>>
      BY StartedIs
    <2> QED BY <1>2, <2>1, <2>2, <2>3, Zenon
  <1>5. \A m \in 0..(L - 1) : m \in S => m + 1 \in S
    <2> SUFFICES ASSUME NEW m \in 0..(L - 1), m \in S PROVE m + 1 \in S
      OBVIOUS
    <2>1. m + 1 \in 1..L /\ m + 1 \in 0..L /\ (m + 1) - 1 = m /\ m + 1 # 0 /\ (m # 0 \/ m + 1 = 1)
      BY <1>0
    <2>2. PICK lines, c : lines = f[m] /\ c = z[m + 1]
      OBVIOUS
    <2>3. AreLines(lines, C) /\ c \in C /\ (c # "nl" => lines # <<>>) /\ Started(lines) = SubSeq(z, 1, m)
      BY <1>0, <2>1, <2>2
    <2>4. f[m + 1] = Edits!LineOn(lines, c)
      BY <1>3, <2>1, <2>2
    <2>5. /\ AreLines(Edits!LineOn(lines, c), C) /\ Edits!LineOn(lines, c) # <<>>
          /\ Started(Edits!LineOn(lines, c)) = Started(lines) \o <<c>>
      BY <2>3, LineOnIs, Zenon
    <2>6. SubSeq(z, 1, m + 1) = SubSeq(z, 1, m) \o <<z[m + 1]>>
      <3>1. m + 1 \in 1..Len(z)
        BY <2>1 DEF L
      <3>2. z \in Seq(C)
        BY <1>0
      <3>3. SubSeq(z, 1, m + 1) = SubSeq(z, 1, (m + 1) - 1) \o <<z[m + 1]>>
        BY <3>1, <3>2, OneLonger
      <3> QED BY <2>1, <3>3
    <2>7. Started(f[m + 1]) = SubSeq(z, 1, m + 1)
      BY <2>2, <2>3, <2>4, <2>5, <2>6, Zenon
    <2> QED BY <2>1, <2>4, <2>5, <2>7
  <1> HIDE DEF S
  <1>6. L \in S
    <2>1. L \in 0..L /\ L \in Nat
      BY <1>0
    <2> QED BY <1>4, <1>5, <2>1, UpTo, Zenon
  <1> QED BY <1>0, <1>1, <1>2, <1>6 DEF S, L

\* The last line of some, changed.
LEMMA LastSet ==
  ASSUME NEW C, NEW before \in Seq(Seq(C)), NEW x \in Seq(C), NEW y \in Seq(C)
  PROVE  [Append(before, x) EXCEPT ![Len(before) + 1] = y] = Append(before, y)
  <1>1. PICK n, b, z, changed :
          /\ n = Len(before) /\ b = Append(before, x) /\ z = Append(before, y)
          /\ changed = [b EXCEPT ![n + 1] = y]
    BY Zenon
  <1>2. /\ n \in Nat /\ b \in Seq(Seq(C)) /\ Len(b) = n + 1 /\ \A k \in 1..(n + 1) : b[k] = IF k <= n THEN before[k] ELSE x
        /\ z \in Seq(Seq(C)) /\ Len(z) = n + 1 /\ \A k \in 1..(n + 1) : z[k] = IF k <= n THEN before[k] ELSE y
    BY <1>1
  <1>3. DOMAIN b = 1..(n + 1) /\ DOMAIN z = 1..(n + 1)
    BY <1>2
  <1>4. DOMAIN changed = 1..(n + 1) /\ \A k \in 1..(n + 1) : changed[k] = IF k = n + 1 THEN y ELSE b[k]
    BY <1>1, <1>3, Zenon
  <1>5. ASSUME NEW k \in 1..(n + 1) PROVE changed[k] = z[k]
    <2>1. CASE k = n + 1
      <3>1. ~(k <= n)
        BY <1>2, <2>1
      <3> QED BY <1>2, <1>4, <2>1, <3>1, Zenon
    <2>2. CASE k # n + 1
      <3>1. k <= n
        BY <1>2, <2>2
      <3> QED BY <1>2, <1>4, <2>2, <3>1, Zenon
    <2> QED BY <2>1, <2>2
  <1>6. changed = [k \in 1..(n + 1) |-> changed[k]]
    <2>1. [b EXCEPT ![n + 1] = y] = [k \in DOMAIN b |-> IF k = n + 1 THEN y ELSE b[k]]
      OBVIOUS
    <2>2. changed = [k \in 1..(n + 1) |-> IF k = n + 1 THEN y ELSE b[k]]
      BY <1>1, <1>3, <2>1, Zenon
    <2> QED BY <1>4, <2>2
  <1>7. \A k \in 1..(n + 1) : changed[k] \in Seq(C)
    <2>1. \A k \in 1..(n + 1) : z[k] \in Seq(C)
      BY <1>2
    <2> QED BY <1>5, <2>1
  <1>8. changed \in Seq(Seq(C)) /\ Len(changed) = n + 1
    <2>1. n + 1 \in Nat /\ changed \in [1..(n + 1) -> Seq(C)]
      BY <1>2, <1>6, <1>7
    <2> QED BY <2>1, FunIsSeq, Zenon
  <1>9. changed = z
    BY <1>2, <1>5, <1>8, SameSeq
  <1> QED BY <1>1, <1>9, Zenon

\* Lines are the lines of their text.
LEMMA LineRuns ==
  ASSUME NEW C, "nl" \in C, NEW before \in Seq(Seq(C)), NEW line \in Seq(C), Without(line, "nl")
  PROVE  Runs("line", before, <<"nl">> \o line, Append(before, line))
  <1> DEFINE n == Len(line)
             f == [k \in 0..n |-> Append(before, SubSeq(line, 1, k))]
  <1>0. n \in Nat /\ Len(before) \in Nat /\ SubSeq(line, 1, 0) = <<>> /\ SubSeq(line, 1, n) = line
    OBVIOUS
  <1>1. \A k \in 0..n : f[k] = Append(before, SubSeq(line, 1, k))
    OBVIOUS
  <1>2. f[0] = Append(before, <<>>) /\ f[n] = Append(before, line)
    <2>1. 0 \in 0..n /\ n \in 0..n
      BY <1>0
    <2> QED BY <1>0, <1>1, <2>1
  <1> HIDE DEF f, n
  <1>3. ASSUME NEW k \in 1..n PROVE f[k] = Move("line", f[k - 1], line[k])
    <2>1. k \in 0..n /\ k - 1 \in 0..n /\ k \in 1..Len(line)
      BY <1>0 DEF n
    <2>2. PICK x, y, c : x = SubSeq(line, 1, k - 1) /\ y = SubSeq(line, 1, k) /\ c = line[k]
      BY Zenon
    <2>3. y = Append(x, c) /\ x \in Seq(C) /\ y \in Seq(C) /\ c # "nl"
      <3>1. SubSeq(line, 1, k) = Append(SubSeq(line, 1, k - 1), line[k])
        BY <2>1, OneLonger
      <3>2. SubSeq(line, 1, k) \in Seq(C) /\ SubSeq(line, 1, k - 1) \in Seq(C)
        <4>1. 1 \in 1..(Len(line) + 1) /\ k \in (1 - 1)..Len(line) /\ k - 1 \in (1 - 1)..Len(line)
          BY <1>0, <2>1
        <4> QED BY <4>1, PieceWithout
      <3> QED BY <2>1, <2>2, <3>1, <3>2 DEF Without
    <2>4. f[k] = Append(before, y) /\ f[k - 1] = Append(before, x)
      BY <1>1, <2>1, <2>2
    <2>5. Edits!LineOn(Append(before, x), c) = Append(before, y)
      <3>1. PICK b : b = Append(before, x)
        BY Zenon
      <3>2. Len(b) = Len(before) + 1 /\ b[Len(before) + 1] = x
        BY <2>3, <3>1
      <3>3. Edits!LineOn(b, c) = [b EXCEPT ![Len(before) + 1] = Append(x, c)]
        BY <2>3, <3>2 DEF Edits!LineOn
      <3>4. [Append(before, x) EXCEPT ![Len(before) + 1] = y] = Append(before, y)
        <4>1. x \in Seq(C) /\ y \in Seq(C)
          BY <2>3
        <4> QED BY <4>1, LastSet
      <3> QED BY <2>3, <3>1, <3>3, <3>4
    <2> QED BY <2>2, <2>4, <2>5 DEF Move
  <1>4. Runs("line", Append(before, <<>>), line, Append(before, line))
    BY <1>2, <1>3 DEF Runs, Running, n
  <1>5. Move("line", before, "nl") = Append(before, <<>>)
    BY DEF Move, Edits!LineOn
  <1>6. PICK first, next : first = <<"nl">> /\ next = Append(before, <<>>)
    BY Zenon
  <1>7. first \in Seq(C) /\ Runs("line", before, first, next)
    <2>1. Runs("line", before, <<"nl">>, Move("line", before, "nl"))
      BY RunsOne
    <2>2. first \in Seq(C)
      BY <1>6
    <2> QED BY <1>5, <1>6, <2>1, <2>2, Zenon
  <1>8. Runs("line", before, first \o line, Append(before, line))
    BY <1>4, <1>6, <1>7, RunsOn, Zenon
  <1> QED BY <1>6, <1>8

\* The lines of what some lines make are these lines.
LEMMA LinesBack ==
  ASSUME NEW C, "nl" \in C, NEW lines, AreLines(lines, C), lines # <<>>
  PROVE  Edits!LinesOf(Edits!JoinLines(lines)) = lines
  <1> DEFINE n == Len(lines)
             F == [k \in 0..n |-> SubSeq(lines, 1, k)]
  <1>0. lines \in Seq(Seq(C)) /\ n \in Nat /\ \A k \in 1..n : lines[k] \in Seq(C) /\ Without(lines[k], "nl")
    BY DEF AreLines
  <1>1. PICK starts, z, text : starts = Starts(lines) /\ z = Started(lines) /\ text = Edits!JoinLines(lines)
    OBVIOUS
  <1>2. starts \in Seq(Seq(C)) /\ Len(starts) = n /\ \A k \in 1..n : starts[k] = <<"nl">> \o lines[k]
    BY <1>0, <1>1, StartsAre, Zenon
  <1>3. Runs("join", <<>>, starts, z) /\ z \in Seq(C)
    BY <1>1, <1>2, FlatIs DEF Started
  <1>4. F[0] = <<>> /\ F[n] = lines
    <2>1. 0 \in 0..n /\ n \in 0..n
      BY <1>0
    <2> QED BY <1>0, <2>1, OneLonger
  <1>5. ASSUME NEW k \in 1..n PROVE Runs("line", F[k - 1], starts[k], F[k])
    <2>1. k \in 0..n /\ k - 1 \in 0..n
      BY <1>0
    <2>2. PICK before, line : before = SubSeq(lines, 1, k - 1) /\ line = lines[k]
      BY Zenon
    <2>3. before \in Seq(Seq(C)) /\ SubSeq(lines, 1, k) = Append(before, line)
      <3>1. SubSeq(lines, 1, k) = Append(SubSeq(lines, 1, k - 1), lines[k])
        BY <1>0, OneLonger
      <3>2. SubSeq(lines, 1, k - 1) \in Seq(Seq(C))
        BY <1>0
      <3> QED BY <2>2, <3>1, <3>2
    <2>4. Runs("line", before, <<"nl">> \o line, Append(before, line))
      BY <1>0, <2>2, <2>3, LineRuns, Zenon
    <2>5. F[k - 1] = before /\ F[k] = Append(before, line)
      BY <2>1, <2>2, <2>3, SMTT(30)
    <2> HIDE DEF F
    <2> QED BY <1>2, <2>2, <2>4, <2>5, Zenon
  <1> HIDE DEF F
  <1>6. Runs("line", <<>>, z, lines)
    <2>1. \A k \in 1..Len(starts) : Runs("line", F[k - 1], starts[k], F[k])
      BY <1>2, <1>5
    <2>2. Runs("line", F[0], z, F[Len(starts)])
      BY <1>2, <1>3, <2>1, RunsJoined, Zenon
    <2> QED BY <1>2, <1>4, <2>2
  <1>7. text \in Seq(C) /\ <<"nl">> \o text = z
    BY <1>0, <1>1, JoinLinesIs
  <1>8. Runs("line", <<>>, z, Edits!LinesOf(text))
    BY <1>7, LinesRunFromNone, Zenon
  <1>9. Len(z) \in Nat
    BY <1>3
  <1> QED BY <1>1, <1>6, <1>8, <1>9, RunsOnce

\* Joining with its name, for what only needs to know that it is associative.
Joined(x, y) == x \o y

\* What joining gives, and that its order does not matter.
LEMMA JoinedIs ==
  ASSUME NEW C
  PROVE  /\ \A x \in Seq(C), y \in Seq(C) : Joined(x, y) \in Seq(C)
         /\ \A x \in Seq(C), y \in Seq(C), z \in Seq(C) : Joined(Joined(x, y), z) = Joined(x, Joined(y, z))
  <1>1. ASSUME NEW x \in Seq(C), NEW y \in Seq(C) PROVE Joined(x, y) \in Seq(C)
    BY DEF Joined
  <1>2. ASSUME NEW x \in Seq(C), NEW y \in Seq(C), NEW z \in Seq(C)
        PROVE  Joined(Joined(x, y), z) = Joined(x, Joined(y, z))
    BY Associates DEF Joined
  <1> QED BY <1>1, <1>2

\* What is the same behind one end of line is the same.
LEMMA JoinedAlike ==
  ASSUME NEW C, NEW x \in Seq(C), NEW y \in Seq(C), NEW nl, nl = <<"nl">>, Joined(nl, x) = Joined(nl, y)
  PROVE  x = y
  BY GoesOnAlike DEF Joined

\* A part of a text, and what comes before it and behind it.
LEMMA CutIn ==
  ASSUME NEW C, NEW t \in Seq(C), NEW i \in 1..(Len(t) + 1), NEW n \in 0..(Len(t) + 1 - i)
  PROVE  /\ SubSeq(t, 1, i - 1) \in Seq(C) /\ SubSeq(t, i, i + n - 1) \in Seq(C) /\ SubSeq(t, i + n, Len(t)) \in Seq(C)
         /\ t = Joined(SubSeq(t, 1, i - 1), Joined(SubSeq(t, i, i + n - 1), SubSeq(t, i + n, Len(t))))
  <1>1. PICK x, y, z : x = SubSeq(t, 1, i - 1) /\ y = SubSeq(t, i, i + n - 1) /\ z = SubSeq(t, i + n, Len(t))
    BY Zenon
  <1>2. PICK L \in Nat : L = Len(t)
    OBVIOUS
  <1>3. i \in Nat \ {0} /\ n \in Nat /\ i + n <= L + 1
    BY <1>2
  <1>4. /\ x \in Seq(C) /\ Len(x) = i - 1 /\ \A k \in 1..(i - 1) : x[k] = t[k]
        /\ y \in Seq(C) /\ Len(y) = n /\ \A k \in 1..n : y[k] = t[i + k - 1]
        /\ z \in Seq(C) /\ Len(z) = L + 1 - i - n /\ \A k \in 1..(L + 1 - i - n) : z[k] = t[i + n + k - 1]
    <2>1. x \in Seq(C) /\ Len(x) = i - 1 /\ \A k \in 1..(i - 1) : x[k] = t[k]
      BY <1>1, <1>2, <1>3
    <2>2. y \in Seq(C) /\ Len(y) = n /\ \A k \in 1..n : y[k] = t[i + k - 1]
      BY <1>1, <1>2, <1>3
    <2>3. z \in Seq(C) /\ Len(z) = L + 1 - i - n /\ \A k \in 1..(L + 1 - i - n) : z[k] = t[i + n + k - 1]
      BY <1>1, <1>2, <1>3
    <2> QED BY <2>1, <2>2, <2>3
  <1>5. PICK yz, all : yz = y \o z /\ all = x \o yz
    BY Zenon
  <1>6. yz \in Seq(C) /\ Len(yz) = L + 1 - i /\ \A k \in 1..(L + 1 - i) : yz[k] = IF k <= n THEN y[k] ELSE z[k - n]
    <2>1. y \in Seq(C) /\ z \in Seq(C) /\ Len(y) = n /\ Len(z) = L + 1 - i - n
      BY <1>4
    <2>2. n + (L + 1 - i - n) = L + 1 - i
      BY <1>3
    <2>3. /\ y \o z \in Seq(C) /\ Len(y \o z) = Len(y) + Len(z)
          /\ \A k \in 1..(Len(y) + Len(z)) : (y \o z)[k] = IF k <= Len(y) THEN y[k] ELSE z[k - Len(y)]
      BY <2>1, JoinIs, Zenon
    <2> QED BY <1>5, <2>1, <2>2, <2>3, Zenon
  <1>7. all \in Seq(C) /\ Len(all) = L /\ \A k \in 1..L : all[k] = IF k <= i - 1 THEN x[k] ELSE yz[k - (i - 1)]
    <2>1. x \in Seq(C) /\ yz \in Seq(C) /\ Len(x) = i - 1 /\ Len(yz) = L + 1 - i
      BY <1>4, <1>6
    <2>2. (i - 1) + (L + 1 - i) = L
      BY <1>3
    <2>3. /\ x \o yz \in Seq(C) /\ Len(x \o yz) = Len(x) + Len(yz)
          /\ \A k \in 1..(Len(x) + Len(yz)) : (x \o yz)[k] = IF k <= Len(x) THEN x[k] ELSE yz[k - Len(x)]
      BY <2>1, JoinIs, Zenon
    <2> QED BY <1>5, <2>1, <2>2, <2>3, Zenon
  <1>8. ASSUME NEW k \in 1..L PROVE all[k] = t[k]
    <2>1. CASE k <= i - 1
      <3>1. k \in 1..(i - 1)
        BY <1>3, <2>1
      <3> QED BY <1>4, <1>7, <2>1, <3>1, Zenon
    <2>2. CASE ~(k <= i - 1)
      <3>1. PICK j : j = k - (i - 1)
        OBVIOUS
      <3>2. j \in 1..(L + 1 - i) /\ i + j - 1 = k
        BY <1>3, <2>2, <3>1
      <3>3. all[k] = yz[j]
        BY <1>7, <2>2, <3>1
      <3>4. CASE j <= n
        <4>1. j \in 1..n
          BY <1>3, <3>2, <3>4
        <4>2. yz[j] = y[j] /\ y[j] = t[i + j - 1]
          BY <1>4, <1>6, <3>2, <3>4, <4>1, Zenon
        <4> QED BY <3>2, <3>3, <4>2
      <3>5. CASE ~(j <= n)
        <4>1. j - n \in 1..(L + 1 - i - n) /\ i + n + (j - n) - 1 = k
          BY <1>3, <3>2, <3>5
        <4>2. yz[j] = z[j - n]
          BY <1>6, <3>2, <3>5
        <4>3. z[j - n] = t[k]
          BY <1>4, <4>1, Zenon
        <4> QED BY <3>3, <4>2, <4>3
      <3> QED BY <3>4, <3>5
    <2> QED BY <2>1, <2>2
  <1>9. all = t
    BY <1>2, <1>7, <1>8, SameSeq
  <1> QED BY <1>1, <1>4, <1>5, <1>9, Zenon DEF Joined

\* Three parts put together are found where they were put.
PartsOf(t, x, y, z) ==
    /\ Len(x) + 1 \in 1..(Len(t) + 1) /\ Len(y) \in 0..(Len(t) + 1 - (Len(x) + 1))
    /\ SubSeq(t, 1, (Len(x) + 1) - 1) = x
    /\ SubSeq(t, Len(x) + 1, (Len(x) + 1) + Len(y) - 1) = y
    /\ SubSeq(t, (Len(x) + 1) + Len(y), Len(t)) = z

\* Where three parts put together are found.
LEMMA PutIn ==
  ASSUME NEW C, NEW x \in Seq(C), NEW y \in Seq(C), NEW z \in Seq(C), NEW t, t = Joined(x, Joined(y, z))
  PROVE  PartsOf(t, x, y, z)
  <1>1. PICK l \in Nat, m \in Nat, n \in Nat : l = Len(x) /\ m = Len(y) /\ n = Len(z)
    OBVIOUS
  <1>2. PICK yz : yz = y \o z
    BY Zenon
  <1>3. yz \in Seq(C) /\ Len(yz) = m + n /\ \A k \in 1..(m + n) : yz[k] = IF k <= m THEN y[k] ELSE z[k - m]
    <2>1. /\ y \o z \in Seq(C) /\ Len(y \o z) = Len(y) + Len(z)
          /\ \A k \in 1..(Len(y) + Len(z)) : (y \o z)[k] = IF k <= Len(y) THEN y[k] ELSE z[k - Len(y)]
      BY JoinIs
    <2> QED BY <1>1, <1>2, <2>1, Zenon
  <1>4. t \in Seq(C) /\ Len(t) = l + (m + n) /\ \A k \in 1..(l + (m + n)) : t[k] = IF k <= l THEN x[k] ELSE yz[k - l]
    <2>1. /\ x \o yz \in Seq(C) /\ Len(x \o yz) = Len(x) + Len(yz)
          /\ \A k \in 1..(Len(x) + Len(yz)) : (x \o yz)[k] = IF k <= Len(x) THEN x[k] ELSE yz[k - Len(x)]
      BY <1>3, JoinIs, Zenon
    <2>2. t = x \o yz
      BY <1>2 DEF Joined
    <2> QED BY <1>1, <1>3, <2>1, <2>2, Zenon
  <1>5. PICK a, b, c : a = SubSeq(t, 1, l) /\ b = SubSeq(t, l + 1, l + m) /\ c = SubSeq(t, l + m + 1, l + (m + n))
    BY Zenon
  <1>6. /\ a \in Seq(C) /\ Len(a) = l /\ \A k \in 1..l : a[k] = t[k]
        /\ b \in Seq(C) /\ Len(b) = m /\ \A k \in 1..m : b[k] = t[l + k]
        /\ c \in Seq(C) /\ Len(c) = n /\ \A k \in 1..n : c[k] = t[l + m + k]
    <2>1. t \in Seq(C) /\ Len(t) = l + (m + n)
      BY <1>4
    <2>2. a \in Seq(C) /\ Len(a) = l /\ \A k \in 1..l : a[k] = t[k]
      BY <1>5, <2>1
    <2>3. b \in Seq(C) /\ Len(b) = m /\ \A k \in 1..m : b[k] = t[l + k]
      BY <1>5, <2>1
    <2>4. c \in Seq(C) /\ Len(c) = n /\ \A k \in 1..n : c[k] = t[l + m + k]
      BY <1>5, <2>1
    <2> QED BY <2>2, <2>3, <2>4
  <1>7. a = x
    <2>1. \A k \in 1..Len(a) : a[k] = x[k]
      <3> SUFFICES ASSUME NEW k \in 1..l PROVE a[k] = x[k]
        BY <1>6
      <3>1. k \in 1..(l + (m + n)) /\ k <= l
        OBVIOUS
      <3> QED BY <1>4, <1>6, <3>1
    <2> QED BY <1>1, <1>6, <2>1, SameSeq
  <1>8. b = y
    <2>1. \A k \in 1..Len(b) : b[k] = y[k]
      <3> SUFFICES ASSUME NEW k \in 1..m PROVE b[k] = y[k]
        BY <1>6
      <3>1. l + k \in 1..(l + (m + n)) /\ ~(l + k <= l) /\ (l + k) - l = k /\ k \in 1..(m + n) /\ k <= m
        OBVIOUS
      <3>2. t[l + k] = yz[(l + k) - l]
        BY <1>4, <3>1, Zenon
      <3>3. yz[k] = y[k]
        BY <1>3, <3>1
      <3> QED BY <1>6, <3>1, <3>2, <3>3
    <2> QED BY <1>1, <1>6, <2>1, SameSeq
  <1>9. c = z
    <2>1. \A k \in 1..Len(c) : c[k] = z[k]
      <3> SUFFICES ASSUME NEW k \in 1..n PROVE c[k] = z[k]
        BY <1>6
      <3>1. /\ l + m + k \in 1..(l + (m + n)) /\ ~(l + m + k <= l) /\ (l + m + k) - l = m + k
            /\ m + k \in 1..(m + n) /\ ~(m + k <= m) /\ (m + k) - m = k
        OBVIOUS
      <3>2. t[l + m + k] = yz[(l + m + k) - l]
        BY <1>4, <3>1, Zenon
      <3>3. yz[m + k] = z[(m + k) - m]
        BY <1>3, <3>1, Zenon
      <3> QED BY <1>6, <3>1, <3>2, <3>3
    <2> QED BY <1>1, <1>6, <2>1, SameSeq
  <1>10. /\ Len(x) + 1 \in 1..(Len(t) + 1) /\ Len(y) \in 0..(Len(t) + 1 - (Len(x) + 1))
         /\ (Len(x) + 1) - 1 = l /\ (Len(x) + 1) + Len(y) - 1 = l + m /\ (Len(x) + 1) + Len(y) = l + m + 1
         /\ Len(x) + 1 = l + 1
    <2>1. Len(t) = l + (m + n)
      BY <1>4
    <2> QED BY <1>1, <2>1
  <1> QED BY <1>4, <1>5, <1>7, <1>8, <1>9, <1>10, Zenon DEF PartsOf

\* The lines before some begin and end with an end of line at once.
LEMMA EndsBefore ==
  ASSUME NEW C, "nl" \in C, NEW before \in Seq(Seq(C))
  PROVE  \E p \in Seq(C) : Joined(Started(before), <<"nl">>) = Joined(<<"nl">>, p)
  <1>1. CASE before = <<>>
    <2>1. Started(<<>>) = <<>>
      BY StartedIs
    <2>2. Joined(<<>>, <<"nl">>) = Joined(<<"nl">>, <<>>) /\ <<>> \in Seq(C)
      BY DEF Joined
    <2> QED BY <1>1, <2>1, <2>2, Zenon
  <1>2. CASE before # <<>>
    <2>1. PICK text, nl : text = Edits!JoinLines(before) /\ nl = <<"nl">>
      BY Zenon
    <2>2. text \in Seq(C) /\ Joined(nl, text) = Started(before) /\ nl \in Seq(C)
      BY <1>2, <2>1, JoinLinesIs, SMTT(30) DEF Joined
    <2>3. Joined(text, nl) \in Seq(C) /\ Joined(Joined(nl, text), nl) = Joined(nl, Joined(text, nl))
      <3>1. text \in Seq(C) /\ nl \in Seq(C)
        BY <2>2
      <3> QED BY <3>1, JoinedIs
    <2> QED BY <2>1, <2>2, <2>3
  <1> QED BY <1>1, <1>2

\* Some lines of a text are a piece of it, and changing the lines is a splice
\* of that piece.
LEMMA LinesArePieces ==
  ASSUME NEW C, "nl" \in C, NEW text \in Seq(C), NEW new \in Seq(C),
         NEW k \in 1..Len(Edits!LinesOf(text)), NEW m \in 1..(Len(Edits!LinesOf(text)) + 1 - k)
  PROVE  \E i \in 1..(Len(text) + 1) : \E n \in 0..(Len(text) + 1 - i) :
           /\ Edits!LinesOf(SubSeq(text, i, i + n - 1)) = SubSeq(Edits!LinesOf(text), k, k + m - 1)
           /\ Edits!JoinLines(Edits!Splice(Edits!LinesOf(text), k, m, Edits!LinesOf(new)))
                = Edits!Splice(text, i, n, new)
  <1>1. PICK lines, changed : lines = Edits!LinesOf(text) /\ changed = Edits!LinesOf(new)
    OBVIOUS
  <1>2. /\ AreLines(lines, C) /\ Started(lines) = Joined(<<"nl">>, text) /\ lines \in Seq(Seq(C))
        /\ AreLines(changed, C) /\ changed # <<>> /\ Started(changed) = Joined(<<"nl">>, new) /\ changed \in Seq(Seq(C))
    <2>1. AreLines(lines, C) /\ Started(lines) = Joined(<<"nl">>, text)
      BY <1>1, LinesAre, Zenon DEF Joined
    <2>2. AreLines(changed, C) /\ changed # <<>> /\ Started(changed) = Joined(<<"nl">>, new)
      BY <1>1, LinesAre, Zenon DEF Joined
    <2> QED BY <2>1, <2>2 DEF AreLines
  <1>3. /\ Len(lines) \in Nat /\ k \in 1..(Len(lines) + 1) /\ m \in 0..(Len(lines) + 1 - k) /\ m >= 1
        /\ k \in Nat /\ m \in Nat /\ k + m - 1 <= Len(lines)
    BY <1>1, <1>2, SMTT(30)
  <1>4. PICK before, piece, behind : before = SubSeq(lines, 1, k - 1) /\ piece = SubSeq(lines, k, k + m - 1)
                                     /\ behind = SubSeq(lines, k + m, Len(lines))
    BY Zenon
  <1>5. /\ before \in Seq(Seq(C)) /\ piece \in Seq(Seq(C)) /\ behind \in Seq(Seq(C))
        /\ lines = Joined(before, Joined(piece, behind))
    <2>1. lines \in Seq(Seq(C)) /\ k \in 1..(Len(lines) + 1) /\ m \in 0..(Len(lines) + 1 - k)
      BY <1>2, <1>3
    <2>2. /\ SubSeq(lines, 1, k - 1) \in Seq(Seq(C)) /\ SubSeq(lines, k, k + m - 1) \in Seq(Seq(C))
          /\ SubSeq(lines, k + m, Len(lines)) \in Seq(Seq(C))
          /\ lines = Joined(SubSeq(lines, 1, k - 1), Joined(SubSeq(lines, k, k + m - 1), SubSeq(lines, k + m, Len(lines))))
      BY <2>1, CutIn, Zenon
    <2> QED BY <1>4, <2>2, Zenon
  <1>6. AreLines(piece, C) /\ piece # <<>>
    <2>1. Len(piece) = m /\ \A j \in 1..m : piece[j] = lines[k + j - 1] /\ k + j - 1 \in 1..Len(lines)
      BY <1>2, <1>3, <1>4
    <2>2. \A j \in 1..Len(piece) : Without(piece[j], "nl")
      BY <1>2, <2>1, Zenon DEF AreLines
    <2>3. piece # <<>>
      BY <1>3, <2>1
    <2> QED BY <1>5, <2>2, <2>3 DEF AreLines
  <1>7. PICK x, nl, sb, sz : x = Edits!JoinLines(piece) /\ nl = <<"nl">> /\ sb = Started(before) /\ sz = Started(behind)
    BY Zenon
  <1>8. /\ x \in Seq(C) /\ Started(piece) = Joined(nl, x) /\ nl \in Seq(C) /\ sb \in Seq(C) /\ sz \in Seq(C)
        /\ Edits!LinesOf(x) = piece
    <2>1. x \in Seq(C) /\ Started(piece) = Joined(nl, x)
      BY <1>5, <1>6, <1>7, JoinLinesIs, Zenon DEF Joined
    <2>2. sb \in Seq(C) /\ sz \in Seq(C)
      BY <1>5, <1>7, StartedIs
    <2>3. Edits!LinesOf(x) = piece
      BY <1>6, <1>7, LinesBack
    <2>4. nl \in Seq(C)
      BY <1>7
    <2> QED BY <2>1, <2>2, <2>3, <2>4
  <1>9. PICK p \in Seq(C) : Joined(sb, nl) = Joined(nl, p)
    BY <1>5, <1>7, EndsBefore
  <1>10. ASSUME NEW some \in Seq(Seq(C)), NEW y \in Seq(C), Started(some) = Joined(nl, y)
         PROVE  /\ Joined(before, Joined(some, behind)) \in Seq(Seq(C))
                /\ Started(Joined(before, Joined(some, behind))) = Joined(nl, Joined(p, Joined(y, sz)))
    <2>1. PICK rest : rest = Joined(some, behind)
      OBVIOUS
    <2>2. rest \in Seq(Seq(C)) /\ Joined(before, rest) \in Seq(Seq(C))
      BY <1>5, <2>1, JoinedIs
    <2>3. Started(rest) = Joined(Started(some), sz)
      BY <1>5, <1>7, <2>1, StartedIs, Zenon DEF Joined
    <2>4. Started(Joined(before, rest)) = Joined(sb, Started(rest))
      BY <1>5, <1>7, <2>2, StartedIs, Zenon DEF Joined
    <2>5. Joined(sb, Joined(Joined(nl, y), sz)) = Joined(nl, Joined(p, Joined(y, sz)))
      <3>1. PICK yz : yz = Joined(y, sz)
        OBVIOUS
      <3>2. yz \in Seq(C)
        BY <1>8, <3>1, JoinedIs
      <3>3. Joined(Joined(nl, y), sz) = Joined(nl, yz)
        BY <1>8, <3>1, JoinedIs
      <3>4. Joined(sb, Joined(nl, yz)) = Joined(Joined(sb, nl), yz)
        BY <1>8, <3>2, JoinedIs
      <3>5. Joined(Joined(nl, p), yz) = Joined(nl, Joined(p, yz))
        BY <1>8, <3>2, JoinedIs
      <3> QED BY <1>9, <3>1, <3>3, <3>4, <3>5, Zenon
    <2> QED BY <1>10, <2>1, <2>2, <2>3, <2>4, <2>5, Zenon
  <1>11. text = Joined(p, Joined(x, sz))
    <2>1. Joined(nl, text) = Joined(nl, Joined(p, Joined(x, sz)))
      <3>1. Started(Joined(before, Joined(piece, behind))) = Joined(nl, Joined(p, Joined(x, sz)))
        BY <1>5, <1>8, <1>10
      <3> QED BY <1>2, <1>5, <1>7, <3>1, Zenon
    <2>2. Joined(p, Joined(x, sz)) \in Seq(C)
      BY <1>8, JoinedIs
    <2>3. PICK other : other = Joined(p, Joined(x, sz))
      OBVIOUS
    <2>4. other \in Seq(C) /\ Joined(nl, text) = Joined(nl, other)
      BY <2>1, <2>2, <2>3, Zenon
    <2> QED BY <1>7, <2>3, <2>4, JoinedAlike
  <1>12. PICK spliced : spliced = Joined(before, Joined(changed, behind))
    OBVIOUS
  <1>13. spliced \in Seq(Seq(C)) /\ Started(spliced) = Joined(nl, Joined(p, Joined(new, sz)))
    BY <1>2, <1>7, <1>10, <1>12
  <1>14. Edits!Splice(lines, k, m, changed) = spliced
    <2>1. Edits!Splice(lines, k, m, changed) = Joined(Joined(before, changed), behind)
      BY <1>4 DEF Edits!Splice, Joined
    <2>2. Joined(Joined(before, changed), behind) = Joined(before, Joined(changed, behind))
      BY <1>2, <1>5, JoinedIs
    <2> QED BY <1>12, <2>1, <2>2
  <1>15. Edits!JoinLines(spliced) = Joined(p, Joined(new, sz))
    <2>1. spliced # <<>>
      <3>1. PICK c : c = Joined(changed, behind)
        OBVIOUS
      <3>2. c \in Seq(Seq(C)) /\ Len(c) = Len(changed) + Len(behind) /\ Len(changed) # 0 /\ Len(changed) \in Nat /\ Len(behind) \in Nat
        <4>1. Len(changed) # 0 /\ Len(changed) \in Nat /\ Len(behind) \in Nat
          BY <1>2, <1>5, SMTT(30)
        <4> QED BY <1>2, <1>5, <3>1, <4>1, JoinIs DEF Joined
      <3>3. Len(spliced) = Len(before) + Len(c) /\ Len(before) \in Nat
        BY <1>5, <1>12, <3>1, <3>2, JoinIs DEF Joined
      <3>4. Len(spliced) # 0
        BY <3>2, <3>3
      <3> QED BY <3>4
    <2>2. PICK y : y = Edits!JoinLines(spliced)
      OBVIOUS
    <2>3. y \in Seq(C) /\ Joined(nl, y) = Started(spliced)
      BY <1>7, <1>13, <2>1, <2>2, JoinLinesIs, Zenon DEF Joined
    <2>4. Joined(p, Joined(new, sz)) \in Seq(C)
      BY <1>8, JoinedIs
    <2>5. Joined(nl, y) = Joined(nl, Joined(p, Joined(new, sz)))
      BY <1>13, <2>3
    <2>6. y = Joined(p, Joined(new, sz))
      <3>1. PICK other : other = Joined(p, Joined(new, sz))
        OBVIOUS
      <3>2. y \in Seq(C) /\ other \in Seq(C) /\ Joined(nl, y) = Joined(nl, other)
        BY <2>3, <2>4, <2>5, <3>1, Zenon
      <3> QED BY <1>7, <3>1, <3>2, JoinedAlike
    <2> QED BY <2>2, <2>6
  <1>16. PICK i, n : i = Len(p) + 1 /\ n = Len(x)
    BY Zenon
  <1>17. /\ i \in 1..(Len(text) + 1) /\ n \in 0..(Len(text) + 1 - i)
         /\ SubSeq(text, 1, i - 1) = p /\ SubSeq(text, i, i + n - 1) = x /\ SubSeq(text, i + n, Len(text)) = sz
    <2>1. x \in Seq(C) /\ sz \in Seq(C)
      BY <1>8
    <2>2. /\ Len(p) + 1 \in 1..(Len(text) + 1) /\ Len(x) \in 0..(Len(text) + 1 - (Len(p) + 1))
          /\ SubSeq(text, 1, (Len(p) + 1) - 1) = p
          /\ SubSeq(text, Len(p) + 1, (Len(p) + 1) + Len(x) - 1) = x
          /\ SubSeq(text, (Len(p) + 1) + Len(x), Len(text)) = sz
      <3>1. PartsOf(text, p, x, sz)
        BY <1>11, <2>1, PutIn
      <3> QED BY <3>1, Zenon DEF PartsOf
    <2> QED BY <1>16, <2>2, Zenon
  <1>18. Edits!Splice(text, i, n, new) = Joined(p, Joined(new, sz))
    <2>1. Edits!Splice(text, i, n, new) = Joined(Joined(p, new), sz)
      BY <1>17, Zenon DEF Edits!Splice, Joined
    <2>2. Joined(Joined(p, new), sz) = Joined(p, Joined(new, sz))
      BY <1>8, JoinedIs
    <2> QED BY <2>1, <2>2
  <1>19. /\ Edits!LinesOf(SubSeq(text, i, i + n - 1)) = SubSeq(Edits!LinesOf(text), k, k + m - 1)
         /\ Edits!JoinLines(Edits!Splice(Edits!LinesOf(text), k, m, Edits!LinesOf(new)))
              = Edits!Splice(text, i, n, new)
    BY <1>1, <1>4, <1>8, <1>14, <1>15, <1>17, <1>18, Zenon
  <1> QED BY <1>17, <1>19, Zenon

\* The lines of a text with the blanks around them left aside.
Trimmed(lines) == [k \in DOMAIN lines |-> Edits!Trim(lines[k])]

\* What a patch gives, with the names of applySurgicalPatch.
Near(lines, wanted) ==
    {k \in 1..(Len(lines) - Len(wanted) + 1) : Edits!LinesMatch(lines, wanted, k)}
PatchOf(text, wanted, new, eol) ==
    IF wanted = <<>> THEN Edits!Refused
    ELSE IF Edits!Occurrences(text, wanted) # {}
    THEN IF Edits!FoundAgain(text, wanted, Edits!Min(Edits!Occurrences(text, wanted))) THEN Edits!Refused
         ELSE Edits!Applied(Edits!ApplyEol(
                Edits!Splice(text, Edits!Min(Edits!Occurrences(text, wanted)), Len(wanted), new), eol))
    ELSE IF Edits!Cardinality(Near(Edits!LinesOf(text), Trimmed(Edits!LinesOf(wanted)))) = 1
    THEN Edits!Applied(Edits!ApplyEol(
            Edits!JoinLines(Edits!Splice(Edits!LinesOf(text),
                                         Edits!Min(Near(Edits!LinesOf(text), Trimmed(Edits!LinesOf(wanted)))),
                                         Len(Trimmed(Edits!LinesOf(wanted))), Edits!LinesOf(new))), eol))
    ELSE Edits!Refused

\* A surgical patch is the patch of the normalized texts.
LEMMA PatchIs ==
  ASSUME NEW original, NEW target, NEW replacement
  PROVE  Edits!ApplySurgicalPatch(original, target, replacement)
           = PatchOf(Edits!Normalized(original), Edits!Trim(Edits!Normalized(target)),
                     Edits!Normalized(replacement), Edits!DetectEol(original))
  BY DEF Edits!ApplySurgicalPatch, PatchOf, Near, Trimmed

\* An exact patch replaces the one place where its target stands.
LEMMA ExactPatch ==
  ASSUME NEW C, Endings \subseteq C, NEW text \in Seq(C), Without(text, "crlf"),
         NEW wanted \in Seq(C), Without(wanted, "crlf"), NEW new \in Seq(C), NEW eol \in Endings,
         Edits!Occurrences(text, wanted) # {}, PatchOf(text, wanted, new, eol).applied
  PROVE  Edits!ReplacesOnePlace(Edits!ApplyEol(text, eol), Edits!ApplyEol(wanted, eol), Edits!ApplyEol(new, eol),
                                PatchOf(text, wanted, new, eol).text)
  <1>1. PICK exact, i, patch, original, old, put :
          /\ exact = Edits!Occurrences(text, wanted) /\ i = Edits!Min(exact) /\ patch = PatchOf(text, wanted, new, eol)
          /\ original = Edits!ApplyEol(text, eol) /\ old = Edits!ApplyEol(wanted, eol) /\ put = Edits!ApplyEol(new, eol)
    OBVIOUS
  <1>2. PICK L \in Nat, n \in Nat : L = Len(text) /\ n = Len(wanted)
    OBVIOUS
  <1>3. exact \in SUBSET Nat /\ \A j \in exact : j \in 1..(L - n + 1)
    BY <1>1, <1>2 DEF Edits!Occurrences
  <1>4. i \in exact /\ \A j \in exact : i <= j
    <2>1. PICK some : some \in exact
      BY <1>1
    <2> QED BY <1>1, <1>3, <2>1, MinIs
  <1>5. ~Edits!FoundAgain(text, wanted, i) /\ patch.text = Edits!ApplyEol(Edits!Splice(text, i, n, new), eol)
    <2>1. Edits!Refused.applied = FALSE
      BY DEF Edits!Refused
    <2>2. \A t : Edits!Applied(t).text = t
      BY DEF Edits!Applied
    <2>3. patch = IF wanted = <<>> THEN Edits!Refused
                  ELSE IF Edits!FoundAgain(text, wanted, i) THEN Edits!Refused
                  ELSE Edits!Applied(Edits!ApplyEol(Edits!Splice(text, i, n, new), eol))
      BY <1>1, <1>2, Zenon DEF PatchOf
    <2> QED BY <1>1, <2>1, <2>2, <2>3
  <1>6. \A j \in exact : j < i + n
    <2>1. \A j \in exact : ~(j >= i + n)
      BY <1>1, <1>2, <1>5 DEF Edits!FoundAgain
    <2> QED BY <1>3, <1>4, <2>1
  <1>7. Len(old) = n /\ Edits!Occurrences(original, old) = exact
    BY <1>1, <1>2, EndsOfLine, SameOccurrences
  <1>8. patch.text = Edits!Splice(original, i, n, put)
    <2>1. i \in 1..(Len(text) + 1) /\ n \in 0..(Len(text) + 1 - i) /\ "nl" \in C /\ eol \in C
      BY <1>2, <1>3, <1>4 DEF Endings
    <2>2. Edits!Replaced(Edits!Splice(text, i, n, new), "nl", eol)
            = Edits!Splice(Edits!Replaced(text, "nl", eol), i, n, Edits!Replaced(new, "nl", eol))
      BY <2>1, ReplacedAround
    <2> QED BY <1>1, <1>5, <2>2, Zenon DEF Edits!ApplyEol
  <1>9. \A j, l \in exact : j < l => l < j + n
    BY <1>2, <1>3, <1>4, <1>6
  <1> QED BY <1>1, <1>4, <1>7, <1>8, <1>9 DEF Edits!ReplacesOnePlace

\* A near patch replaces some lines of the text, and the target stands nowhere in it.
Changed(original, wanted, eol, new, result) ==
    /\ Edits!Occurrences(original, Edits!ApplyEol(wanted, eol)) = {}
    /\ \E i \in 1..(Len(original) + 1) : \E n \in 0..(Len(original) + 1 - i) :
         /\ Trimmed(Edits!LinesOf(Edits!Normalized(SubSeq(original, i, i + n - 1)))) = Trimmed(Edits!LinesOf(wanted))
         /\ result = Edits!Splice(original, i, n, new)

\* A piece of the normalized text is the normalized piece of the file.
LEMMA NormalizedIn ==
  ASSUME NEW C, Endings \subseteq C, NEW t \in Seq(C), NEW i \in 1..(Len(t) + 1), NEW j \in (i - 1)..Len(t)
  PROVE  Edits!Normalized(SubSeq(t, i, j)) = SubSeq(Edits!Normalized(t), i, j)
  <1>1. PICK crlf, nl, piece, r :
          crlf = "crlf" /\ nl = "nl" /\ piece = SubSeq(t, i, j) /\ r = Edits!Replaced(t, crlf, nl)
    BY Zenon
  <1>2. nl \in C
    BY <1>1 DEF Endings
  <1>3. Edits!Replaced(piece, crlf, nl) = SubSeq(r, i, j)
    BY <1>1, <1>2, ReplacedIn
  <1> QED BY <1>1, <1>3, Zenon DEF Edits!Normalized

\* What the near patch of a normalized text does to the file.
LEMMA NearPatch ==
  ASSUME NEW C, Endings \subseteq C, NEW text \in Seq(C), Without(text, "crlf"),
         NEW wanted \in Seq(C), Without(wanted, "crlf"), NEW new \in Seq(C), NEW eol \in Endings,
         Edits!Occurrences(text, wanted) = {}, PatchOf(text, wanted, new, eol).applied
  PROVE  Changed(Edits!ApplyEol(text, eol), wanted, eol, Edits!ApplyEol(new, eol), PatchOf(text, wanted, new, eol).text)
  <1>1. PICK lines, aim, changed, patch, original, put :
          /\ lines = Edits!LinesOf(text) /\ aim = Trimmed(Edits!LinesOf(wanted)) /\ changed = Edits!LinesOf(new)
          /\ patch = PatchOf(text, wanted, new, eol)
          /\ original = Edits!ApplyEol(text, eol) /\ put = Edits!ApplyEol(new, eol)
    OBVIOUS
  <1>2. PICK near, k, m : near = Near(lines, aim) /\ k = Edits!Min(near) /\ m = Len(aim)
    BY Zenon
  <1>0. "nl" \in C /\ eol \in C
    BY DEF Endings
  <1>3. Edits!Cardinality(near) = 1 /\ patch.text = Edits!ApplyEol(Edits!JoinLines(Edits!Splice(lines, k, m, changed)), eol)
    <2>1. Edits!Refused.applied = FALSE
      BY DEF Edits!Refused
    <2>2. \A t : Edits!Applied(t).text = t
      BY DEF Edits!Applied
    <2>3. patch = IF wanted = <<>> THEN Edits!Refused
                  ELSE IF Edits!Cardinality(near) = 1
                  THEN Edits!Applied(Edits!ApplyEol(Edits!JoinLines(Edits!Splice(lines, k, m, changed)), eol))
                  ELSE Edits!Refused
      BY <1>1, <1>2, Zenon DEF PatchOf
    <2> QED BY <1>1, <2>1, <2>2, <2>3
  <1>4. lines \in Seq(Seq(C)) /\ lines # <<>> /\ Edits!LinesOf(wanted) \in Seq(Seq(C)) /\ Edits!LinesOf(wanted) # <<>>
    BY <1>0, <1>1, LinesAre DEF AreLines
  <1>5. m \in Nat \ {0} /\ DOMAIN aim = 1..m
    <2>1. PICK w : w = Edits!LinesOf(wanted)
      OBVIOUS
    <2>2. w \in Seq(Seq(C)) /\ Len(w) \in Nat \ {0} /\ DOMAIN w = 1..Len(w)
      BY <1>4, <2>1
    <2>3. aim = [j \in 1..Len(w) |-> Edits!Trim(w[j])]
      BY <1>1, <2>1, <2>2 DEF Trimmed
    <2>4. \A j \in 1..Len(w) : Edits!Trim(w[j]) \in Seq(C)
      BY <2>2, TrimIs
    <2>5. aim \in [1..Len(w) -> Seq(C)]
      BY <2>3, <2>4
    <2>6. DOMAIN aim = 1..Len(w) /\ Len(aim) = Len(w)
      BY <2>2, <2>5, FunIsSeq
    <2> QED BY <1>2, <2>2, <2>6
  <1>6. near \in SUBSET Nat /\ \A j \in near : j \in 1..(Len(lines) - m + 1) /\ Edits!LinesMatch(lines, aim, j)
    BY <1>2 DEF Near
  <1>7. near # {}
    <2>1. Cardinality(near) = 1
      BY <1>3 DEF Edits!Cardinality, Cardinality
    <2>2. Cardinality({}) = 0
      BY FS_EmptySet
    <2>3. near = {} => Cardinality(near) = 0
      BY <2>2
    <2> QED BY <2>1, <2>3
  <1>8. k \in near
    <2>1. PICK some : some \in near
      BY <1>7
    <2> QED BY <1>2, <1>6, <2>1, MinIs, Zenon
  <1>9. Len(lines) \in Nat /\ k \in 1..Len(lines) /\ m \in 1..(Len(lines) + 1 - k) /\ k \in Nat
    <2>1. Len(lines) \in Nat /\ k \in 1..(Len(lines) - m + 1)
      BY <1>4, <1>6, <1>8
    <2> QED BY <1>5, <2>1
  <1>19. PICK i \in 1..(Len(text) + 1) : \E n \in 0..(Len(text) + 1 - i) :
           /\ Edits!LinesOf(SubSeq(text, i, i + n - 1)) = SubSeq(lines, k, k + m - 1)
           /\ Edits!JoinLines(Edits!Splice(lines, k, m, changed)) = Edits!Splice(text, i, n, new)
    <2>1. k \in 1..Len(Edits!LinesOf(text)) /\ m \in 1..(Len(Edits!LinesOf(text)) + 1 - k)
      BY <1>1, <1>9
    <2>2. \E i \in 1..(Len(text) + 1) : \E n \in 0..(Len(text) + 1 - i) :
           /\ Edits!LinesOf(SubSeq(text, i, i + n - 1)) = SubSeq(Edits!LinesOf(text), k, k + m - 1)
           /\ Edits!JoinLines(Edits!Splice(Edits!LinesOf(text), k, m, Edits!LinesOf(new)))
                = Edits!Splice(text, i, n, new)
      BY <1>0, <2>1, LinesArePieces, Zenon
    <2> QED BY <1>1, <2>2
  <1>10. PICK n \in 0..(Len(text) + 1 - i) :
           /\ Edits!LinesOf(SubSeq(text, i, i + n - 1)) = SubSeq(lines, k, k + m - 1)
           /\ Edits!JoinLines(Edits!Splice(lines, k, m, changed)) = Edits!Splice(text, i, n, new)
    BY <1>19
  <1>11. original \in Seq(C) /\ Len(original) = Len(text) /\ Edits!Normalized(original) = text
    BY <1>1, EndsOfLine
  <1>12. patch.text = Edits!Splice(original, i, n, put)
    <2>1. Edits!Replaced(Edits!Splice(text, i, n, new), "nl", eol)
            = Edits!Splice(Edits!Replaced(text, "nl", eol), i, n, Edits!Replaced(new, "nl", eol))
      BY <1>0, ReplacedAround
    <2> QED BY <1>1, <1>3, <1>10, <2>1, Zenon DEF Edits!ApplyEol
  <1>13. Edits!Normalized(SubSeq(original, i, i + n - 1)) = SubSeq(text, i, i + n - 1)
    <2>1. PICK L, j : L = Len(text) /\ L \in Nat /\ j = i + n - 1
      OBVIOUS
    <2>2. i \in 1..(L + 1) /\ j \in (i - 1)..L
      BY <2>1
    <2>3. original \in Seq(C) /\ L = Len(original)
      BY <1>11, <2>1
    <2>4. Edits!Normalized(SubSeq(original, i, j)) = SubSeq(Edits!Normalized(original), i, j)
      <3>1. i \in 1..(Len(original) + 1) /\ j \in (i - 1)..Len(original)
        BY <2>2, <2>3
      <3>2. original \in Seq(C)
        BY <2>3
      <3> QED BY <3>1, <3>2, NormalizedIn, ZenonT(30)
    <2> QED BY <1>11, <2>1, <2>4, Zenon
  <1>14. Trimmed(SubSeq(lines, k, k + m - 1)) = aim
    <2>1. PICK piece : piece = SubSeq(lines, k, k + m - 1)
      BY Zenon
    <2>2. piece \in Seq(Seq(C)) /\ Len(piece) = m /\ DOMAIN piece = 1..m /\ \A j \in 1..m : piece[j] = lines[k + j - 1]
      <3>1. m \in Nat /\ k + m - 1 \in 1..Len(lines)
        BY <1>9
      <3>2. piece \in Seq(Seq(C)) /\ Len(piece) = m
        <4>1. k \in 1..(Len(lines) + 1) /\ k + m - 1 \in (k - 1)..Len(lines) /\ (k + m - 1) - k + 1 = m
          BY <1>9
        <4>2. lines \in Seq(Seq(C))
          BY <1>4
        <4>3. /\ SubSeq(lines, k, k + m - 1) \in Seq(Seq(C))
              /\ Len(SubSeq(lines, k, k + m - 1)) = (k + m - 1) - k + 1
          BY <4>1, <4>2, PieceWithout
        <4> QED BY <2>1, <4>1, <4>3, Zenon
      <3>3. \A j \in 1..m : piece[j] = lines[k + j - 1]
        BY <1>4, <1>9, <2>1, <3>1
      <3> QED BY <3>1, <3>2, <3>3
    <2>3. \A j \in 1..m : Edits!Trim(lines[k + j - 1]) = aim[j]
      BY <1>5, <1>6, <1>8, Zenon DEF Edits!LinesMatch
    <2>4. Trimmed(piece) = [j \in 1..m |-> aim[j]]
      BY <2>2, <2>3, Zenon DEF Trimmed
    <2>5. aim = [j \in 1..m |-> aim[j]]
      BY <1>1, <1>5 DEF Trimmed
    <2> QED BY <2>1, <2>4, <2>5, Zenon
  <1>15. Edits!Occurrences(original, Edits!ApplyEol(wanted, eol)) = {}
    BY <1>1, SameOccurrences
  <1>16. Trimmed(Edits!LinesOf(Edits!Normalized(SubSeq(original, i, i + n - 1)))) = aim
    BY <1>10, <1>13, <1>14, Zenon
  <1>17. i \in 1..(Len(original) + 1) /\ n \in 0..(Len(original) + 1 - i)
    BY <1>11
  <1>18. Changed(original, wanted, eol, put, patch.text)
    BY <1>1, <1>12, <1>15, <1>16, <1>17, Zenon DEF Changed
  <1> QED BY <1>1, <1>18

\* A patch that applies to a file with one end of line replaces the only place
\* of its target, or, when the target stands nowhere, a piece whose lines are
\* the target's with the blanks aside; the rest keeps its bytes
\* (applySurgicalPatch).
THEOREM PatchesAreLocal ==
  ASSUME NEW C, NEW original \in Seq(C), NEW target \in Seq(C), NEW replacement \in Seq(C)
  PROVE  Edits!PatchIsLocal(original, target, replacement)
  <1> DEFINE text == Edits!Normalized(original)
             wanted == Edits!Trim(Edits!Normalized(target))
             put == Edits!Normalized(replacement)
             eol == Edits!DetectEol(original)
             patch == PatchOf(text, wanted, put, eol)
             uniform == Edits!Uniform(original)
  <1>1. PICK D : D = C \cup Endings
    BY Zenon
  <1>2. Endings \subseteq D /\ original \in Seq(D) /\ target \in Seq(D) /\ replacement \in Seq(D)
    BY <1>1
  <1>3. /\ text \in Seq(D) /\ Without(text, "crlf")
        /\ wanted \in Seq(D) /\ Without(wanted, "crlf")
        /\ put \in Seq(D)
    <2>1. /\ text \in Seq(D) /\ Without(text, "crlf")
          /\ Edits!Normalized(target) \in Seq(D) /\ Without(Edits!Normalized(target), "crlf") /\ put \in Seq(D)
      BY <1>2, NormalizedIs
    <2>2. wanted \in Seq(D) /\ Without(wanted, "crlf")
      BY <2>1, TrimIs
    <2> QED BY <2>1, <2>2
  <1>4. uniform => eol \in Endings /\ Edits!ApplyEol(text, eol) = original
    BY <1>2, UniformComesBack DEF Edits!Uniform
  <1>5. Edits!PatchIsLocal(original, target, replacement)
          = (patch.applied /\ uniform =>
               \/ Edits!ReplacesOnePlace(original, Edits!ApplyEol(wanted, eol), Edits!ApplyEol(put, eol), patch.text)
               \/ Changed(original, wanted, eol, Edits!ApplyEol(put, eol), patch.text))
    BY PatchIs DEF Edits!PatchIsLocal, Changed, Trimmed
  <1> HIDE DEF text, wanted, put, eol, patch, uniform
  <1>6. ASSUME patch.applied, uniform
        PROVE  \/ Edits!ReplacesOnePlace(original, Edits!ApplyEol(wanted, eol), Edits!ApplyEol(put, eol), patch.text)
               \/ Changed(original, wanted, eol, Edits!ApplyEol(put, eol), patch.text)
    <2>1. eol \in Endings /\ Edits!ApplyEol(text, eol) = original /\ PatchOf(text, wanted, put, eol).applied
      BY <1>4, <1>6 DEF patch
    <2>2. CASE Edits!Occurrences(text, wanted) # {}
      <3>1. Edits!ReplacesOnePlace(Edits!ApplyEol(text, eol), Edits!ApplyEol(wanted, eol), Edits!ApplyEol(put, eol),
                                   PatchOf(text, wanted, put, eol).text)
        BY <1>2, <1>3, <2>1, <2>2, ExactPatch, Zenon
      <3> QED BY <2>1, <3>1 DEF patch
    <2>3. CASE Edits!Occurrences(text, wanted) = {}
      <3>1. Changed(Edits!ApplyEol(text, eol), wanted, eol, Edits!ApplyEol(put, eol), PatchOf(text, wanted, put, eol).text)
        BY <1>2, <1>3, <2>1, <2>3, NearPatch, Zenon
      <3> QED BY <2>1, <3>1 DEF patch
    <2> QED BY <2>2, <2>3
  <1> QED BY <1>5, <1>6, Zenon
================================================================================
