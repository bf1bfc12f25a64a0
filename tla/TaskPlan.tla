-------------------------------- MODULE TaskPlan -------------------------------
(***************************************************************************)
(* The plan of a task on disk: PLAN.md, the sidecar plan.json beside it    *)
(* and the archive.  The update_plan tool reads PLAN.md and writes the two *)
(* one after the other; the terminal loads the sidecar first, restores     *)
(* archived plans and starts the execution of the loaded one; the editor's *)
(* sidebar follows a watcher of PLAN.md; the agent and the user may write  *)
(* PLAN.md themselves, and the tool's process may die between its writes.  *)
(***************************************************************************)
EXTENDS PlanFormat

CONSTANTS Calls,       \* the step lists the model passes to update_plan
          Written,     \* the markdown the agent or the user writes by hand
          MaxEvents    \* bound: writes of any kind

NoFile == [json |-> NoJson, status |-> "no file", lines |-> <<>>]

\* What a write that fails midway leaves: writeFileSync truncates first.
EmptyFile == [NoFile EXCEPT !.status = "empty"]

VARIABLES
    md,       \* PLAN.md
    sidecar,  \* plan.json, or NoJson
    archive,  \* the files under .inflynx/plans
    writing,  \* the plan update_plan has in PLAN.md but not yet in the sidecar, or NoJson
    unread,   \* the last call of update_plan could not read the PLAN.md it replaced
    tree,     \* the steps the sidebar shows
    notice,   \* the watcher has an event for the sidebar
    events

planVars == <<md, sidecar, archive, writing, unread, tree, notice, events>>

\* Only earlier versions filled the archive: nothing calls writePlan now.
Init ==
    /\ md = NoFile /\ sidecar = NoJson /\ archive \in SUBSET Written
    /\ writing = NoJson /\ unread = FALSE /\ tree = <<>> /\ notice = FALSE /\ events = 0

\* The plan in PLAN.md, and what there is when it has none.
Parsed == IF md \in {NoFile, EmptyFile} THEN NoJson ELSE ParsePlanMarkdown(md)

\* loadActivePlan: the sidecar, or else PLAN.md.
Loaded == IF sidecar # NoJson THEN sidecar ELSE Parsed

Counts == events < MaxEvents /\ events' = events + 1

\* Mutant of Existing: the plan to merge with is the loaded one.
ExistingLoaded == Loaded.steps

\* The tool reads PLAN.md, not the sidecar.
Existing == Parsed.steps

\* The read of a file that is there may fail; the call then replaces the plan
\* as if there were none, and its result says so.
Read(existing) ==
    \/ existing = Existing /\ unread' = FALSE
    \/ md # NoFile /\ existing = <<>> /\ unread' = TRUE

\* update_plan, as far as PLAN.md.
UpdatePlan(raws) ==
    /\ Counts /\ writing = NoJson
    /\ \E existing \in {Existing, <<>>} :
          /\ Read(existing)
          /\ Accepts(raws, existing)
          /\ md' = RenderPlanMarkdown(Built(raws, existing))
          /\ writing' = Built(raws, existing)
    /\ notice' = TRUE
    /\ UNCHANGED <<sidecar, archive, tree>>

\* The call's plan is accepted and the write of PLAN.md fails midway.
PlanWriteFails(raws) ==
    /\ Counts /\ writing = NoJson
    /\ \E existing \in {Existing, <<>>} : Read(existing) /\ Accepts(raws, existing)
    /\ md' = EmptyFile
    /\ notice' = TRUE
    /\ UNCHANGED <<sidecar, archive, writing, tree>>

\* The second write of the call.
WriteSidecar ==
    /\ writing # NoJson
    /\ sidecar' = writing
    /\ writing' = NoJson
    /\ UNCHANGED <<md, archive, unread, tree, notice, events>>

\* The process dies between the two writes, or the second one fails.
Die ==
    /\ writing # NoJson
    /\ writing' = NoJson
    /\ UNCHANGED <<md, sidecar, archive, unread, tree, notice, events>>

\* PLAN.md written by write_file in plan mode, or in an editor.
WriteByHand(file) ==
    /\ Counts /\ writing = NoJson /\ md # file
    /\ md' = file
    /\ notice' = TRUE
    /\ UNCHANGED <<sidecar, archive, writing, unread, tree>>

\* The current file is archived before a restored one takes its place.
Archived == IF md = NoFile THEN archive ELSE archive \cup {md}

\* restorePlan.
RestorePlan(file) ==
    /\ Counts /\ writing = NoJson
    /\ file \in archive
    /\ archive' = Archived
    /\ md' = file
    /\ notice' = TRUE
    /\ UNCHANGED <<sidecar, writing, unread, tree>>

\* writeSpec: a declared end is taken as it is, any other status derived.
WriteSpec(plan) ==
    RenderPlanMarkdown([plan EXCEPT !.status =
        IF @ \in {"ABORTED", "COMPLETED"} THEN @ ELSE DerivePlanStatus(@, plan.steps)])

\* /execute-plan: the loaded plan has pending steps, the user confirms, and it
\* goes to PLAN.md as in progress.
ExecutePlan ==
    /\ Counts /\ writing = NoJson
    /\ Loaded # NoJson /\ WithState(Loaded.steps, {"pending"}) # {}
    /\ md' = WriteSpec([Loaded EXCEPT !.status = "IN_PROGRESS"])
    /\ notice' = TRUE
    /\ UNCHANGED <<sidecar, archive, writing, unread, tree>>

\* The sidebar's refresh, on an event of the watcher.
Refresh ==
    /\ notice
    /\ tree' = Loaded.steps
    /\ notice' = FALSE
    /\ UNCHANGED <<md, sidecar, archive, writing, unread, events>>

Next ==
    \/ \E raws \in Calls : UpdatePlan(raws) \/ PlanWriteFails(raws)
    \/ WriteSidecar \/ Die
    \/ \E file \in Written : WriteByHand(file)
    \/ \E file \in archive : RestorePlan(file)
    \/ ExecutePlan \/ Refresh

Spec == Init /\ [][Next]_planVars

-----------------------------------------------------------------------------

\* Whatever update_plan publishes holds every step that was in PLAN.md, in its
\* old state or one the call named (plan-tool.ts:203-217); only a call whose
\* read of the file failed may leave one out (plan-tool.ts:331-333).
NoStepDropped ==
    [][writing' # NoJson /\ writing = NoJson =>
        unread' \/ Ids(Parsed.steps) \subseteq Ids(writing'.steps)]_planVars

\* "Omitting one, even a completed one, is refused rather than silently dropped"
\* (plan-tool.ts:262-264).  False: a call that cannot read the file drops what
\* it does not name, with a note in the result.
OmissionsRefused ==
    [][writing' # NoJson /\ writing = NoJson =>
        Ids(Parsed.steps) \subseteq Ids(writing'.steps)]_planVars

\* The sidebar and the terminal show the same steps once the watcher is quiet
\* and no call is between its two writes (PlanTreeProvider.ts:93-95 says they
\* can never disagree).
SidebarFollows == ~notice /\ writing = NoJson => tree = Loaded.steps
================================================================================
