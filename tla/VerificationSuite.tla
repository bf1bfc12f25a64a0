---------------------------- MODULE VerificationSuite ---------------------------
(***************************************************************************)
(* The checks behind an edit: which ones a workspace has at a depth, and   *)
(* runAllChecks over execProcessDirectDetailed, one child at a time, each  *)
(* with its time limit and the user's interrupt.                           *)
(***************************************************************************)
EXTENDS Naturals, Sequences, SequencesExt

Depths == {"basic", "standard", "deep"}
Rank(depth) == CASE depth = "basic" -> 0 [] depth = "standard" -> 1 [] depth = "deep" -> 2

\* The scripts of a package that name a check, and the depth each needs.
Scripts == {"typecheck", "check-types", "build", "test", "test:unit", "lint"}
Gate(check) == check # "lint"

VARIABLES
    depth, full,  \* options: the depth, and whether the full test suite is run
    workspace,    \* [scripts, tsconfig]
    phase,        \* "idle", "running", "between" or "done"
    results,      \* the finished checks, <<check, passed>>
    aborted,
    suitePassed

suiteVars == <<depth, full, workspace, phase, results, aborted, suitePassed>>

-----------------------------------------------------------------------------
(* discoverWorkspaceChecks. *)

\* The fast subset of the tests, unless the full suite is asked for or there
\* is no such script.
TestScript ==
    IF ~full /\ "test:unit" \in workspace.scripts THEN "test:unit" ELSE "test"

\* add: the check of a script, at the depths that ask for it.
Wanted(check, need) ==
    IF check \in workspace.scripts /\ Rank(need) <= Rank(depth) THEN <<check>> ELSE <<>>

\* Checks in the order they are run; a bare compiler run when there is none.
Discovered ==
    LET checks == Wanted("typecheck", "basic") \o Wanted("check-types", "basic")
                  \o Wanted("build", "standard")
                  \o Wanted(TestScript, "deep") \o Wanted("lint", "deep")
    IN  IF checks = <<>> /\ workspace.tsconfig THEN <<"tsc_check">> ELSE checks

-----------------------------------------------------------------------------

Init ==
    /\ depth \in Depths /\ full \in BOOLEAN
    /\ workspace \in [scripts : SUBSET Scripts, tsconfig : BOOLEAN]
    /\ phase = "idle" /\ results = <<>>
    /\ aborted = FALSE /\ suitePassed = FALSE

Current == Discovered[Len(results) + 1]

\* No check at all is not a pass, and the caller runs nothing.
RunAllChecks ==
    /\ phase = "idle" /\ ~aborted
    /\ suitePassed' = (Discovered # <<>>)
    /\ phase' = IF Discovered = <<>> THEN "done" ELSE "between"
    /\ UNCHANGED <<depth, full, workspace, results, aborted>>

RunCheck ==
    /\ phase = "between"
    /\ phase' = "running"
    /\ UNCHANGED <<depth, full, workspace, results, aborted, suitePassed>>

\* Mutant of FailsSuite: only the type checks count.
FailsSuiteTypes(check, passed) == ~passed /\ check \in {"typecheck", "check-types", "tsc_check"}

\* A failing gate fails the suite and ends it.
FailsSuite(check, passed) == ~passed /\ Gate(check)

Record(check, passed) ==
    /\ results' = Append(results, <<check, passed>>)
    /\ suitePassed' = (suitePassed /\ ~FailsSuite(check, passed))
    /\ phase' = IF FailsSuite(check, passed) \/ Len(results') = Len(Discovered) THEN "done" ELSE "between"

\* The child exits with 0 or another code, could not be started, or was ended
\* by its time limit or its output. 
Exited(passed) ==
    /\ phase = "running"
    /\ Record(Current, passed)
    /\ UNCHANGED <<depth, full, workspace, aborted>>

\* onAbort: SIGTERM for the child, which nobody waits for, and a failed check.
Interrupt == Record(Current, FALSE)

Abort ==
    /\ ~aborted /\ phase \in {"idle", "running"}
    /\ aborted' = TRUE
    /\ IF phase = "running" THEN Interrupt ELSE UNCHANGED <<phase, results, suitePassed>>
    /\ UNCHANGED <<depth, full, workspace>>

Next ==
    \/ RunAllChecks \/ RunCheck \/ Abort
    \/ \E passed \in BOOLEAN : Exited(passed)

Spec == Init /\ [][Next]_suiteVars

-----------------------------------------------------------------------------

\* A green suite ran every gate the workspace has at this depth, each passed,
\* and an interrupted gate never counts as one that did.
GreenIsComplete ==
    phase = "done" /\ suitePassed =>
        /\ Discovered # <<>>
        /\ \A i \in DOMAIN Discovered : Gate(Discovered[i]) => <<Discovered[i], TRUE>> \in ToSet(results)

\* "The distinction that stops a false green": something passed
\* (VerificationEngine.ts:43-47).
GreenIsVerified ==
    phase = "done" /\ suitePassed => \E i \in DOMAIN results : results[i][2]
================================================================================
