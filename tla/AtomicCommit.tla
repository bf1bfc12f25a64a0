----------------------------- MODULE AtomicCommit -----------------------------
(***************************************************************************)
(* What an edit transaction promises: all of its files change at once, or  *)
(* none does.  Nothing is promised of a file somebody else writes after    *)
(* the commit has checked it, nor of a file the error names as not         *)
(* restored, nor of several files when the process dies in between.        *)
(***************************************************************************)
CONSTANTS
    Paths,
    Values,    \* what a path may hold, no file included
    Foreign,   \* what somebody else makes of a path
    Unknown    \* nothing is promised of the path

VARIABLES
    files,       \* path -> its value, or Unknown
    pending,     \* staged path -> the value to write
    committing

vars == <<files, pending, committing>>

Init ==
    /\ files \in [Paths -> Values]
    /\ pending = <<>>
    /\ committing = FALSE

Stage(p, v) ==
    /\ ~committing
    /\ pending' = [q \in DOMAIN pending \cup {p} |-> IF q = p THEN v ELSE pending[q]]
    /\ UNCHANGED <<files, committing>>

Rollback == ~committing /\ pending' = <<>> /\ UNCHANGED <<files, committing>>

Begin == ~committing /\ committing' = TRUE /\ UNCHANGED <<files, pending>>

\* The files are now f, as far as anything was promised of them.
Become(f) ==
    /\ committing /\ committing' = FALSE
    /\ files' \in [Paths -> Values]
    /\ \A p \in Paths : files[p] # Unknown => files'[p] = f[p]

\* Everything at once.
Commit ==
    /\ Become([p \in Paths |-> IF p \in DOMAIN pending THEN pending[p] ELSE files[p]])
    /\ pending' = <<>>

\* Nothing at all: what was staged stays staged.
Refuse == Become(files) /\ UNCHANGED pending

\* The process dies: one file is as it was, several may be anything.
Die ==
    /\ committing /\ committing' = FALSE /\ pending' = <<>>
    /\ files' \in [Paths -> Values]
    /\ \A p \in Paths :
         files[p] # Unknown /\ (p \notin DOMAIN pending \/ DOMAIN pending = {p})
            => files'[p] = files[p]

\* Somebody else writes a file, or it cannot be restored.
Others(p, v) == files' = [files EXCEPT ![p] = v] /\ UNCHANGED <<pending, committing>>
Lost(p) == committing /\ p \in DOMAIN pending /\ Others(p, Unknown)

Next ==
    \/ \E p \in Paths, v \in Values : Stage(p, v)
    \/ \E p \in Paths, v \in Foreign : Others(p, v)
    \/ Rollback \/ Begin \/ Commit \/ Refuse \/ Die
    \/ \E p \in Paths : Lost(p)

Spec == Init /\ [][Next]_vars
================================================================================
