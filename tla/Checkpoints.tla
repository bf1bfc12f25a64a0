----------------------------- MODULE Checkpoints -----------------------------
(***************************************************************************)
(* TurnCheckpointStore: what the tools of a turn write is recorded entry   *)
(* by entry, committed at the end of the turn, pruned, and reverted by     *)
(* /undo, while people, shell commands and other sessions write the same   *)
(* workspace.                                                              *)
(*                                                                         *)
(* A file is its bytes: the hash of the code is injective and the reverse  *)
(* patch is the pair of the bytes before and after.  A tool stages,        *)
(* commits and records in one synchronous stretch, so it is one step; so   *)
(* is each entry of an undo, and others may write between two entries.     *)
(* Directories, symbolic links and failing system calls are left out.      *)
(***************************************************************************)
EXTENDS Naturals, Sequences

CONSTANTS
    Sessions,
    Paths,        \* workspace-relative paths
    AgentBytes,   \* what tools write
    HumanBytes,   \* what the user and everybody else writes
    Keep,         \* retainTurns
    MaxTurns,     \* bound: turns
    MaxCalls,     \* bound: mutating tool calls, those of others included
    MaxTrash,     \* bound: files moved to the trash
    MaxOutside,   \* bound: writes by somebody else
    None          \* no file; no turn; not a move; not touched

Trash == 1..MaxTrash
Places == Paths \cup Trash
Bytes == AgentBytes \cup HumanBytes

VARIABLES
    disk,      \* place -> its bytes, or None
    trashed,   \* trash names used so far: a name is a timestamp, never reused
    open,      \* session -> the checkpoint being recorded (current), or None
    saved,     \* session -> its checkpoint files, oldest first
    undoing,   \* session -> the undo under way, or None
    begun, mutations, outside  \* turns, tool calls, others' writes so far

vars == <<disk, trashed, open, saved, undoing, begun, mutations, outside>>

\* A checkpoint entry.  before = None is !existedBefore; a created file has
\* before = None.  movedTo # None is a move, and carries no bytes.
Entry == [path : Places, movedTo : Places \cup {None},
          before : Bytes \cup {None}, after : Bytes \cup {None}]

\* A turn's checkpoint.  Its last four fields are history variables: what it
\* first found and last left at each place it touched (None, None: untouched;
\* hence the field touched), whether each mutation was recorded, and whether
\* nobody else wrote to a place after the turn had touched it.
Turn == [n : Nat, entries : Seq(Entry), undone : BOOLEAN,
         touched : SUBSET Places,
         found : [Places -> Bytes \cup {None}],
         left : [Places -> Bytes \cup {None}],
         recorded : BOOLEAN, alone : BOOLEAN]

\* at: the index of the turn in saved; todo: entries not yet reverted.
\* alone: nothing the turn touched was disturbed since the turn began.
Undo == [at : Nat \ {0}, todo : Nat, restored : Nat, conflicts : Nat,
         alone : BOOLEAN]

Init ==
    /\ disk \in [Places -> HumanBytes \cup {None}]
    /\ \A k \in Trash : disk[k] = None
    /\ trashed = 0
    /\ open = [s \in Sessions |-> None]
    /\ saved = [s \in Sessions |-> <<>>]
    /\ undoing = [s \in Sessions |-> None]
    /\ begun = 0 /\ mutations = 0 /\ outside = 0

-----------------------------------------------------------------------------
(* Recording. *)

Mentions(entries, p) == \E i \in DOMAIN entries : entries[i].path = p

\* recordEdit and recordMove: the first entry of a path is the one kept.
Record(entries, e) ==
    IF Mentions(entries, e.path) THEN entries ELSE Append(entries, e)

Edit(p, old, new) == [path |-> p, movedTo |-> None, before |-> old, after |-> new]
Move(from, to) == [path |-> from, movedTo |-> to, before |-> None, after |-> None]

\* Somebody other than session s changed the places in Q.
Disturbed(t, Q) ==
    IF t # None /\ t.touched \cap Q # {} THEN [t EXCEPT !.alone = FALSE] ELSE t
DisturbedUndo(x, Q) ==
    IF undoing[x] # None /\ saved[x][undoing[x].at].touched \cap Q # {}
    THEN [undoing[x] EXCEPT !.alone = FALSE] ELSE undoing[x]

\* Session s leaves the disk as "after", having changed Q; entries is what
\* its checkpoint then holds and complete whether that covers the change.
Mutate(s, after, Q, entries, complete) ==
    LET t == open[s] IN
    /\ mutations' = mutations + 1
    /\ disk' = after
    /\ open' = [x \in Sessions |->
         IF x # s THEN Disturbed(open[x], Q)
         ELSE [t EXCEPT !.entries = entries,
                        !.touched = @ \cup Q,
                        !.found = [q \in Places |->
                            IF q \in Q \ t.touched THEN disk[q] ELSE @[q]],
                        !.left = [q \in Places |->
                            IF q \in Q THEN after[q] ELSE @[q]],
                        !.recorded = @ /\ complete]]
    /\ undoing' = [x \in Sessions |-> IF x = s THEN undoing[x] ELSE DisturbedUndo(x, Q)]

MayMutate(s) == open[s] # None /\ mutations + outside < MaxCalls

-----------------------------------------------------------------------------
(* The life of a turn. *)

\* beginTurn overwrites whatever an unfinished turn left.
BeginTurn(s) ==
    /\ open[s] = None /\ undoing[s] = None /\ begun < MaxTurns
    /\ begun' = begun + 1
    /\ open' = [open EXCEPT ![s] =
         [n |-> begun', entries |-> <<>>, undone |-> FALSE, touched |-> {},
          found |-> [q \in Places |-> None], left |-> [q \in Places |-> None],
          recorded |-> TRUE, alone |-> TRUE]]
    /\ UNCHANGED <<disk, trashed, saved, undoing, mutations, outside>>

\* patch_file, edit_file and write_file.
EditFile(s, p, b) ==
    /\ MayMutate(s)
    /\ LET es == open[s].entries IN
       Mutate(s, [disk EXCEPT ![p] = b], {p},
              Record(es, Edit(p, disk[p], b)), ~Mentions(es, p))
    /\ UNCHANGED <<trashed, saved, begun, outside>>

\* delete_path: a rename into the trash.
DeletePath(s, p) ==
    /\ MayMutate(s) /\ disk[p] # None /\ trashed < MaxTrash
    /\ trashed' = trashed + 1
    /\ LET es == open[s].entries
           k == trashed'
       IN Mutate(s, [disk EXCEPT ![p] = None, ![k] = disk[p]], {p, k},
                 Record(es, Move(p, k)), ~Mentions(es, p))
    /\ UNCHANGED <<saved, begun, outside>>

\* The trash is on another device: copy and unlink, and no entry.
DeleteAcrossDevices(s, p) ==
    /\ MayMutate(s) /\ disk[p] # None /\ trashed < MaxTrash
    /\ trashed' = trashed + 1
    /\ Mutate(s, [disk EXCEPT ![p] = None, ![trashed'] = disk[p]], {p, trashed'},
              open[s].entries, FALSE)
    /\ UNCHANGED <<saved, begun, outside>>

\* move_path, also back out of the trash.
MovePath(s, from, to) ==
    /\ MayMutate(s) /\ from # to /\ disk[from] # None /\ disk[to] = None
    /\ LET es == open[s].entries IN
       Mutate(s, [disk EXCEPT ![from] = None, ![to] = disk[from]], {from, to},
              Record(es, Move(from, to)), ~Mentions(es, from))
    /\ UNCHANGED <<trashed, saved, begun, outside>>

\* move_path with overwrite: the file in the way goes to the trash first.
MoveOver(s, from, to) ==
    /\ MayMutate(s) /\ from # to /\ disk[from] # None /\ disk[to] # None
    /\ trashed < MaxTrash /\ trashed' = trashed + 1
    /\ LET es == open[s].entries
           k == trashed'
       IN Mutate(s, [disk EXCEPT ![from] = None, ![to] = disk[from], ![k] = disk[to]],
                 {from, to, k},
                 Record(Record(es, Move(to, k)), Move(from, to)),
                 ~Mentions(es, to) /\ ~Mentions(es, from))
    /\ UNCHANGED <<saved, begun, outside>>

\* The newest Keep checkpoints of a session.
Prune(ts) == IF Len(ts) > Keep THEN SubSeq(ts, Len(ts) - Keep + 1, Len(ts)) ELSE ts

\* commitTurn: a turn without entries leaves no checkpoint.
CommitTurn(s) ==
    /\ open[s] # None
    /\ open' = [open EXCEPT ![s] = None]
    /\ saved' = IF open[s].entries = <<>> THEN saved
                ELSE [saved EXCEPT ![s] = Prune(Append(@, open[s]))]
    /\ UNCHANGED <<disk, trashed, undoing, begun, mutations, outside>>

\* runTurn rejects, or the process dies, in a turn or in an undo: what was
\* not yet on disk is gone.
Lose(s) ==
    /\ open[s] # None \/ undoing[s] # None
    /\ open' = [open EXCEPT ![s] = None]
    /\ undoing' = [undoing EXCEPT ![s] = None]
    /\ UNCHANGED <<disk, trashed, saved, begun, mutations, outside>>

-----------------------------------------------------------------------------
(* /undo. *)

\* The entries are gone through backwards.
EntriesOf(t) == Len(t.entries)

\* Mutant of NextEntry: oldest entry first.
OldestEntry(t, todo) == t.entries[Len(t.entries) - todo + 1]

NextEntry(t, todo) == t.entries[todo]

\* latest(): the newest checkpoint not undone.
BeginUndo(s) ==
    /\ open[s] = None /\ undoing[s] = None
    /\ \E i \in DOMAIN saved[s] :
         /\ ~saved[s][i].undone
         /\ \A j \in DOMAIN saved[s] : j > i => saved[s][j].undone
         /\ undoing' = [undoing EXCEPT ![s] =
              LET t == saved[s][i] IN
              [at |-> i, todo |-> EntriesOf(t), restored |-> 0, conflicts |-> 0,
               alone |-> t.alone /\ \A q \in t.touched : disk[q] = t.left[q]]]
    /\ UNCHANGED <<disk, trashed, open, saved, begun, mutations, outside>>

\* Mutant of MayRevert: a changed file is reverted all the same.
RevertsUnchecked(e) == TRUE

\* A move is undone when the moved file is there and nothing takes its place.
MayMoveBack(e) == disk[e.movedTo] # None /\ disk[e.path] = None

\* An edit is undone when the file is what the edit left.  A file the edit
\* created may be gone already.
MayRevert(e) == disk[e.path] = e.after \/ (disk[e.path] = None /\ e.before = None)

\* The disk once e is reverted.
Reverted(e) ==
    IF e.movedTo # None
    THEN [disk EXCEPT ![e.path] = disk[e.movedTo], ![e.movedTo] = None]
    ELSE [disk EXCEPT ![e.path] = e.before]

\* Newest entry first; what cannot be reverted is reported as a conflict.
UndoEntry(s) ==
    LET u == undoing[s]
        t == saved[s][u.at]
        e == NextEntry(t, u.todo)
        may == IF e.movedTo # None THEN MayMoveBack(e) ELSE MayRevert(e)
        Q == IF e.movedTo # None THEN {e.path, e.movedTo} ELSE {e.path}
        mine == IF may THEN [u EXCEPT !.todo = @ - 1, !.restored = @ + 1]
                ELSE [u EXCEPT !.todo = @ - 1, !.conflicts = @ + 1]
    IN
    /\ u # None /\ u.todo > 0
    /\ disk' = IF may THEN Reverted(e) ELSE disk
    /\ open' = IF may THEN [x \in Sessions |-> Disturbed(open[x], Q)] ELSE open
    /\ undoing' = [x \in Sessions |->
         CASE x = s -> mine
           [] x # s /\ may -> DisturbedUndo(x, Q)
           [] OTHER -> undoing[x]]
    /\ UNCHANGED <<trashed, saved, begun, mutations, outside>>

\* Anything restored marks the turn undone.
EndUndo(s) ==
    /\ undoing[s] # None /\ undoing[s].todo = 0
    /\ saved' = IF undoing[s].restored = 0 THEN saved
                ELSE [saved EXCEPT ![s][undoing[s].at].undone = TRUE]
    /\ undoing' = [undoing EXCEPT ![s] = None]
    /\ UNCHANGED <<disk, trashed, open, begun, mutations, outside>>

-----------------------------------------------------------------------------
\* A person, a shell command or another program writes or removes a file;
\* of the trash they only empty it.
Outside(q, b) ==
    /\ outside < MaxOutside /\ mutations + outside < MaxCalls /\ disk[q] # b
    /\ q \in Trash => b = None
    /\ outside' = outside + 1
    /\ disk' = [disk EXCEPT ![q] = b]
    /\ open' = [x \in Sessions |-> Disturbed(open[x], {q})]
    /\ undoing' = [x \in Sessions |-> DisturbedUndo(x, {q})]
    /\ UNCHANGED <<trashed, saved, begun, mutations>>

ToolStep(s) ==
    \/ \E p \in Paths, b \in AgentBytes : EditFile(s, p, b)
    \/ \E p \in Paths : DeletePath(s, p) \/ DeleteAcrossDevices(s, p)
    \/ \E from \in Places, to \in Paths : MovePath(s, from, to) \/ MoveOver(s, from, to)

Next ==
    \/ \E s \in Sessions :
         \/ BeginTurn(s) \/ ToolStep(s) \/ CommitTurn(s) \/ Lose(s)
         \/ BeginUndo(s) \/ UndoEntry(s) \/ EndUndo(s)
    \/ \E q \in Places, b \in HumanBytes \cup {None} : Outside(q, b)

Spec == Init /\ [][Next]_vars
-----------------------------------------------------------------------------
(* Properties. *)

\* Every variable stays in its type, and an undo points into its turn.
TypeOK ==
    /\ disk \in [Places -> Bytes \cup {None}]
    /\ trashed \in 0..MaxTrash
    /\ open \in [Sessions -> Turn \cup {None}]
    /\ saved \in [Sessions -> Seq(Turn)]
    /\ undoing \in [Sessions -> Undo \cup {None}]
    /\ \A s \in Sessions : undoing[s] # None =>
         /\ undoing[s].at \in DOMAIN saved[s]
         /\ undoing[s].todo <= Len(saved[s][undoing[s].at].entries)
    /\ begun \in 0..MaxTurns /\ mutations \in 0..MaxCalls
    /\ outside \in 0..MaxOutside

\* Nobody else touched what the turn touched, and it is as the turn left it.
Undisturbed(s) == undoing[s] # None /\ undoing[s].todo = 0 /\ undoing[s].alone

\* The undo of this turn refused nothing and put every place the turn
\* touched back to what the turn found there.
PutBack(s) ==
    LET t == saved[s][undoing[s].at] IN
    undoing[s].conflicts = 0 /\ \A q \in t.touched : disk[q] = t.found[q]

\* Undo inverts a turn: replaying the entries backwards undoes any mix of
\* edits, deletions, moves and replacing moves, moves out of the trash
\* included, when each mutation got its entry.
UndoInverts ==
    \A s \in Sessions :
        Undisturbed(s) /\ saved[s][undoing[s].at].recorded => PutBack(s)

\* Whatever happened since the turn, and during the undo, no undo destroys
\* the bytes somebody else wrote: they are still in the workspace after it.
HumanWorkSurvivesUndo ==
    [][\A s \in Sessions : UndoEntry(s) =>
         \A h \in HumanBytes : (\E q \in Places : disk[q] = h)
                                 => \E q \in Places : disk'[q] = h]_vars

\* A commit leaves every session its newest Keep checkpoints, the new one
\* among them: a busy session never eats the undo history of another.
Turns(ts) == {ts[i].n : i \in DOMAIN ts}
PruneSparesNewest ==
    [][\A s, x \in Sessions : CommitTurn(s) /\ open[s].entries # <<>> =>
         LET all == Turns(saved[x]) \cup (IF x = s THEN {open[s].n} ELSE {})
             kept == Turns(saved'[x])
         IN /\ kept \subseteq all
            /\ kept = all \/ Len(saved'[x]) = Keep
            /\ \A n \in all \ kept, m \in kept : n < m]_vars

\* What recordEdit says of a turn that only edits files: it is restored to
\* what it was before its first edit, however often it edited a file.
RepeatedEditUndone ==
    \A s \in Sessions :
        LET t == saved[s][undoing[s].at] IN
        Undisturbed(s) /\ (\A q \in t.touched : Mentions(t.entries, q))
                       /\ (\A i \in DOMAIN t.entries : t.entries[i].movedTo = None)
            => PutBack(s)
=============================================================================
