------------------------------- MODULE Journal -------------------------------
(***************************************************************************)
(* LocalJsonSessionStore: one append-only journal per session, replayed    *)
(* when the process starts, with appends that fail or are cut short by a   *)
(* crash, and the migration of the single-file store it replaced.          *)
(*                                                                         *)
(* A journal is a sequence of lines.  A line is a sequence of pieces: more *)
(* than one when something was appended to a line without its newline.     *)
(* Each write has a number; of a record its kind and that number are kept. *)
(* A tool execution is kept the way a message is, and stands under it.     *)
(***************************************************************************)
EXTENDS Naturals, Sequences, SequencesExt

CONSTANTS
    Sessions,
    Legacy,     \* the sessions of the single-file store
    MaxWrites,  \* bound: writes
    None        \* no journal; no session

VARIABLES
    up,       \* the process runs
    legacy,   \* session_store.json is there
    files,    \* session -> its journal, or None
    memory,   \* session -> its SessionState, or None
    writes,   \* writes so far
    alive, deleted, spared, acked, glued, redone  \* history variables, see below

\* alive: created, and the journal not deleted.  deleted: a deletion returned.
\* spared: deleted, but the removal of the journal had failed.  acked: the
\* messages whose save returned, oldest first.  glued: sessions whose journal
\* was appended to behind a line without its newline.  redone: sessions
\* migrated again after their journal had gone its own way.
history == <<alive, deleted, spared, acked, glued, redone>>
vars == <<up, legacy, files, memory, writes, history>>

Kinds == {"session", "message", "telemetry"}
Piece == [kind : Kinds, n : Nat, whole : BOOLEAN]
File == [lines : Seq(Seq(Piece)), ended : BOOLEAN]
State == [record : Nat, messages : Seq(Nat), telemetry : Nat]

Rec(kind, n) == [kind |-> kind, n |-> n, whole |-> TRUE]
Cut(kind, n) == [kind |-> kind, n |-> n, whole |-> FALSE]

-----------------------------------------------------------------------------
(* The journal. *)

\* A piece at the end of the file, with or without its newline.
Appended(f, piece, newline) ==
    CASE f = None -> [lines |-> << <<piece>> >>, ended |-> newline]
      [] f # None /\ f.ended ->
           [lines |-> Append(f.lines, <<piece>>), ended |-> newline]
      [] OTHER ->
           [lines |-> [f.lines EXCEPT ![Len(f.lines)] = Append(@, piece)],
            ended |-> newline]

Parses(line) == Len(line) = 1 /\ line[1].whole

\* Only the last line may be torn; anything else throws.
Readable(f) ==
    f = None \/ \A i \in DOMAIN f.lines : Parses(f.lines[i]) \/ i = Len(f.lines)

IsA(line, kind) == Parses(line) /\ line[1].kind = kind

\* The records of a kind, in file order.
Numbers(f, kind) ==
    LET Upto[i \in 0..Len(f.lines)] ==
          IF i = 0 THEN <<>>
          ELSE IF IsA(f.lines[i], kind) THEN Append(Upto[i - 1], f.lines[i][1].n)
          ELSE Upto[i - 1]
    IN Upto[Len(f.lines)]

LastOr(seq, default) == IF seq = <<>> THEN default ELSE Last(seq)

Exists(f) == f # None /\ Numbers(f, "session") # <<>>

\* readJournal.
Replay(f) ==
    IF ~Exists(f) THEN None
    ELSE [record |-> LastOr(Numbers(f, "session"), 0),
          messages |-> Numbers(f, "message"),
          telemetry |-> LastOr(Numbers(f, "telemetry"), 0)]

-----------------------------------------------------------------------------
(* The start of the process. *)

\* What the migration writes: the record and the messages (one stands for
\* all) of the old store, number 0.
LegacyFile ==
    Appended(Appended(None, Rec("session", 0), TRUE), Rec("message", 0), TRUE)

Init ==
    /\ up = FALSE
    /\ legacy \in BOOLEAN
    /\ files = [s \in Sessions |-> None]
    /\ memory = [s \in Sessions |-> None]
    /\ writes = 0
    /\ alive = (IF legacy THEN Legacy ELSE {}) /\ deleted = {} /\ spared = {}
    /\ acked = [s \in Sessions |-> IF legacy /\ s \in Legacy THEN <<0>> ELSE <<>>]
    /\ glued = {} /\ redone = {}

\* loadAll: one unreadable journal and the constructor throws.
Load(fs) ==
    IF \A s \in Sessions : Readable(fs[s])
    THEN up' = TRUE /\ memory' = [s \in Sessions |-> Replay(fs[s])]
    ELSE UNCHANGED <<up, memory>>

\* The constructor migrates before it loads, so nothing is in memory yet.
MayMigrate == ~up /\ legacy /\ \A s \in Sessions : memory[s] = None

Migrated(done) == [s \in Sessions |-> IF s \in done THEN LegacyFile ELSE files[s]]

MigrateThese(done) ==
    /\ files' = Migrated(done)
    /\ redone' = redone \cup {s \in done :
         files[s] # LegacyFile /\ (files[s] # None \/ s \in deleted)}
    /\ UNCHANGED <<writes, alive, deleted, spared, acked, glued>>

Start ==
    /\ ~up /\ ~legacy
    /\ Load(files)
    /\ UNCHANGED <<legacy, files, writes, history>>

Migrate ==
    /\ MayMigrate /\ legacy' = FALSE
    /\ MigrateThese(Legacy)
    /\ Load(files')

\* A write or the last rename fails: the error is caught, the old store
\* stays, and the process starts with what there is.
MigrationFails ==
    /\ MayMigrate /\ UNCHANGED legacy
    /\ \E done \in SUBSET Legacy : MigrateThese(done)
    /\ Load(files')

\* Each journal is written aside and renamed, so a crash leaves whole ones.
MigrationCrashes ==
    /\ MayMigrate /\ UNCHANGED <<legacy, up, memory>>
    /\ \E done \in SUBSET Legacy : MigrateThese(done)

-----------------------------------------------------------------------------
(* Writes.  Each is one synchronous append. *)

Empty == [s \in Sessions |-> None]

Glue(s) == IF files[s] # None /\ ~files[s].ended THEN glued \cup {s} ELSE glued

\* What an append leaves when it fails or the process dies in it.
Torn(s, kind, n) ==
    {files[s], Appended(files[s], Cut(kind, n), FALSE),
     Appended(files[s], Rec(kind, n), FALSE)}

\* appendLine: it returns, it throws, or the process dies in it.
AppendLine(s, kind, state, stateOnError) ==
    /\ up /\ writes < MaxWrites /\ writes' = writes + 1
    /\ UNCHANGED <<legacy, deleted, spared, redone>>
    /\ \/ /\ files' = [files EXCEPT ![s] = Appended(@, Rec(kind, writes'), TRUE)]
          /\ memory' = [memory EXCEPT ![s] = state]
          /\ acked' = IF kind = "message" THEN [acked EXCEPT ![s] = Append(@, writes')]
                      ELSE acked
          /\ alive' = IF state # None THEN alive \cup {s} ELSE alive
          /\ glued' = Glue(s)
          /\ UNCHANGED up
       \/ \E f \in Torn(s, kind, writes') :
            /\ files' = [files EXCEPT ![s] = f]
            /\ glued' = IF f # files[s] THEN Glue(s) ELSE glued
            /\ \/ memory' = [memory EXCEPT ![s] = stateOnError] /\ UNCHANGED up
               \/ up' = FALSE /\ memory' = Empty
            /\ UNCHANGED <<alive, acked>>

\* Ids are never handed out twice.
CreateSession(s) ==
    /\ s \notin Legacy /\ s \notin alive \cup deleted /\ files[s] = None
    /\ AppendLine(s, "session",
                  [record |-> writes', messages |-> <<>>, telemetry |-> 0], None)

\* A turn writes to a session it created or resumed, which may have been
\* deleted under it.
MayWrite(s) == memory[s] # None \/ s \in deleted

\* Mutant of SaveMessage: it is pushed before it is appended.
PushFirst(s) ==
    LET st == IF memory[s] = None THEN None
              ELSE [memory[s] EXCEPT !.messages = Append(@, writes')]
    IN MayWrite(s) /\ AppendLine(s, "message", st, st)

\* saveMessage, saveToolExecution.
SaveMessage(s) ==
    LET st == IF memory[s] = None THEN None
              ELSE [memory[s] EXCEPT !.messages = Append(@, writes')]
    IN MayWrite(s) /\ AppendLine(s, "message", st, memory[s])

UpdateTelemetry(s) ==
    LET st == IF memory[s] = None THEN None
              ELSE [memory[s] EXCEPT !.telemetry = writes']
    IN MayWrite(s) /\ AppendLine(s, "telemetry", st, memory[s])

\* updateSessionStatus, updateSessionModelConfig: the record in memory is
\* changed first, also when the append then fails.
UpdateSession(s) ==
    LET st == [memory[s] EXCEPT !.record = writes']
    IN memory[s] # None /\ AppendLine(s, "session", st, st)

\* It returns true, also when the removal of the journal failed.
DeleteSession(s) ==
    /\ up /\ memory[s] # None
    /\ memory' = [memory EXCEPT ![s] = None] /\ deleted' = deleted \cup {s}
    /\ \/ /\ files' = [files EXCEPT ![s] = None]
          /\ alive' = alive \ {s} /\ spared' = spared \ {s}
       \/ /\ spared' = spared \cup {s}
          /\ UNCHANGED <<files, alive>>
    /\ UNCHANGED <<up, legacy, writes, acked, glued, redone>>

\* The process ends, or dies between two writes.
Stop ==
    /\ up /\ up' = FALSE /\ memory' = Empty
    /\ UNCHANGED <<legacy, files, writes, history>>

Next ==
    \/ Start \/ Migrate \/ MigrationFails \/ MigrationCrashes \/ Stop
    \/ \E s \in Sessions :
         \/ CreateSession(s) \/ SaveMessage(s) \/ UpdateTelemetry(s)
         \/ UpdateSession(s) \/ DeleteSession(s)

Spec == Init /\ [][Next]_vars
-----------------------------------------------------------------------------
(* Properties. *)

\* Every variable stays in its type, and a session in memory has a journal.
TypeOK ==
    /\ up \in BOOLEAN /\ legacy \in BOOLEAN
    /\ files \in [Sessions -> File \cup {None}]
    /\ memory \in [Sessions -> State \cup {None}]
    /\ \A s \in Sessions : memory[s] # None => up /\ files[s] # None
    /\ writes \in 0..MaxWrites
    /\ alive \subseteq Sessions /\ deleted \subseteq Sessions /\ spared \subseteq deleted
    /\ acked \in [Sessions -> Seq(Nat)]
    /\ glued \subseteq Sessions /\ redone \subseteq Sessions

\* Each of some is once in all, and they stand in the order they have in some.
InOrder(some, all) ==
    \E at \in [DOMAIN some -> DOMAIN all] :
        \A i \in DOMAIN some :
            /\ {k \in DOMAIN all : all[k] = some[i]} = {at[i]}
            /\ \A j \in 1..(i - 1) : at[j] < at[i]

\* The journal of s can be read, and reading it gives every message whose
\* save returned, in order; or s still waits in the old store.
Kept(s) ==
    \/ legacy /\ s \in Legacy /\ files[s] = None
    \/ /\ Readable(files[s]) /\ Replay(files[s]) # None
       /\ InOrder(acked[s], Replay(files[s]).messages)

\* Through failed appends, crashes in the middle of one, restarts and a
\* migration that failed or died half way, nothing that was acknowledged is
\* lost, as long as no one wrote behind a torn line and no journal in use was
\* migrated again: the constructor's test for an empty store always holds, so
\* after a migration that failed part way the next start overwrites journals
\* that were written to in between.
AckedSurvives == \A s \in alive \ (glued \cup redone) : Kept(s)

\* An append that throws does not leave memory with a message, or telemetry,
\* that a restart would not find.
MemoryNotAhead ==
    \A s \in Sessions \ glued : memory[s] # None =>
        /\ ToSet(memory[s].messages) \subseteq ToSet(Numbers(files[s], "message"))
        /\ memory[s].telemetry = 0
             \/ memory[s].telemetry \in ToSet(Numbers(files[s], "telemetry"))

\* A deleted session does not come back at a restart, though a turn that was
\* under way goes on writing to it; unless its journal could not be removed,
\* of which nobody is told.
DeletedStaysDeleted == \A s \in deleted \ (redone \cup spared) : memory[s] = None

\* What the deletion makes of every error of the removal: "already gone".
DeletedIsGone == \A s \in deleted \ redone : memory[s] = None

\* What the header says of a process killed in an append: it damages only
\* the final line, which replay skips rather than failing the whole session.
TornTailSkipped == \A s \in Sessions : Readable(files[s])
=============================================================================
