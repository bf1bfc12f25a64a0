----------------------------- MODULE SchemaMigrations ---------------------------
(***************************************************************************)
(* The migrations of the database.  The server has two pools on it, one    *)
(* for the sessions and one for the identities, and each runs what has not *)
(* been applied before its first query: the list is read once, then every  *)
(* missing migration has a transaction of its own.  An attempt that fails  *)
(* is forgotten, and the next call of the store makes a new one.           *)
(***************************************************************************)
EXTENDS Naturals

CONSTANTS Pools, MaxMigration,
          MaxFailures   \* bound

Migrations == 1..MaxMigration

VARIABLES
    applied,   \* the rows of schema_migrations
    runs,      \* how often a migration has run
    pool,      \* the state of a pool's promise: "none", "running", "ready"
    read,      \* what the running attempt has read of schema_migrations
    cursor,    \* the migration it is at
    failures

migrationVars == <<applied, runs, pool, read, cursor, failures>>

Init ==
    /\ \E k \in 0..MaxMigration : applied = 1..k
    /\ runs = [m \in Migrations |-> IF m \in applied THEN 1 ELSE 0]
    /\ pool = [p \in Pools |-> "none"] /\ read = [p \in Pools |-> {}]
    /\ cursor = [p \in Pools |-> 1] /\ failures = 0

\* ensureMigrated without a promise: the table is made and read.
BeginMigrating(p) ==
    /\ pool[p] = "none"
    /\ pool' = [pool EXCEPT ![p] = "running"]
    /\ read' = [read EXCEPT ![p] = applied] /\ cursor' = [cursor EXCEPT ![p] = 1]
    /\ UNCHANGED <<applied, runs, failures>>

Advance(p) ==
    /\ cursor' = [cursor EXCEPT ![p] = @ + 1]
    /\ pool' = [pool EXCEPT ![p] = IF cursor[p] = MaxMigration THEN "ready" ELSE @]

\* One transaction of the loop.  Two pools at the same migration wait for each
\* other's locks, and both run it; the second row is left out.
Migrate(p) ==
    LET m == cursor[p] IN
    /\ pool[p] = "running"
    /\ Advance(p)
    /\ IF m \in read[p] THEN UNCHANGED <<applied, runs>>
       ELSE applied' = applied \cup {m} /\ runs' = [runs EXCEPT ![m] = @ + 1]
    /\ UNCHANGED <<read, failures>>

\* Mutant of Forgets: the rejected promise stays.
ForgetsNot(p) == pool' = [pool EXCEPT ![p] = "rejected"]

Forgets(p) == pool' = [pool EXCEPT ![p] = "none"]

\* The connection or the migration fails: its transaction is rolled back.
FailMigrating(p) ==
    /\ pool[p] = "running" /\ failures < MaxFailures
    /\ Forgets(p)
    /\ failures' = failures + 1
    /\ UNCHANGED <<applied, runs, read, cursor>>

Next == \E p \in Pools : BeginMigrating(p) \/ Migrate(p) \/ FailMigrating(p)

\* The store is called again and the database answers.
Retries(p) == BeginMigrating(p) \/ Migrate(p)

Spec == Init /\ [][Next]_migrationVars /\ \A p \in Pools : WF_migrationVars(Retries(p))

-----------------------------------------------------------------------------

\* A pool whose first attempts fail is ready in the end, and with the whole
\* schema (PostgresSessionStore.ts:50-54).
SchemaReady == \A p \in Pools : <>[](pool[p] = "ready" /\ applied = Migrations)

\* "Each migration runs exactly once" (migrations.ts:9).
RunsOnce == \A m \in Migrations : runs[m] <= 1
================================================================================
