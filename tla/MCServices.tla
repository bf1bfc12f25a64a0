------------------------------ MODULE MCServices -------------------------------
(* One run for the services a turn leans on, which share no state: each      *)
(* behaviour is one of the plan's files, of a call of a model, of the MCP    *)
(* client, of the session store, of the migrations or of the accounts, whose  *)
(* module this one extends.                                                  *)
EXTENDS Accounts

CONSTANTS Omitted, NoCommand, MaxSteps, MaxEvents, MaxAttempts,
          Servers, UserServers, HttpServers, SseServers, Names, MaxSessions, MaxRequests,
          StoredSessions, MaxMessages, MaxFaults,
          Pools, MaxMigration, MaxFailures

ASSUME RoomAssumption == MaxSessions \in Nat

VARIABLES service,
          md, sidecar, archive, writing, unread, tree, notice, events,
          adapter, phase, attempt, deaf, stripped, aborted, hung, outcome,
          trusted, todo, command, connecting, status, sessionOf, life, peer, exits, owner,
          lists, registry, registered, pending, delivered, asked, over,
          reach, tripped, pinned, row, kept, known, told, sent, held, doubled, faults,
          applied, runs, pool, read, cursor, failures

planVars == <<md, sidecar, archive, writing, unread, tree, notice, events>>
callVars == <<adapter, phase, attempt, deaf, stripped, aborted, hung, outcome>>
mcpVars == <<trusted, todo, command, connecting, status, sessionOf, life, peer, exits, owner,
             lists, registry, registered, pending, delivered, asked, over>>
storeVars == <<reach, tripped, pinned, row, kept, known, told, sent, held, doubled, faults>>
migrationVars == <<applied, runs, pool, read, cursor, failures>>

RawStep(id, state, dependencies) ==
    [id |-> id, named |-> TRUE, state |-> state, dependencies |-> dependencies, command |-> Omitted]
Calls == {<<RawStep(1, Omitted, <<>>)>>,
          <<RawStep(1, "completed", <<>>), RawStep(2, "in_progress", <<1>>)>>,
          <<RawStep(2, "completed", <<>>)>>}

Format == INSTANCE PlanFormat
Written == {Format!RenderPlanMarkdown(Format!Built(raws, <<>>)) : raws \in {
    <<RawStep(1, "completed", <<>>)>>,
    <<RawStep(1, "pending", <<>>), RawStep(2, "pending", <<1>>)>>}}

Plan == INSTANCE TaskPlan
Model == INSTANCE ModelCall
Tools == INSTANCE Mcp
Store == INSTANCE Stores WITH Sessions <- StoredSessions, owner <- pinned
Schema == INSTANCE SchemaMigrations

\* What is frozen starts in one way only.
MCInit ==
    /\ service \in {"plan", "model", "tools", "store", "schema", "account"}
    /\ Plan!Init /\ Model!Init /\ Tools!Init /\ Store!Init /\ Schema!Init /\ Init
    /\ service # "plan" => archive = {}
    /\ service # "model" => adapter = "chat"
    /\ service # "tools" => trusted = {} /\ todo = {}
    /\ service # "store" => reach
    /\ service # "schema" => applied = {}

MCNext ==
    /\ UNCHANGED service
    /\ \/ /\ service = "plan" /\ Plan!Next
          /\ UNCHANGED <<callVars, mcpVars, storeVars, migrationVars, accountVars>>
       \/ /\ service = "model" /\ Model!Next
          /\ UNCHANGED <<planVars, mcpVars, storeVars, migrationVars, accountVars>>
       \/ /\ service = "tools" /\ Tools!Next
          /\ UNCHANGED <<planVars, callVars, storeVars, migrationVars, accountVars>>
       \/ /\ service = "store" /\ Store!Next
          /\ UNCHANGED <<planVars, callVars, mcpVars, migrationVars, accountVars>>
       \/ /\ service = "schema" /\ Schema!Next
          /\ UNCHANGED <<planVars, callVars, mcpVars, storeVars, accountVars>>
       \/ /\ service = "account" /\ Next
          /\ UNCHANGED <<planVars, callVars, mcpVars, storeVars, migrationVars>>

\* Fair to the service the behaviour is of.
MCSpec ==
    /\ MCInit
    /\ [][MCNext]_<<service, planVars, callVars, mcpVars, storeVars, migrationVars, accountVars>>
    /\ WF_callVars(service = "model" /\ Model!Runtime)
    /\ WF_mcpVars(service = "tools" /\ Tools!Runtime)
    /\ \A p \in Pools : WF_migrationVars(service = "schema" /\ Schema!Retries(p))

\* update_plan loses no step that is in the PLAN.md it could read.
NoStepDropped == Plan!NoStepDropped
\* No tool of a session that is known to be gone is offered, unless the server
\* had stopped listing it when it was connected again.
DeadToolsGone == Tools!DeadToolsGone
\* An aborted call of a model settles; no call of an MCP server waits for ever,
\* and no connection attempt does where a timer is set.
CallsEnd == Model!AbortSettles /\ Tools!NobodyWaits
\* A session's transcript lies in one store, and all of it.
OneTranscript == Store!OneTranscript
\* The schema is complete in the end, and every pool knows.
SchemaReady == service = "schema" => Schema!SchemaReady
================================================================================
