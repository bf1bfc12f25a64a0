--------------------------- MODULE ServerSessions ---------------------------
(***************************************************************************)
(* The HTTP server over one session: turn requests that may overlap, the   *)
(* map of live orchestrators, approvals that are answered, time out or are *)
(* cancelled, the abort route, switches of model, the charge for a turn,   *)
(* and shutdown.  A turn is here its approvals, its tools, its cost and    *)
(* its end; AgentTurn has the rest.                                        *)
(*                                                                         *)
(* The map holds slots, { orchestrator, bus, registry }, and a switch of   *)
(* model replaces the orchestrator inside the slot.  A slot is named by    *)
(* the request that opened it, an orchestrator by the request and whether  *)
(* it was opened or switched to.  Sessions share nothing but shutdown.     *)
(***************************************************************************)
EXTENDS Naturals

CONSTANTS
    Requests,   \* POST /turns
    First,      \* POST /sessions
    Ids,        \* of tool calls; two turns may use the same
    MaxAsks,    \* bound: approvals a turn asks for
    MaxCost,    \* bound: what one turn costs
    None

ASSUME ServerAssumption ==
    /\ First \notin Requests /\ None \notin Requests \cup {First}
    /\ MaxAsks \in Nat /\ MaxCost \in Nat

Slots == Requests \cup {First}
Orchestrators == Slots \X {"opened", "switched"}

VARIABLES
    closing,    \* a signal to shut down came
    active,     \* activeOrchestrators.get(session)
    held,       \* slot -> its orchestrator
    current,    \* orchestrator -> the request its abort signal belongs to
    pc, slot, orch,  \* of a request: where it is, what it took, who runs it
    aborted,    \* requests whose signal has fired
    pending,    \* call id -> the request whose approval is listed under it
    asked, asks,     \* of a request: the id it waits under, approvals so far
    timers,     \* requests whose approval timer is armed
    shells,     \* orchestrators with a background shell
    cost, costBefore, spent, charged,  \* orchestrator; request; request; all
    overlapped, left, waived, uncollected, total  \* history variables

\* overlapped: two requests were under way at once.  left:
\* orchestrators a switch replaced.  waived: the cost of turns that threw.
\* uncollected: what failing debits were for.  total: what all turns cost.
approvals == <<pending, asked, asks, timers>>
money == <<cost, costBefore, spent, charged, waived, uncollected, total>>
vars == <<closing, active, held, current, pc, slot, orch, aborted, approvals,
          shells, money, overlapped, left>>

PC == {"new", "lookup", "sync", "switching", "running", "asking", "executing",
       "done"}

InTurn(r) == pc[r] \in {"running", "asking", "executing"}
Under(r) == pc[r] \notin {"new", "done"}

Init ==
    /\ closing = FALSE /\ active \in {First, None}
    /\ held = [s \in Slots |-> IF s = active THEN <<First, "opened">> ELSE None]
    /\ current = [o \in Orchestrators |-> None]
    /\ pc = [r \in Requests |-> "new"]
    /\ slot = [r \in Requests |-> None] /\ orch = [r \in Requests |-> None]
    /\ aborted = {}
    /\ pending = [i \in Ids |-> None]
    /\ asked = [r \in Requests |-> None] /\ asks = [r \in Requests |-> 0]
    /\ timers = {} /\ shells = {}
    /\ cost = [o \in Orchestrators |-> 0]
    /\ costBefore = [r \in Requests |-> 0] /\ spent = [r \in Requests |-> 0]
    /\ charged = 0 /\ waived = 0 /\ uncollected = 0 /\ total = 0
    /\ overlapped = FALSE /\ left = {}

At(r, l) == pc[r] = l
Goto(r, l) == pc' = [pc EXCEPT ![r] = l]

\* The locals of a request are gone with it.
Done(r) ==
    /\ Goto(r, "done")
    /\ slot' = [slot EXCEPT ![r] = None] /\ orch' = [orch EXCEPT ![r] = None]
    /\ aborted' = aborted \ {r}
    /\ asked' = [asked EXCEPT ![r] = None] /\ asks' = [asks EXCEPT ![r] = 0]
    /\ costBefore' = [costBefore EXCEPT ![r] = 0]
    /\ spent' = [spent EXCEPT ![r] = 0]
    /\ UNCHANGED <<closing, pending, timers, shells, cost, total, overlapped>>

-----------------------------------------------------------------------------
(* A turn request up to runTurn. *)

\* The body and the checks of the caller are awaited before the map is read;
\* a request that is refused there does not arrive.
Arrive(r) ==
    /\ At(r, "new")
    /\ IF active # None
       THEN Goto(r, "sync") /\ slot' = [slot EXCEPT ![r] = active]
       ELSE Goto(r, "lookup") /\ UNCHANGED slot
    /\ overlapped' = (overlapped \/ \E q \in Requests : Under(q))
    /\ UNCHANGED <<closing, active, held, current, orch, aborted, approvals,
                   shells, money, left>>

\* The session is looked up and resumed: two awaits after the map was read.
Resumed(r) ==
    /\ At(r, "lookup") /\ Goto(r, "sync")
    /\ held' = [held EXCEPT ![r] = <<r, "opened">>]
    /\ active' = r /\ slot' = [slot EXCEPT ![r] = r]
    /\ UNCHANGED <<closing, current, orch, aborted, approvals, shells, money,
                   overlapped, left>>

\* It is not there, cannot be resumed, or the prompt is /demo.
NotResumed(r) ==
    /\ At(r, "lookup") /\ Done(r)
    /\ UNCHANGED <<active, held, left, current, charged, waived, uncollected>>

\* Mutant of CostAtStart: the whole session is charged again.
CostOfSession(o) == 0

CostAtStart(o) == cost[o]

\* runTurn, with a new generation of the abort signal; or nothing, in demo
\* mode and without credentials for the model.
Begin(r, o) ==
    \/ /\ Goto(r, "running")
       /\ orch' = [orch EXCEPT ![r] = o]
       /\ current' = [current EXCEPT ![o] = r]
       /\ costBefore' = [costBefore EXCEPT ![r] = CostAtStart(o)]
       /\ UNCHANGED <<closing, slot, aborted, approvals, shells, cost, spent,
                      charged, waived, uncollected, total, overlapped>>
    \/ Done(r) /\ UNCHANGED <<current, charged, waived, uncollected>>

Start(r) ==
    /\ At(r, "sync") /\ Begin(r, held[slot[r]])
    /\ UNCHANGED <<active, held, left>>

Switch(r) ==
    /\ At(r, "sync") /\ Goto(r, "switching")
    /\ UNCHANGED <<closing, active, held, current, slot, orch, aborted, approvals,
                   shells, money, overlapped, left>>

\* Mutant of Switched: the new orchestrator runs, the slot keeps the old one.
SwitchedAside(r) ==
    /\ At(r, "switching") /\ Begin(r, <<r, "switched">>)
    /\ UNCHANGED <<active, held, left>>

\* The orchestrator a switch leaves behind keeps its turn and its shells.
Switched(r) ==
    /\ At(r, "switching") /\ Begin(r, <<r, "switched">>)
    /\ held' = [held EXCEPT ![slot[r]] = <<r, "switched">>]
    /\ active' = slot[r]
    /\ left' = left \cup {held[slot[r]]}

SwitchFails(r) ==
    /\ At(r, "switching") /\ Begin(r, held[slot[r]])
    /\ UNCHANGED <<active, held, left>>

-----------------------------------------------------------------------------
(* A turn. *)

Spend(r) ==
    /\ At(r, "running") /\ spent[r] < MaxCost
    /\ spent' = [spent EXCEPT ![r] = @ + 1]
    /\ cost' = [cost EXCEPT ![orch[r]] = @ + 1] /\ total' = total + 1
    /\ UNCHANGED <<closing, active, held, current, pc, slot, orch, aborted,
                   approvals, shells, costBefore, charged, waived, uncollected,
                   overlapped, left>>

\* An aborted turn asks no more.
MayAsk(r) == At(r, "running") /\ r \notin aborted /\ asks[r] < MaxAsks

Listed(r, id) ==
    /\ MayAsk(r) /\ Goto(r, "asking")
    /\ pending' = [pending EXCEPT ![id] = r]
    /\ asked' = [asked EXCEPT ![r] = id] /\ asks' = [asks EXCEPT ![r] = @ + 1]
    /\ UNCHANGED <<closing, active, held, current, slot, orch, aborted, shells,
                   money, overlapped, left>>

\* Mutant of Ask: no timer.
AskUntimed(r, id) == Listed(r, id) /\ UNCHANGED timers

\* An id that is listed already is overwritten.
Ask(r, id) == Listed(r, id) /\ timers' = timers \cup {r}

\* The call goes through the rate limit of the gateway, an await, and may
\* leave a shell behind.
ToolRuns(r) ==
    /\ At(r, "executing") /\ Goto(r, "running")
    /\ shells' \in {shells, shells \cup {orch[r]}}
    /\ UNCHANGED <<closing, active, held, current, slot, orch, aborted, approvals,
                   money, overlapped, left>>

\* What is charged is read from the orchestrator the slot has by now.
Delta(r) ==
    LET now == cost[held[slot[r]]]
    IN IF now > costBefore[r] THEN now - costBefore[r] ELSE 0

\* A debit that fails is swallowed, and nothing tries it again.
TurnEnds(r) ==
    /\ At(r, "running") /\ Done(r)
    /\ \/ charged' = charged + Delta(r) /\ UNCHANGED uncollected
       \/ uncollected' = uncollected + Delta(r) /\ UNCHANGED charged
    /\ UNCHANGED <<active, held, left, current, waived>>

\* A turn that throws is not charged.
TurnThrows(r) ==
    /\ At(r, "running") /\ Done(r)
    /\ waived' = waived + spent[r]
    /\ UNCHANGED <<active, held, left, current, charged, uncollected>>

-----------------------------------------------------------------------------
(* Approvals. *)

Waiting(R) == {r \in R : pc[r] = "asking"}

\* The turns of R that wait go on with the answer, in the same step; a
\* promise that is settled stays as it is.
Resolve(R, answer) ==
    /\ pc' = [r \in Requests |-> IF r \notin Waiting(R) THEN pc[r]
                ELSE IF answer = "yes" THEN "executing" ELSE "running"]
    /\ timers' = timers \ R

\* POST /approve, when something is listed under the id.
Approve(id, answer) ==
    /\ pending[id] # None
    /\ pending' = [pending EXCEPT ![id] = None]
    /\ Resolve({pending[id]}, answer)
    /\ UNCHANGED <<closing, active, held, current, slot, orch, aborted, asked, asks,
                   shells, money, overlapped, left>>

Unlist(id) == pending' = [pending EXCEPT ![id] = None]

\* The timer takes the id off the list, whoever is listed under it.
Timeout(r) ==
    /\ r \in timers
    /\ Unlist(asked[r])
    /\ Resolve({r}, "no")
    /\ UNCHANGED <<closing, active, held, current, slot, orch, aborted, asked, asks,
                   shells, money, overlapped, left>>

-----------------------------------------------------------------------------
(* Abort, a client that goes away, shutdown. *)

\* The signal of the generation an orchestrator is in.
Fired(os) == aborted \cup {current[o] : o \in {p \in os : current[p] # None}}

Mapped == IF active = None THEN {} ELSE {held[active]}

Abort ==
    /\ aborted' = Fired(Mapped)
    /\ Resolve({pending[i] : i \in Ids} \ {None}, "no")
    /\ pending' = [i \in Ids |-> None]
    /\ shells' = shells \ Mapped
    /\ UNCHANGED <<closing, active, held, current, slot, orch, asked, asks,
                   money, overlapped, left>>

\* A pending approval stays listed.
ClientCloses(r) ==
    /\ InTurn(r)
    /\ aborted' = Fired({held[slot[r]]})
    /\ UNCHANGED <<closing, active, held, current, pc, slot, orch, approvals,
                   shells, money, overlapped, left>>

\* The process exits when the last connection has ended, or two seconds
\* later; requests under way go on until then.
Shutdown ==
    /\ ~closing /\ closing' = TRUE
    /\ aborted' = Fired(Mapped)
    /\ shells' = shells \ Mapped
    /\ active' = None
    /\ UNCHANGED <<held, current, pc, slot, orch, approvals, money, overlapped,
                   left>>

Step(r) ==
    \/ Resumed(r) \/ NotResumed(r) \/ Start(r) \/ Switch(r) \/ Switched(r)
    \/ SwitchFails(r) \/ Spend(r) \/ (\E id \in Ids : Ask(r, id)) \/ ToolRuns(r)
    \/ TurnEnds(r) \/ TurnThrows(r)

Next ==
    \/ \E r \in Requests :
         Arrive(r) \/ Step(r) \/ Timeout(r) \/ ClientCloses(r)
    \/ \E id \in Ids, answer \in {"yes", "no"} : Approve(id, answer)
    \/ Abort \/ Shutdown

Spec == Init /\ [][Next]_vars

\* The lookups, a switch of model and a tool that was approved settle.  A turn
\* that runs may wait for its model or for a page of the web without a timer.
Settles(r) == ~At(r, "running") /\ Step(r)

\* Timers go off.
FairSpec ==
    /\ Spec
    /\ \A r \in Requests : WF_vars(Settles(r)) /\ WF_vars(Timeout(r))

-----------------------------------------------------------------------------
(* Properties. *)

\* Every variable stays in its type, and no timer outlives the
\* approval it is for.
TypeOK ==
    /\ closing \in BOOLEAN
    /\ active \in Slots \cup {None}
    /\ held \in [Slots -> Orchestrators \cup {None}]
    /\ current \in [Orchestrators -> Requests \cup {None}]
    /\ pc \in [Requests -> PC]
    /\ slot \in [Requests -> Slots \cup {None}]
    /\ orch \in [Requests -> Orchestrators \cup {None}]
    /\ aborted \subseteq Requests
    /\ pending \in [Ids -> Requests \cup {None}]
    /\ asked \in [Requests -> Ids \cup {None}]
    /\ asks \in [Requests -> 0..MaxAsks]
    /\ timers \subseteq Waiting(Requests)
    /\ shells \subseteq Orchestrators /\ left \subseteq Orchestrators
    /\ cost \in [Orchestrators -> Nat]
    /\ costBefore \in [Requests -> Nat] /\ spent \in [Requests -> 0..MaxCost]
    /\ charged \in Nat /\ waived \in Nat /\ uncollected \in Nat /\ total \in Nat
    /\ overlapped \in BOOLEAN

\* What is listed can be answered: in whatever order answers, timeouts,
\* aborts and other turns come, an answer the server takes under an id is one
\* that a turn is waiting for under that id.
AnswerCounts ==
    \A id \in Ids : pending[id] # None =>
        pc[pending[id]] = "asking" /\ asked[pending[id]] = id

\* While one request is under way at a time, through resumes and switches of
\* model: an abort reaches the turn that runs, an approval it waits for can
\* be answered, and the shells are where an abort and a shutdown stop them,
\* but for those a switch of model left behind.
Reachable ==
    ~closing /\ ~overlapped =>
        /\ \A r \in Requests : InTurn(r) =>
             /\ active # None /\ held[active] = orch[r] /\ current[orch[r]] = r
             /\ pc[r] = "asking" => pending[asked[r]] = r
        /\ shells \ left \subseteq Mapped

\* While one request is under way at a time, what each turn cost is charged
\* once, also when the model was switched; turns that threw are not charged,
\* and what a failing debit was for is lost, no more and no less.
ChargedOnce ==
    ~overlapped /\ (\A r \in Requests : ~Under(r)) =>
        charged + waived + uncollected = total

\* "Debit the session's incremental cost from the owner's
\* balance" (apps/server/src/index.ts:809).  False: the failure of a debit is
\* swallowed.
EveryTurnMetered ==
    ~overlapped /\ (\A r \in Requests : ~Under(r)) => charged + waived = total

\* Every request comes to an end, though nobody answers an approval and
\* another turn takes its place in the list, unless its turn runs for ever.
RequestsEnd ==
    \A r \in Requests : Under(r) ~> (pc[r] = "done" \/ []At(r, "running"))
=============================================================================
