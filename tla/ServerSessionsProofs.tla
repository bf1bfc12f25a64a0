-------------------------- MODULE ServerSessionsProofs --------------------------
(***************************************************************************)
(* While one request is under way at a time an abort reaches the turn that *)
(* runs, its approval can be answered and the shells can be stopped, for   *)
(* all requests, ids, asks and costs.  What is known of a request depends  *)
(* on where it is: none is mapped while one is looked up, the slot of a    *)
(* request that goes on is the one that is mapped, and its orchestrator is *)
(* the one in the slot, from before a switch of model as well as after.    *)
(***************************************************************************)
EXTENDS ServerSessions, TLAPS

\* Where a request has its slot.
Placed == {"sync", "switching", "running", "asking", "executing"}

Shape ==
    /\ active \in Slots \cup {None}
    /\ held \in [Slots -> Orchestrators \cup {None}]
    /\ current \in [Orchestrators -> Requests \cup {None}]
    /\ pc \in [Requests -> PC]
    /\ slot \in [Requests -> Slots \cup {None}]
    /\ orch \in [Requests -> Orchestrators \cup {None}]
    /\ pending \in [Ids -> Requests \cup {None}]
    /\ asked \in [Requests -> Ids \cup {None}]

\* A slot that is mapped, or a request's, has an orchestrator.
SlotsFilled ==
    /\ active # None => held[active] \in Orchestrators
    /\ \A r \in Requests : pc[r] \in Placed =>
         slot[r] \in Slots /\ held[slot[r]] \in Orchestrators

TimersAsk == timers \subseteq Waiting(Requests)

\* What the requests did not disturb.
Alone == ~closing /\ ~overlapped

One == \A q, r \in Requests : Under(q) /\ Under(r) => q = r

Followed(r) ==
    /\ pc[r] = "lookup" => active = None
    /\ pc[r] \in Placed => active # None /\ slot[r] = active
    /\ InTurn(r) => orch[r] = held[active] /\ current[orch[r]] = r
    /\ pc[r] = "asking" => asked[r] \in Ids /\ pending[asked[r]] = r

ShellsInReach == shells \subseteq left \cup Mapped

InReach == One /\ (\A r \in Requests : Followed(r)) /\ ShellsInReach

IInv == Shape /\ SlotsFilled /\ TimersAsk /\ (Alone => InReach)

-----------------------------------------------------------------------------

LEMMA Distinct == First \in Slots /\ Requests \subseteq Slots /\ None \notin Slots
  BY ServerAssumption DEF Slots

LEMMA Pairs == \A s \in Slots : <<s, "opened">> \in Orchestrators /\ <<s, "switched">> \in Orchestrators
  BY DEF Orchestrators

LEMMA InitIInv == Init => IInv
  <1> SUFFICES ASSUME Init PROVE IInv  OBVIOUS
  <1>1. Shape
    BY Distinct, Pairs DEF Init, Shape, PC
  <1>2. SlotsFilled
    BY Distinct, Pairs DEF Init, SlotsFilled, Placed
  <1>3. TimersAsk /\ InReach
    BY DEF Init, TimersAsk, InReach, One, Followed, ShellsInReach, Under, InTurn, Placed
  <1> QED BY <1>1, <1>2, <1>3 DEF IInv

\* The one request that is under way.
LEMMA TheOne ==
  ASSUME InReach, NEW r \in Requests, Under(r)
  PROVE  \A q \in Requests : q # r => ~Under(q)
  BY DEF InReach, One

\* A request at rest follows nothing.
LEMMA AtRest == ASSUME NEW r \in Requests, ~Under(r) PROVE Followed(r)
  BY DEF Followed, Under, InTurn, Placed

LEMMA WillRest == ASSUME NEW r \in Requests, ~Under(r)' PROVE Followed(r)'
  BY DEF Followed, Under, InTurn, Placed

\* A step of the one request, or of what goes with it.
LEMMA OneGoesOn ==
  ASSUME InReach, NEW r \in Requests, Under(r),
         \A q \in Requests : q # r => pc'[q] = pc[q],
         Followed(r)', ShellsInReach'
  PROVE  InReach'
  <1>1. \A q \in Requests : q # r => ~Under(q)'
    BY TheOne DEF Under
  <1>2. One'
    BY <1>1 DEF One
  <1>3. \A q \in Requests : Followed(q)'
    BY <1>1, WillRest
  <1> QED BY <1>2, <1>3 DEF InReach

-----------------------------------------------------------------------------
(* A turn request up to runTurn. *)

LEMMA ArriveIInv == ASSUME IInv, NEW r \in Requests, Arrive(r) PROVE IInv'
  <1>0. /\ pc[r] = "new" /\ UNCHANGED <<closing, active, held, current, orch, pending, asked, timers, shells, left>>
        /\ \/ active # None /\ pc' = [pc EXCEPT ![r] = "sync"] /\ slot' = [slot EXCEPT ![r] = active]
           \/ active = None /\ pc' = [pc EXCEPT ![r] = "lookup"] /\ slot' = slot
        /\ overlapped' = (overlapped \/ \E q \in Requests : Under(q))
    BY DEF Arrive, At, Goto, approvals
  <1>1. Shape'
    BY <1>0 DEF IInv, Shape, PC
  <1>2. SlotsFilled'
    BY <1>0 DEF IInv, SlotsFilled, Shape, Placed
  <1>3. TimersAsk'
    BY <1>0 DEF IInv, TimersAsk, Waiting, Shape
  <1>4. ASSUME Alone' PROVE InReach'
    <2>1. InReach /\ \A q \in Requests : ~Under(q)
      BY <1>0, <1>4 DEF IInv, Alone
    <2>2. \A q \in Requests : q # r => ~Under(q)'
      BY <1>0, <2>1 DEF Under, IInv, Shape
    <2>3. Followed(r)'
      BY <1>0 DEF Followed, InTurn, Placed, IInv, Shape
    <2>4. ShellsInReach'
      BY <1>0, <2>1 DEF InReach, ShellsInReach, Mapped
    <2> QED BY <2>2, <2>3, <2>4, WillRest DEF InReach, One
  <1> QED BY <1>1, <1>2, <1>3, <1>4 DEF IInv

\* A request that ends takes its slot and its signal with it.
LEMMA DoneIInv ==
  ASSUME IInv, NEW r \in Requests, pc[r] \notin {"new", "done", "asking"}, Done(r),
         UNCHANGED <<active, held, left, current>>
  PROVE  IInv'
  <1>0. /\ pc' = [pc EXCEPT ![r] = "done"] /\ slot' = [slot EXCEPT ![r] = None]
        /\ orch' = [orch EXCEPT ![r] = None] /\ asked' = [asked EXCEPT ![r] = None]
        /\ UNCHANGED <<closing, pending, timers, shells, overlapped>>
    BY DEF Done, Goto
  <1>1. Shape'
    BY <1>0 DEF IInv, Shape, PC
  <1>2. SlotsFilled'
    BY <1>0 DEF IInv, SlotsFilled, Shape, Placed
  <1>3. TimersAsk'
    BY <1>0 DEF IInv, TimersAsk, Waiting, Shape
  <1>4. ASSUME Alone' PROVE InReach'
    <2>1. InReach /\ Under(r)
      BY <1>0, <1>4 DEF IInv, Alone, Under
    <2>2. Followed(r)'
      BY <1>0, WillRest DEF Under, IInv, Shape
    <2>3. ShellsInReach'
      BY <1>0, <2>1 DEF InReach, ShellsInReach, Mapped
    <2> QED BY <1>0, <2>1, <2>2, <2>3, OneGoesOn DEF IInv, Shape
  <1> QED BY <1>1, <1>2, <1>3, <1>4 DEF IInv

LEMMA ResumeIInv ==
  ASSUME IInv, NEW r \in Requests, Resumed(r) \/ Switch(r)
  PROVE  IInv'
  <1>1. CASE Resumed(r)
    <2>0. /\ pc[r] = "lookup" /\ pc' = [pc EXCEPT ![r] = "sync"]
          /\ held' = [held EXCEPT ![r] = <<r, "opened">>] /\ active' = r
          /\ slot' = [slot EXCEPT ![r] = r]
          /\ UNCHANGED <<closing, current, orch, pending, asked, timers, shells, overlapped, left>>
      BY <1>1 DEF Resumed, At, Goto, approvals
    <2>1. r \in Slots /\ r # None /\ <<r, "opened">> \in Orchestrators
      BY Distinct, Pairs
    <2>2. Shape'
      BY <2>0, <2>1 DEF IInv, Shape, PC
    <2>3. SlotsFilled'
      BY <2>0, <2>1 DEF IInv, SlotsFilled, Shape, Placed
    <2>4. TimersAsk'
      BY <2>0 DEF IInv, TimersAsk, Waiting, Shape
    <2>5. ASSUME Alone' PROVE InReach'
      <3>1. InReach /\ Under(r) /\ active = None
        BY <2>0, <2>5 DEF IInv, Alone, Under, InReach, Followed
      <3>2. Followed(r)'
        BY <2>0, <2>1 DEF Followed, InTurn, Placed, IInv, Shape
      <3>3. ShellsInReach'
        BY <2>0, <3>1 DEF InReach, ShellsInReach, Mapped
      <3> QED BY <2>0, <3>1, <3>2, <3>3, OneGoesOn DEF IInv, Shape
    <2> QED BY <2>2, <2>3, <2>4, <2>5 DEF IInv
  <1>2. CASE Switch(r)
    <2>0. /\ pc[r] = "sync" /\ pc' = [pc EXCEPT ![r] = "switching"]
          /\ UNCHANGED <<closing, active, held, current, slot, orch, pending, asked, timers,
                         shells, overlapped, left>>
      BY <1>2 DEF Switch, At, Goto, approvals
    <2>2. Shape'
      BY <2>0 DEF IInv, Shape, PC
    <2>3. SlotsFilled'
      BY <2>0 DEF IInv, SlotsFilled, Shape, Placed
    <2>4. TimersAsk'
      BY <2>0 DEF IInv, TimersAsk, Waiting, Shape
    <2>5. ASSUME Alone' PROVE InReach'
      <3>1. InReach /\ Under(r)
        BY <2>0, <2>5 DEF IInv, Alone, Under
      <3>2. Followed(r)'
        BY <2>0, <3>1 DEF InReach, Followed, InTurn, Placed, IInv, Shape
      <3>3. ShellsInReach'
        BY <2>0, <3>1 DEF InReach, ShellsInReach, Mapped
      <3> QED BY <2>0, <3>1, <3>2, <3>3, OneGoesOn DEF IInv, Shape
    <2> QED BY <2>2, <2>3, <2>4, <2>5 DEF IInv
  <1> QED BY <1>1, <1>2

\* runTurn on the orchestrator of the slot, old or new.
LEMMA RunsIInv ==
  ASSUME IInv, NEW r \in Requests, NEW o \in Orchestrators,
         pc[r] \in {"sync", "switching"}, Begin(r, o),
         \/ o = held[slot[r]] /\ UNCHANGED <<active, held, left>>
         \/ /\ held' = [held EXCEPT ![slot[r]] = o] /\ active' = slot[r]
            /\ left' = left \cup {held[slot[r]]}
  PROVE  IInv'
  <1>0. slot[r] \in Slots /\ held[slot[r]] \in Orchestrators /\ slot[r] # None
    BY Distinct DEF IInv, SlotsFilled, Placed
  <1>1. /\ active' \in Slots \cup {None} /\ held' \in [Slots -> Orchestrators \cup {None}]
        /\ \A s \in Slots : held[s] \in Orchestrators => held'[s] \in Orchestrators
        /\ held'[slot[r]] = o
        /\ active' # None => held'[active'] \in Orchestrators
    BY <1>0 DEF IInv, Shape, SlotsFilled
  <1>2. Alone => active' = slot[r] /\ ShellsInReach'
    <2> SUFFICES ASSUME Alone, shells' = shells PROVE active' = slot[r] /\ ShellsInReach'
      BY DEF Begin, Done
    <2>1. active = slot[r] /\ active # None /\ shells \subseteq left \cup {held[active]}
      BY DEF IInv, InReach, Followed, Placed, ShellsInReach, Mapped
    <2> QED BY <1>0, <1>1, <2>1 DEF ShellsInReach, Mapped
  <1>3. CASE Done(r) /\ UNCHANGED current
    <2>0. /\ pc' = [pc EXCEPT ![r] = "done"] /\ slot' = [slot EXCEPT ![r] = None]
          /\ orch' = [orch EXCEPT ![r] = None] /\ asked' = [asked EXCEPT ![r] = None]
          /\ UNCHANGED <<closing, current, pending, timers, shells, overlapped>>
      BY <1>3 DEF Done, Goto
    <2>1. Shape'
      BY <1>1, <2>0 DEF IInv, Shape, PC
    <2>2. SlotsFilled'
      BY <1>1, <2>0 DEF IInv, SlotsFilled, Shape, Placed
    <2>3. TimersAsk'
      BY <2>0 DEF IInv, TimersAsk, Waiting, Shape
    <2>4. ASSUME Alone' PROVE InReach'
      <3>1. Alone /\ InReach /\ Under(r)
        BY <2>0, <2>4 DEF IInv, Alone, Under
      <3>2. Followed(r)'
        BY <2>0, WillRest DEF Under, IInv, Shape
      <3> QED BY <1>2, <2>0, <3>1, <3>2, OneGoesOn DEF IInv, Shape
    <2> QED BY <2>1, <2>2, <2>3, <2>4 DEF IInv
  <1>4. CASE ~(Done(r) /\ UNCHANGED current)
    <2>0. /\ pc' = [pc EXCEPT ![r] = "running"] /\ orch' = [orch EXCEPT ![r] = o]
          /\ current' = [current EXCEPT ![o] = r]
          /\ UNCHANGED <<closing, slot, pending, asked, timers, shells, overlapped>>
      BY <1>4 DEF Begin, Goto, approvals
    <2>1. Shape'
      BY <1>1, <2>0 DEF IInv, Shape, PC
    <2>2. SlotsFilled'
      BY <1>0, <1>1, <2>0 DEF IInv, SlotsFilled, Shape, Placed
    <2>3. TimersAsk'
      BY <2>0 DEF IInv, TimersAsk, Waiting, Shape
    <2>4. ASSUME Alone' PROVE InReach'
      <3>1. Alone /\ InReach /\ Under(r)
        BY <2>0, <2>4 DEF IInv, Alone, Under
      <3>2. pc'[r] = "running" /\ orch'[r] = o /\ current'[o] = r /\ slot'[r] = slot[r]
        BY <2>0 DEF IInv, Shape
      <3>3. Followed(r)'
        BY <1>0, <1>1, <1>2, <3>1, <3>2 DEF Followed, InTurn, Placed
      <3> QED BY <1>2, <2>0, <3>1, <3>3, OneGoesOn DEF IInv, Shape
    <2> QED BY <2>1, <2>2, <2>3, <2>4 DEF IInv
  <1> QED BY <1>3, <1>4

LEMMA BeginIInv ==
  ASSUME IInv, NEW r \in Requests, Start(r) \/ Switched(r) \/ SwitchFails(r)
  PROVE  IInv'
  <1>1. pc[r] \in {"sync", "switching"} /\ held[slot[r]] \in Orchestrators
    BY DEF Start, Switched, SwitchFails, At, IInv, SlotsFilled, Placed
  <1>2. <<r, "switched">> \in Orchestrators
    BY Distinct, Pairs
  <1>3. CASE Start(r) \/ SwitchFails(r)
    BY <1>1, <1>3, RunsIInv DEF Start, SwitchFails
  <1>4. CASE Switched(r)
    BY <1>1, <1>2, <1>4, RunsIInv DEF Switched
  <1> QED BY <1>3, <1>4

-----------------------------------------------------------------------------
(* A turn, and what ends it. *)

LEMMA TurnIInv ==
  ASSUME IInv, NEW r \in Requests,
         \/ NotResumed(r) \/ Spend(r) \/ (\E id \in Ids : Ask(r, id)) \/ ToolRuns(r)
         \/ TurnEnds(r) \/ TurnThrows(r)
  PROVE  IInv'
  <1>1. CASE NotResumed(r) \/ TurnEnds(r) \/ TurnThrows(r)
    BY <1>1, DoneIInv DEF NotResumed, TurnEnds, TurnThrows, At
  <1>2. CASE Spend(r)
    <2>1. UNCHANGED <<closing, active, held, current, pc, slot, orch, pending, asked, timers,
                      shells, overlapped, left>>
      BY <1>2 DEF Spend, approvals
    <2> QED BY <2>1 DEF IInv, Shape, SlotsFilled, TimersAsk, Waiting, Alone, InReach, One,
                        Followed, ShellsInReach, Mapped, Under, InTurn
  <1>3. ASSUME NEW id \in Ids, Ask(r, id) PROVE IInv'
    <2>0. /\ pc[r] = "running" /\ pc' = [pc EXCEPT ![r] = "asking"]
          /\ pending' = [pending EXCEPT ![id] = r] /\ asked' = [asked EXCEPT ![r] = id]
          /\ timers' = timers \cup {r}
          /\ UNCHANGED <<closing, active, held, current, slot, orch, shells, overlapped, left>>
      BY <1>3 DEF Ask, Listed, MayAsk, At, Goto
    <2>1. Shape'
      BY <2>0 DEF IInv, Shape, PC
    <2>2. SlotsFilled'
      BY <2>0 DEF IInv, SlotsFilled, Shape, Placed
    <2>3. TimersAsk'
      BY <2>0 DEF IInv, TimersAsk, Waiting, Shape
    <2>4. ASSUME Alone' PROVE InReach'
      <3>1. InReach /\ Under(r)
        BY <2>0, <2>4 DEF IInv, Alone, Under
      <3>2. Followed(r)'
        BY <2>0, <3>1 DEF InReach, Followed, InTurn, Placed, IInv, Shape
      <3>3. ShellsInReach'
        BY <2>0, <3>1 DEF InReach, ShellsInReach, Mapped
      <3> QED BY <2>0, <3>1, <3>2, <3>3, OneGoesOn DEF IInv, Shape
    <2> QED BY <2>1, <2>2, <2>3, <2>4 DEF IInv
  <1>4. CASE ToolRuns(r)
    <2>0. /\ pc[r] = "executing" /\ pc' = [pc EXCEPT ![r] = "running"]
          /\ shells' \subseteq shells \cup {orch[r]}
          /\ UNCHANGED <<closing, active, held, current, slot, orch, pending, asked, timers,
                         overlapped, left>>
      BY <1>4 DEF ToolRuns, At, Goto, approvals
    <2>1. Shape'
      BY <2>0 DEF IInv, Shape, PC
    <2>2. SlotsFilled'
      BY <2>0 DEF IInv, SlotsFilled, Shape, Placed
    <2>3. TimersAsk'
      BY <2>0 DEF IInv, TimersAsk, Waiting, Shape
    <2>4. ASSUME Alone' PROVE InReach'
      <3>1. InReach /\ Under(r)
        BY <2>0, <2>4 DEF IInv, Alone, Under
      <3>2. Followed(r)'
        BY <2>0, <3>1 DEF InReach, Followed, InTurn, Placed, IInv, Shape
      <3>3. orch[r] \in Mapped
        BY <2>0, <3>1 DEF InReach, Followed, InTurn, Placed, Mapped
      <3>4. ShellsInReach'
        BY <2>0, <3>1, <3>3 DEF InReach, ShellsInReach, Mapped
      <3> QED BY <2>0, <3>1, <3>2, <3>4, OneGoesOn DEF IInv, Shape
    <2> QED BY <2>1, <2>2, <2>3, <2>4 DEF IInv
  <1> QED BY <1>1, <1>2, <1>3, <1>4

-----------------------------------------------------------------------------
(* Answers. *)

\* Those who waited under an id that is no longer listed go on.
LEMMA ResolveIInv ==
  ASSUME IInv, NEW R, NEW answer, Resolve(R, answer),
         pending' \in [Ids -> Requests \cup {None}],
         \A r \in Waiting(Requests) : r \in R \/ pending'[asked[r]] = pending[asked[r]],
         shells' \subseteq shells,
         UNCHANGED <<closing, active, held, current, slot, orch, asked, overlapped, left>>
  PROVE  IInv'
  <1>0. /\ pc' = [r \in Requests |-> IF r \notin Waiting(R) THEN pc[r]
                                     ELSE IF answer = "yes" THEN "executing" ELSE "running"]
        /\ timers' = timers \ R
    BY DEF Resolve
  <1>1. \A r \in Requests :
          \/ pc'[r] = pc[r] /\ ~(pc[r] = "asking" /\ r \in R)
          \/ pc[r] = "asking" /\ r \in R /\ pc'[r] \in {"executing", "running"}
    BY <1>0 DEF Waiting
  <1>2. Shape'
    <2>1. pc' \in [Requests -> PC]
      BY <1>0 DEF IInv, Shape, PC
    <2> QED BY <2>1 DEF IInv, Shape
  <1>3. SlotsFilled'
    BY <1>1 DEF IInv, SlotsFilled, Placed
  <1>4. TimersAsk'
    BY <1>0, <1>1 DEF IInv, TimersAsk, Waiting
  <1>5. ASSUME Alone' PROVE InReach'
    <2>1. InReach
      BY <1>5 DEF IInv, Alone
    <2>2. \A r \in Requests : Under(r)' <=> Under(r)
      BY <1>1 DEF Under
    <2>3. ASSUME NEW r \in Requests PROVE Followed(r)'
      <3>1. Followed(r)
        BY <2>1 DEF InReach
      <3>2. pc'[r] = "asking" => pc[r] = "asking" /\ pending'[asked[r]] = pending[asked[r]]
        BY <1>1 DEF Waiting
      <3> QED BY <1>1, <3>1, <3>2 DEF Followed, InTurn, Placed
    <2>4. ShellsInReach'
      BY <2>1 DEF InReach, ShellsInReach, Mapped
    <2> QED BY <2>1, <2>2, <2>3, <2>4 DEF InReach, One
  <1> QED BY <1>2, <1>3, <1>4, <1>5 DEF IInv

\* Several requests: nothing but the slots and the timers is known.
LEMMA CrowdIInv ==
  ASSUME IInv, ~Alone, NEW R, NEW answer, Resolve(R, answer),
         pending' \in [Ids -> Requests \cup {None}],
         UNCHANGED <<closing, active, held, current, slot, orch, asked, overlapped, left>>
  PROVE  IInv'
  <1>1. /\ pc' = [r \in Requests |-> IF r \notin Waiting(R) THEN pc[r]
                                     ELSE IF answer = "yes" THEN "executing" ELSE "running"]
        /\ timers' = timers \ R
    BY DEF Resolve
  <1>2. pc' \in [Requests -> PC]
    BY <1>1 DEF IInv, Shape, PC
  <1>3. \A r \in Requests :
          \/ pc'[r] = pc[r] /\ ~(pc[r] = "asking" /\ r \in R)
          \/ pc[r] = "asking" /\ r \in R /\ pc'[r] \in {"executing", "running"}
    BY <1>1 DEF Waiting
  <1>4. Shape' /\ ~Alone'
    BY <1>2 DEF IInv, Shape, Alone
  <1>5. SlotsFilled'
    BY <1>3 DEF IInv, SlotsFilled, Placed
  <1>6. TimersAsk'
    BY <1>1, <1>3 DEF IInv, TimersAsk, Waiting
  <1> QED BY <1>4, <1>5, <1>6 DEF IInv

LEMMA AnswerIInv ==
  ASSUME IInv,
         \/ \E id \in Ids, answer \in {"yes", "no"} : Approve(id, answer)
         \/ \E r \in Requests : Timeout(r)
         \/ Abort
  PROVE  IInv'
  <1>0. pending \in [Ids -> Requests \cup {None}] /\ None \notin Requests
    BY ServerAssumption DEF IInv, Shape
  <1>1. ASSUME NEW id \in Ids, NEW answer, Approve(id, answer) PROVE IInv'
    <2>1. /\ pending' = [pending EXCEPT ![id] = None] /\ Resolve({pending[id]}, answer)
          /\ UNCHANGED <<closing, active, held, current, slot, orch, asked, shells, overlapped, left>>
      BY <1>1 DEF Approve
    <2>2. CASE Alone
      <3>1. \A r \in Waiting(Requests) : r \in {pending[id]} \/ pending'[asked[r]] = pending[asked[r]]
        BY <1>0, <2>1, <2>2 DEF IInv, InReach, Followed, Waiting
      <3> QED BY <1>0, <2>1, <3>1, ResolveIInv
    <2>3. CASE ~Alone
      BY <1>0, <2>1, <2>3, CrowdIInv
    <2> QED BY <2>2, <2>3
  <1>2. ASSUME NEW r \in Requests, Timeout(r) PROVE IInv'
    <2>1. /\ r \in timers /\ pending' = [pending EXCEPT ![asked[r]] = None] /\ Resolve({r}, "no")
          /\ UNCHANGED <<closing, active, held, current, slot, orch, asked, shells, overlapped, left>>
      BY <1>2 DEF Timeout, Unlist
    <2>2. CASE Alone
      <3>1. pc[r] = "asking"
        BY <2>1 DEF IInv, TimersAsk, Waiting
      <3>2. \A q \in Waiting(Requests) : q = r
        BY <2>2, <3>1 DEF IInv, InReach, One, Under, Waiting
      <3> QED BY <1>0, <2>1, <3>2, ResolveIInv
    <2>3. CASE ~Alone
      BY <1>0, <2>1, <2>3, CrowdIInv
    <2> QED BY <2>2, <2>3
  <1>3. CASE Abort
    <2> DEFINE R == {pending[i] : i \in Ids} \ {None}
    <2>1. /\ pending' = [i \in Ids |-> None] /\ Resolve(R, "no") /\ shells' = shells \ Mapped
          /\ UNCHANGED <<closing, active, held, current, slot, orch, asked, overlapped, left>>
      BY <1>3 DEF Abort
    <2>2. CASE Alone
      <3>1. \A r \in Waiting(Requests) : r \in R
        BY <1>0, <2>2 DEF IInv, InReach, Followed, Waiting
      <3> HIDE DEF R
      <3> QED BY <2>1, <3>1, ResolveIInv
    <2>3. CASE ~Alone
      <3> HIDE DEF R
      <3> QED BY <2>1, <2>3, CrowdIInv
    <2> QED BY <2>2, <2>3
  <1> QED BY <1>1, <1>2, <1>3

-----------------------------------------------------------------------------
(* A signal fires. *)

LEMMA SignalIInv ==
  ASSUME IInv, Shutdown \/ (\E r \in Requests : ClientCloses(r)) \/ UNCHANGED vars
  PROVE  IInv'
  <1>1. CASE Shutdown
    <2>1. /\ closing' /\ active' = None
          /\ UNCHANGED <<held, current, pc, slot, orch, pending, asked, timers>>
      BY <1>1 DEF Shutdown, approvals
    <2> QED BY <2>1 DEF IInv, Shape, SlotsFilled, TimersAsk, Waiting, Alone
  <1>2. CASE (\E r \in Requests : ClientCloses(r)) \/ UNCHANGED vars
    <2>1. UNCHANGED <<closing, active, held, current, pc, slot, orch, pending, asked, timers,
                      shells, overlapped, left>>
      BY <1>2 DEF ClientCloses, vars, approvals
    <2> QED BY <2>1 DEF IInv, Shape, SlotsFilled, TimersAsk, Waiting, Alone, InReach, One,
                        Followed, ShellsInReach, Mapped, Under, InTurn
  <1> QED BY <1>1, <1>2

LEMMA StepIInv == IInv /\ [Next]_vars => IInv'
  <1> SUFFICES ASSUME IInv, [Next]_vars PROVE IInv'  OBVIOUS
  <1>1. ASSUME NEW r \in Requests, Step(r) PROVE IInv'
    BY <1>1, ResumeIInv, BeginIInv, TurnIInv DEF Step
  <1> QED BY <1>1, ArriveIInv, AnswerIInv, SignalIInv DEF Next

\* Where a request is says what is mapped, in its slot and under its id.
THEOREM Inductive == Spec => []IInv
  BY InitIInv, StepIInv, PTL DEF Spec

\* With one request under way at a time an abort finds the turn, its approval
\* and the shells, however many requests there were and models were switched.
THEOREM ReachableHolds == Spec => []Reachable
  <1>1. IInv => Reachable
    BY DEF IInv, Alone, InReach, Followed, ShellsInReach, Reachable, InTurn, Placed
  <1> QED BY <1>1, Inductive, PTL

-----------------------------------------------------------------------------
(* The list of approvals, with any number of requests under way. *)

Listing ==
    /\ pc \in [Requests -> PC]
    /\ pending \in [Ids -> Requests \cup {None}]
    /\ asked \in [Requests -> Ids \cup {None}]
    /\ AnswerCounts

LEMMA InitListing == Init => Listing
  BY DEF Init, Listing, AnswerCounts, PC

\* A request that waits for no answer is not listed.
LEMMA NotListed ==
  ASSUME Listing, NEW r \in Requests, pc[r] # "asking", UNCHANGED pending,
         pc' \in [Requests -> PC], asked' \in [Requests -> Ids \cup {None}],
         \A q \in Requests : q # r => pc'[q] = pc[q] /\ asked'[q] = asked[q]
  PROVE  Listing'
  BY DEF Listing, AnswerCounts

LEMMA RequestListing ==
  ASSUME Listing, NEW r \in Requests, Arrive(r) \/ Step(r)
  PROVE  Listing'
  <1> USE DEF Listing
  <1>1. CASE Done(r) /\ pc[r] # "asking"
    <2>1. /\ pc' = [pc EXCEPT ![r] = "done"] /\ asked' = [asked EXCEPT ![r] = None]
          /\ UNCHANGED pending
      BY <1>1 DEF Done, Goto
    <2> QED BY <1>1, <2>1, NotListed DEF PC
  <1>2. ASSUME NEW l \in PC, Goto(r, l), pc[r] # "asking", UNCHANGED <<pending, asked>> PROVE Listing'
    <2>1. pc' = [pc EXCEPT ![r] = l]
      BY <1>2 DEF Goto
    <2> QED BY <1>2, <2>1, NotListed
  <1>3. ASSUME NEW o, Begin(r, o), pc[r] # "asking" PROVE Listing'
    <2>1. CASE Done(r)
      BY <1>1, <1>3, <2>1
    <2>2. CASE ~Done(r)
      BY <1>2, <1>3, <2>2 DEF Begin, approvals, PC
    <2> QED BY <2>1, <2>2
  <1>4. CASE Arrive(r)
    BY <1>2, <1>4 DEF Arrive, At, approvals, PC
  <1>5. CASE Resumed(r) \/ Switch(r) \/ ToolRuns(r)
    BY <1>2, <1>5 DEF Resumed, Switch, ToolRuns, At, approvals, PC
  <1>6. CASE NotResumed(r) \/ TurnEnds(r) \/ TurnThrows(r)
    BY <1>1, <1>6 DEF NotResumed, TurnEnds, TurnThrows, At
  <1>7. CASE Start(r) \/ Switched(r) \/ SwitchFails(r)
    BY <1>3, <1>7 DEF Start, Switched, SwitchFails, At
  <1>8. CASE Spend(r)
    BY <1>8 DEF Spend, approvals, AnswerCounts
  <1>9. ASSUME NEW id \in Ids, Ask(r, id) PROVE Listing'
    <2>1. /\ pc[r] = "running" /\ pc' = [pc EXCEPT ![r] = "asking"]
          /\ pending' = [pending EXCEPT ![id] = r] /\ asked' = [asked EXCEPT ![r] = id]
      BY <1>9 DEF Ask, Listed, MayAsk, At, Goto
    <2> QED BY <2>1 DEF AnswerCounts, PC
  <1> QED BY <1>4, <1>5, <1>6, <1>7, <1>8, <1>9 DEF Step

LEMMA AnswerListing ==
  ASSUME Listing,
         \/ \E id \in Ids, answer \in {"yes", "no"} : Approve(id, answer)
         \/ \E r \in Requests : Timeout(r)
         \/ Abort
  PROVE  Listing'
  <1> USE DEF Listing
  <1>0. None \notin Requests
    BY ServerAssumption
  <1>1. ASSUME NEW R, NEW answer, Resolve(R, answer)
        PROVE  /\ pc' \in [Requests -> PC]
               /\ \A q \in Requests : pc[q] = "asking" => q \in R \/ pc'[q] = "asking"
    BY <1>1 DEF Resolve, Waiting, PC
  <1>2. ASSUME NEW id \in Ids, NEW answer, Approve(id, answer) PROVE Listing'
    <2>1. /\ pending' = [pending EXCEPT ![id] = None] /\ Resolve({pending[id]}, answer)
          /\ UNCHANGED asked
      BY <1>2 DEF Approve
    <2>2. pc' \in [Requests -> PC] /\ \A q \in Requests : pc[q] = "asking" => q = pending[id] \/ pc'[q] = "asking"
      BY <1>1, <2>1
    <2> QED BY <1>0, <2>1, <2>2 DEF AnswerCounts
  <1>3. ASSUME NEW r \in Requests, Timeout(r) PROVE Listing'
    <2>1. /\ pending' = [pending EXCEPT ![asked[r]] = None] /\ Resolve({r}, "no")
          /\ UNCHANGED asked
      BY <1>3 DEF Timeout, Unlist
    <2>2. pc' \in [Requests -> PC] /\ \A q \in Requests : pc[q] = "asking" => q = r \/ pc'[q] = "asking"
      BY <1>1, <2>1
    <2>3. pending' \in [Ids -> Requests \cup {None}]
      BY <2>1
    <2>4. ASSUME NEW id \in Ids, pending'[id] # None
          PROVE  pending'[id] = pending[id] /\ pending[id] # r
      <3>1. pending[id] = pending'[id] /\ asked[r] # id
        BY <2>1, <2>4
      <3> QED BY <2>4, <3>1 DEF AnswerCounts
    <2> QED BY <2>1, <2>2, <2>3, <2>4 DEF AnswerCounts
  <1>4. CASE Abort
    <2>1. pending' = [i \in Ids |-> None] /\ UNCHANGED asked
      BY <1>4 DEF Abort
    <2>2. pc' \in [Requests -> PC]
      BY <1>1, <1>4 DEF Abort
    <2> QED BY <2>1, <2>2 DEF AnswerCounts
  <1> QED BY <1>2, <1>3, <1>4

LEMMA StepListing == Listing /\ [Next]_vars => Listing'
  <1> SUFFICES ASSUME Listing, [Next]_vars PROVE Listing'  OBVIOUS
  <1>1. CASE Shutdown \/ (\E r \in Requests : ClientCloses(r)) \/ UNCHANGED vars
    BY <1>1 DEF Shutdown, ClientCloses, vars, approvals, Listing, AnswerCounts
  <1> QED BY <1>1, RequestListing, AnswerListing DEF Next

\* An answer that the server takes under an id is one that a turn waits for
\* under that id, however many turns overlap and whatever ids they use.
THEOREM AnswerCountsHolds == Spec => []AnswerCounts
  <1>1. Listing => AnswerCounts
    BY DEF Listing
  <1> QED BY <1>1, InitListing, StepListing, PTL DEF Spec
-----------------------------------------------------------------------------
(* What a turn is charged, closing or not. *)

\* A turn under way has spent what the books lack, and what its orchestrator,
\* which is in the slot it is charged by, cost more since it began.
Billed(r) ==
    InTurn(r) =>
        /\ held[slot[r]] = orch[r] /\ costBefore[r] + spent[r] = cost[orch[r]]
        /\ charged + waived + uncollected + spent[r] = total

Settled == (\A r \in Requests : ~InTurn(r)) => charged + waived + uncollected = total

Books == One /\ (\A r \in Requests : Billed(r)) /\ Settled

Sums ==
    /\ cost \in [Orchestrators -> Nat]
    /\ costBefore \in [Requests -> Nat] /\ spent \in [Requests -> Nat]
    /\ charged \in Nat /\ waived \in Nat /\ uncollected \in Nat /\ total \in Nat
    /\ \A r \in Requests : ~InTurn(r) => spent[r] = 0

Ledger == Sums /\ (~overlapped => Books)

LEMMA InitLedger == Init => Ledger
  BY DEF Init, Ledger, Sums, Books, One, Billed, Settled, InTurn, Under

\* The books after a step of the one request, in the turn or out of it.
LEMMA Balance ==
  ASSUME Books, NEW r \in Requests, Under(r),
         \A q \in Requests : q # r => pc'[q] = pc[q],
         IF InTurn(r)' THEN Billed(r)' ELSE charged' + waived' + uncollected' = total'
  PROVE  Books'
  <1>1. \A q \in Requests : q # r => ~Under(q) /\ ~Under(q)'
    BY DEF Books, One, Under
  <1>2. \A q \in Requests : ~Under(q)' => ~InTurn(q)'
    BY DEF Under, InTurn
  <1> QED BY <1>1, <1>2 DEF Books, One, Billed, Settled

\* Where one request is, when it is not in a turn, no other is in one either.
LEMMA OutOfTurn ==
  ASSUME Books, NEW r \in Requests, Under(r), ~InTurn(r)
  PROVE  charged + waived + uncollected = total
  BY DEF Books, One, Settled, Under, InTurn

\* A request that ends has its sum written down, or had none.
LEMMA DoneLedger ==
  ASSUME Shape, Ledger, NEW r \in Requests, Under(r), Done(r),
         charged' \in Nat, waived' \in Nat, uncollected' \in Nat,
         ~overlapped => charged' + waived' + uncollected' = charged + waived + uncollected + spent[r]
  PROVE  Ledger'
  <1>0. /\ pc' = [pc EXCEPT ![r] = "done"] /\ spent' = [spent EXCEPT ![r] = 0]
        /\ costBefore' = [costBefore EXCEPT ![r] = 0]
        /\ UNCHANGED <<cost, total, overlapped>>
    BY DEF Done, Goto
  <1>1. Sums'
    BY <1>0 DEF Ledger, Sums, Shape, InTurn
  <1>2. ASSUME ~overlapped PROVE Books'
    <2>1. ~InTurn(r)'
      BY <1>0 DEF InTurn, Shape
    <2>2. charged + waived + uncollected + spent[r] = total
      <3>1. CASE InTurn(r)
        BY <1>2, <3>1 DEF Ledger, Books, Billed
      <3>2. CASE ~InTurn(r)
        <4>1. charged + waived + uncollected = total
          BY <1>2, <3>2, OutOfTurn DEF Ledger
        <4> QED BY <3>2, <4>1 DEF Ledger, Sums
      <3> QED BY <3>1, <3>2
    <2> QED BY <1>0, <1>2, <2>1, <2>2, Balance DEF Ledger, Shape
  <1> QED BY <1>0, <1>1, <1>2 DEF Ledger

\* A turn begins with what its orchestrator has cost so far.
LEMMA BeginLedger ==
  ASSUME IInv, Ledger, NEW r \in Requests, NEW o \in Orchestrators,
         pc[r] \in {"sync", "switching"}, Begin(r, o), held'[slot[r]] = o
  PROVE  Ledger'
  <1>0. Under(r) /\ ~InTurn(r) /\ spent[r] = 0
    BY DEF Under, InTurn, Ledger, Sums
  <1>1. CASE Done(r) /\ UNCHANGED <<current, charged, waived, uncollected>>
    BY <1>0, <1>1, DoneLedger DEF IInv, Ledger, Sums
  <1>2. CASE ~(Done(r) /\ UNCHANGED <<current, charged, waived, uncollected>>)
    <2>0. /\ pc' = [pc EXCEPT ![r] = "running"] /\ orch' = [orch EXCEPT ![r] = o]
          /\ costBefore' = [costBefore EXCEPT ![r] = cost[o]]
          /\ UNCHANGED <<slot, cost, spent, charged, waived, uncollected, total, overlapped>>
      BY <1>2 DEF Begin, Goto, CostAtStart
    <2>1. Sums'
      BY <2>0 DEF Ledger, Sums, IInv, Shape, InTurn
    <2>2. ASSUME ~overlapped PROVE Books'
      <3>1. charged + waived + uncollected = total
        BY <1>0, <2>2, OutOfTurn DEF Ledger
      <3>2. Billed(r)' /\ InTurn(r)'
        BY <1>0, <2>0, <3>1 DEF Billed, InTurn, Ledger, Sums, IInv, Shape
      <3> QED BY <1>0, <2>0, <2>2, <3>2, Balance DEF Ledger, IInv, Shape
    <2> QED BY <2>0, <2>1, <2>2 DEF Ledger
  <1> QED BY <1>1, <1>2

\* The slot is the turn's own: what it is charged is what it spent.
LEMMA EndLedger ==
  ASSUME IInv, Ledger, NEW r \in Requests, TurnEnds(r) \/ TurnThrows(r)
  PROVE  Ledger'
  <1>0. pc[r] = "running" /\ Done(r) /\ Under(r) /\ InTurn(r)
    BY DEF TurnEnds, TurnThrows, At, Under, InTurn
  <1>1. CASE TurnEnds(r)
    <2>1. /\ \/ charged' = charged + Delta(r) /\ uncollected' = uncollected
             \/ uncollected' = uncollected + Delta(r) /\ charged' = charged
          /\ waived' = waived
      BY <1>1 DEF TurnEnds
    <2>2. held[slot[r]] \in Orchestrators
      BY <1>0 DEF IInv, SlotsFilled, Placed
    <2>3. Delta(r) \in Nat
      BY <2>2 DEF Delta, Ledger, Sums
    <2>4. ASSUME ~overlapped PROVE Delta(r) = spent[r]
      <3>1. costBefore[r] + spent[r] = cost[held[slot[r]]]
        BY <1>0, <2>4 DEF Ledger, Books, Billed
      <3> QED BY <2>2, <3>1 DEF Delta, Ledger, Sums
    <2> QED BY <1>0, <2>1, <2>3, <2>4, DoneLedger DEF IInv, Ledger, Sums
  <1>2. CASE TurnThrows(r)
    <2>1. charged' = charged /\ uncollected' = uncollected /\ waived' = waived + spent[r]
      BY <1>2 DEF TurnThrows
    <2> QED BY <1>0, <2>1, DoneLedger DEF IInv, Ledger, Sums
  <1> QED BY <1>1, <1>2

\* What leaves the sums alone, and each turn in its turn.
LEMMA QuietLedger ==
  ASSUME Ledger, UNCHANGED <<slot, held, orch, money, overlapped>>,
         \A q \in Requests : (Under(q)' <=> Under(q)) /\ (InTurn(q)' <=> InTurn(q))
  PROVE  Ledger'
  BY DEF Ledger, Sums, Books, One, Billed, Settled, money

LEMMA StepLedger ==
  ASSUME IInv, Ledger, NEW r \in Requests, Arrive(r) \/ Step(r)
  PROVE  Ledger'
  <1> USE DEF IInv, Shape
  <1>1. CASE Arrive(r)
    <2>0. /\ pc[r] = "new" /\ pc' \in {[pc EXCEPT ![r] = "sync"], [pc EXCEPT ![r] = "lookup"]}
          /\ overlapped' = (overlapped \/ \E q \in Requests : Under(q))
          /\ UNCHANGED <<held, orch, money>>
          /\ slot' \in {slot, [slot EXCEPT ![r] = active]}
      BY <1>1 DEF Arrive, At, Goto
    <2>1. \A q \in Requests : InTurn(q)' <=> InTurn(q)
      BY <2>0 DEF InTurn
    <2>2. Sums'
      BY <2>0, <2>1 DEF Ledger, Sums, money
    <2>3. ASSUME ~overlapped' PROVE Books'
      <3>1. Books /\ \A q \in Requests : ~Under(q)
        BY <2>0, <2>3 DEF Ledger
      <3>2. \A q \in Requests : (Under(q)' => q = r) /\ ~InTurn(q) /\ ~InTurn(q)'
        BY <2>0, <2>1, <3>1 DEF Under, InTurn
      <3> QED BY <2>0, <3>1, <3>2 DEF Books, One, Billed, Settled, money
    <2> QED BY <2>2, <2>3 DEF Ledger
  <1>2. CASE Resumed(r)
    <2>0. /\ pc[r] = "lookup" /\ pc' = [pc EXCEPT ![r] = "sync"]
          /\ UNCHANGED <<orch, money, overlapped>>
      BY <1>2 DEF Resumed, At, Goto
    <2>1. \A q \in Requests : InTurn(q)' <=> InTurn(q)
      BY <2>0 DEF InTurn
    <2>2. Sums'
      BY <2>0, <2>1 DEF Ledger, Sums, money
    <2>3. ASSUME ~overlapped PROVE Books'
      <3>1. Under(r) /\ ~InTurn(r)
        BY <2>0 DEF Under, InTurn
      <3>2. charged' + waived' + uncollected' = total'
        BY <2>0, <2>3, <3>1, OutOfTurn DEF Ledger, money
      <3> QED BY <2>0, <2>1, <2>3, <3>1, <3>2, Balance DEF Ledger
    <2> QED BY <2>0, <2>2, <2>3 DEF Ledger
  <1>3. CASE NotResumed(r)
    <2>1. Under(r) /\ ~InTurn(r) /\ Done(r) /\ UNCHANGED <<charged, waived, uncollected>>
      BY <1>3 DEF NotResumed, At, Under, InTurn
    <2> QED BY <2>1, DoneLedger DEF Ledger, Sums
  <1>4. CASE Start(r) \/ SwitchFails(r)
    <2>1. held[slot[r]] \in Orchestrators /\ pc[r] \in {"sync", "switching"}
      BY <1>4 DEF Start, SwitchFails, At, SlotsFilled, Placed
    <2> QED BY <1>4, <2>1, BeginLedger DEF Start, SwitchFails
  <1>5. CASE Switched(r)
    <2>1. /\ slot[r] \in Slots /\ pc[r] = "switching" /\ Begin(r, <<r, "switched">>)
          /\ held' = [held EXCEPT ![slot[r]] = <<r, "switched">>]
      BY <1>5 DEF Switched, At, SlotsFilled, Placed
    <2> QED BY <2>1, BeginLedger, Distinct, Pairs
  <1>6. CASE Switch(r)
    <2>1. /\ pc[r] = "sync" /\ pc' = [pc EXCEPT ![r] = "switching"]
          /\ UNCHANGED <<slot, held, orch, money, overlapped>>
      BY <1>6 DEF Switch, At, Goto
    <2> QED BY <2>1, QuietLedger DEF Under, InTurn
  <1>7. CASE ToolRuns(r)
    <2>1. /\ pc[r] = "executing" /\ pc' = [pc EXCEPT ![r] = "running"]
          /\ UNCHANGED <<slot, held, orch, money, overlapped>>
      BY <1>7 DEF ToolRuns, At, Goto
    <2> QED BY <2>1, QuietLedger DEF Under, InTurn
  <1>8. ASSUME NEW id \in Ids, Ask(r, id) PROVE Ledger'
    <2>1. /\ pc[r] = "running" /\ pc' = [pc EXCEPT ![r] = "asking"]
          /\ UNCHANGED <<slot, held, orch, money, overlapped>>
      BY <1>8 DEF Ask, Listed, MayAsk, At, Goto
    <2> QED BY <2>1, QuietLedger DEF Under, InTurn
  <1>9. CASE Spend(r)
    <2>0. /\ pc[r] = "running" /\ spent' = [spent EXCEPT ![r] = @ + 1] /\ total' = total + 1
          /\ cost' = [cost EXCEPT ![orch[r]] = @ + 1]
          /\ UNCHANGED <<pc, slot, held, orch, costBefore, charged, waived, uncollected, overlapped>>
      BY <1>9 DEF Spend, At
    <2>1. Under(r) /\ InTurn(r) /\ InTurn(r)'
      BY <2>0 DEF Under, InTurn
    <2>2. Sums'
      <3>1. total' \in Nat
        BY <2>0 DEF Ledger, Sums
      <3>2. spent' \in [Requests -> Nat]
        BY <2>0 DEF Ledger, Sums
      <3>3. cost' \in [Orchestrators -> Nat]
        <4>1. \A o \in Orchestrators : cost[o] \in Nat /\ cost[o] + 1 \in Nat
          BY DEF Ledger, Sums
        <4> QED BY <2>0, <4>1 DEF Ledger, Sums
      <3> QED BY <2>0, <2>1, <3>1, <3>2, <3>3 DEF Ledger, Sums, InTurn
    <2>3. ASSUME ~overlapped PROVE Books'
      <3>1. Billed(r) /\ Books
        BY <2>3 DEF Ledger, Books
      <3>2. held[slot[r]] \in Orchestrators /\ orch[r] = held[slot[r]]
        BY <2>0, <2>1, <3>1 DEF SlotsFilled, Placed, Billed
      <3>3. cost'[orch[r]] = cost[orch[r]] + 1 /\ spent'[r] = spent[r] + 1
        BY <2>0, <3>2 DEF Ledger, Sums
      <3>4. Billed(r)'
        BY <2>0, <2>1, <3>1, <3>2, <3>3 DEF Billed, Ledger, Sums
      <3> QED BY <2>0, <2>1, <3>1, <3>4, Balance
    <2> QED BY <2>0, <2>2, <2>3 DEF Ledger
  <1> QED BY <1>1, <1>2, <1>3, <1>4, <1>5, <1>6, <1>7, <1>8, <1>9, EndLedger DEF Step

LEMMA OtherLedger ==
  ASSUME Ledger,
         \/ \E id \in Ids, answer \in {"yes", "no"} : Approve(id, answer)
         \/ \E r \in Requests : Timeout(r) \/ ClientCloses(r)
         \/ Abort \/ Shutdown \/ UNCHANGED vars
  PROVE  Ledger'
  <1>0. UNCHANGED <<slot, held, orch, money, overlapped>>
    BY DEF Approve, Timeout, ClientCloses, Abort, Shutdown, vars
  <1>1. ASSUME NEW R, NEW answer, Resolve(R, answer) PROVE Ledger'
    <2>1. \A q \in Requests :
            \/ pc'[q] = pc[q]
            \/ pc[q] = "asking" /\ pc'[q] \in {"executing", "running"}
      BY <1>1 DEF Resolve, Waiting
    <2> QED BY <1>0, <2>1, QuietLedger DEF Under, InTurn
  <1>2. CASE UNCHANGED pc
    BY <1>0, <1>2, QuietLedger DEF Under, InTurn
  <1> QED BY <1>1, <1>2 DEF Approve, Timeout, ClientCloses, Abort, Shutdown, vars

LEMMA NextLedger == IInv /\ Ledger /\ [Next]_vars => Ledger'
  BY StepLedger, OtherLedger DEF Next

\* With one request under way at a time what a turn costs is charged once, or
\* lost with the debit that failed, whatever was resumed, switched, refused,
\* aborted or shut down.
THEOREM ChargedOnceHolds == Spec => []ChargedOnce
  <1>1. Ledger => ChargedOnce
    BY DEF Ledger, Books, Settled, ChargedOnce, InTurn, Under
  <1> QED BY <1>1, InitLedger, NextLedger, Inductive, PTL DEF Spec
================================================================================
