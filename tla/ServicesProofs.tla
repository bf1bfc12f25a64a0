----------------------------- MODULE ServicesProofs -----------------------------
(***************************************************************************)
(* What the services a turn leans on promise, for all servers, sessions,   *)
(* requests and messages.  They share no state: each has an invariant of   *)
(* its own, and a step of another leaves it alone.                         *)
(***************************************************************************)
EXTENDS MCServices, Integers, FiniteSets, FiniteSetTheorems, TLAPS

(***************************************************************************)
(* A tool on offer whose session is known to be gone was left behind by a  *)
(* later session of its server, for all servers, tools, sessions and       *)
(* requests.  Tools are registered one by one from the entry of a server   *)
(* and undone by whichever session of its own ends, so what matters is     *)
(* that the session a registration names is the server's own, that it is   *)
(* never one a connection under way may close, that every other tool was   *)
(* left behind when the registration was overwritten, and that sessions    *)
(* list their tools once.                                                  *)
(***************************************************************************)
Underway == {"open", "endpoint", "initialize", "notify", "list"}

McpAttempt == [id : Servers \cup {Tools!None}, session : Tools!Sessions \cup {Tools!None},
            step : {"none", "failed"} \cup Underway,
            wires : Seq({"stdio", "streamable", "legacy"})]

McpShape ==
    /\ connecting \in McpAttempt
    /\ todo \subseteq Servers
    /\ status \in [Servers -> {"absent", "needs-trust", "connected", "error"}]
    /\ sessionOf \in [Servers -> Tools!Sessions \cup {Tools!None}]
    /\ registry \in [Servers -> [Names -> Tools!Sessions \cup {Tools!None}]]
    /\ registered \in [Servers -> Tools!Sessions \cup {Tools!None}]
    /\ lists \in [Tools!Sessions -> SUBSET Names]
    /\ life \in [Tools!Sessions -> {"none", "open", "gone", "closed"}]
    /\ owner \in [Tools!Sessions -> Servers \cup {Tools!None}]
    /\ \A id \in Servers : sessionOf[id] # Tools!None => status[id] = "connected"

\* The sessions so far are the first n, and there is room for the attempts
\* that a connection still has.
Sofar(n) ==
    /\ n \in Nat /\ MaxSessions \in Nat /\ n <= MaxSessions
    /\ \A s \in Tools!Sessions : life[s] # "none" <=> s <= n
    /\ connecting.step # "none" =>
         /\ connecting.id \in Servers
         /\ connecting.step = "failed" => n + Len(connecting.wires) <= MaxSessions
         /\ connecting.step # "failed" =>
              /\ Len(connecting.wires) > 0 /\ n + Len(connecting.wires) - 1 <= MaxSessions
              /\ connecting.session \in Tools!Sessions /\ owner[connecting.session] = connecting.id
              /\ connecting.session = n

\* The end of a session is noticed after its process or stream is gone.
PeersOpen ==
    /\ \A s \in peer : s \in Tools!Sessions /\ life[s] = "open" /\ s \notin exits
    /\ \A s \in exits : s \in Tools!Sessions /\ life[s] # "none"

\* A session that an entry or a registration may hold.
Good(id, s) == s \in Tools!Sessions /\ life[s] = "open" /\ owner[s] = id

UnderWay(s) == connecting.step \in Underway /\ s = connecting.session

EntriesOpen ==
    \A id \in Servers : status[id] = "connected" =>
      Good(id, sessionOf[id]) /\ ~UnderWay(sessionOf[id])

\* A session lists its tools when its connection is made.
ListedOnce ==
    \A s \in Tools!Sessions : lists[s] # {} => life[s] # "none" /\ ~UnderWay(s)

\* A registration names the tools of one session, not later than the entry's.
RegisteredOpen ==
    ~over => \A id \in Servers : registered[id] # Tools!None =>
      /\ Good(id, registered[id]) /\ ~UnderWay(registered[id])
      /\ status[id] = "connected" => registered[id] <= sessionOf[id]

\* A tool of the registry is one of those, or was left behind.
ToolsNamed ==
    ~over => \A id \in Servers, tool \in Names : registry[id][tool] # Tools!None =>
      \/ registry[id][tool] = registered[id] /\ tool \in lists[registered[id]]
      \/ Tools!LeftBehind(id, tool, registry[id][tool])

ToolsOpen == ListedOnce /\ RegisteredOpen /\ ToolsNamed

McpIInv == McpShape /\ (\E n \in Nat : Sofar(n)) /\ PeersOpen /\ EntriesOpen /\ ToolsOpen

-----------------------------------------------------------------------------

LEMMA McpInit == ASSUME Tools!Init PROVE McpIInv
  <1>1. McpShape
    BY DEF Tools!Init, McpShape, McpAttempt, Tools!NotConnecting
  <1>2. Sofar(0)
    BY RoomAssumption DEF Tools!Init, Sofar, Tools!Sessions, Tools!NotConnecting
  <1>3. PeersOpen /\ EntriesOpen
    BY DEF Tools!Init, PeersOpen, EntriesOpen
  <1>4. ToolsOpen
    BY DEF Tools!Init, ToolsOpen, ListedOnce, RegisteredOpen, ToolsNamed
  <1> QED BY <1>1, <1>2, <1>3, <1>4 DEF McpIInv

\* What was left behind stays so, since lists and owners are given once.
LEMMA StaysBehind ==
  ASSUME NEW id \in Servers, NEW tool \in Names, NEW s \in Tools!Sessions,
         Tools!LeftBehind(id, tool, s),
         \A m \in Tools!Sessions : lists[m] # {} => lists'[m] = lists[m] /\ owner'[m] = owner[m]
  PROVE  Tools!LeftBehind(id, tool, s)'
  BY DEF Tools!LeftBehind

\* Nothing about the tools changes, and what they stand on stays.
LEMMA ToolsKeep ==
  ASSUME McpShape, ToolsOpen, UNCHANGED <<registry, registered, lists, over>>,
         \A m \in Tools!Sessions : lists[m] # {} =>
           owner'[m] = owner[m] /\ (life[m] # "none" => life'[m] # "none") /\ (UnderWay(m)' => UnderWay(m)),
         \A id \in Servers : registered[id] # Tools!None =>
           /\ Good(id, registered[id]) /\ ~UnderWay(registered[id]) =>
                (Good(id, registered[id]) /\ ~UnderWay(registered[id]))'
           /\ status'[id] = "connected" => status[id] = "connected" /\ sessionOf'[id] = sessionOf[id]
  PROVE  ToolsOpen'
  <1>1. ListedOnce'
    BY DEF ToolsOpen, ListedOnce
  <1>2. RegisteredOpen'
    BY DEF ToolsOpen, RegisteredOpen
  <1>3. ToolsNamed'
    <2> SUFFICES ASSUME ~over, NEW id \in Servers, NEW tool \in Names, registry[id][tool] # Tools!None
                 PROVE  \/ registry[id][tool] = registered[id] /\ tool \in lists[registered[id]]
                        \/ Tools!LeftBehind(id, tool, registry[id][tool])'
      BY DEF ToolsNamed, Tools!LeftBehind
    <2>1. registry[id][tool] \in Tools!Sessions
      BY DEF McpShape
    <2> QED BY <2>1, StaysBehind DEF ToolsOpen, ToolsNamed
  <1> QED BY <1>1, <1>2, <1>3 DEF ToolsOpen

LEMMA SameCardinality == ASSUME NEW S PROVE Tools!Cardinality(S) = Cardinality(S)
  BY DEF Tools!Cardinality, Cardinality

LEMMA FirstOnes == ASSUME NEW n \in Nat PROVE Cardinality(1..n) = n
  <1>1. Cardinality(1..n) = IF 1 > n THEN 0 ELSE n - 1 + 1
    BY FS_Interval
  <1>2. (IF 1 > n THEN 0 ELSE n - 1 + 1) = n
    OBVIOUS
  <1> QED BY <1>1, <1>2

LEMMA FreshIs == ASSUME NEW n, Sofar(n), McpShape PROVE Tools!FreshSession = n + 1
  <1>1. {s \in Tools!Sessions : life[s] # "none"} = 1..n
    BY DEF Sofar, Tools!Sessions, McpShape
  <1>0. n \in Nat
    BY DEF Sofar
  <1>2. Cardinality(1..n) = n
    BY <1>0, FirstOnes
  <1> QED BY <1>1, <1>2, SameCardinality DEF Tools!FreshSession

\* The attempt goes from one of its awaits to the next.
LEMMA NextStep ==
  ASSUME NEW c \in McpAttempt, NEW to \in Underway, NEW d, d = [c EXCEPT !.step = to]
  PROVE  d \in McpAttempt /\ d.id = c.id /\ d.wires = c.wires /\ d.session = c.session /\ d.step = to
  BY DEF McpAttempt

\* No session is opened or closed, no entry changes.
LEMMA QuietIInv ==
  ASSUME McpIInv, UNCHANGED <<life, owner, peer, exits, status, sessionOf, lists, registry, registered, over>>,
         todo' \subseteq Servers,
         \/ connecting' = connecting
         \/ /\ connecting.step \in Underway
            /\ \E to \in Underway : connecting' = [connecting EXCEPT !.step = to]
  PROVE  McpIInv'
  <1>0. PICK n \in Nat : Sofar(n)
    BY DEF McpIInv
  <1>1. /\ connecting' \in McpAttempt
        /\ connecting'.id = connecting.id
        /\ connecting'.wires = connecting.wires /\ connecting'.session = connecting.session
        /\ \/ connecting'.step = connecting.step
           \/ connecting.step \in Underway /\ connecting'.step \in Underway
    BY NextStep DEF McpIInv, McpShape
  <1>2. McpShape'
    BY <1>1 DEF McpIInv, McpShape
  <1>3. Sofar(n)'
    BY <1>0, <1>1 DEF Sofar, Underway
  <1>4. PeersOpen'
    BY DEF McpIInv, PeersOpen
  <1>5. \A s : UnderWay(s)' <=> UnderWay(s)
    BY <1>1 DEF UnderWay
  <1>6. EntriesOpen'
    BY <1>5 DEF McpIInv, EntriesOpen, Good
  <1>7. ToolsOpen'
    <2>1. \A id \in Servers : Good(id, registered[id])' <=> Good(id, registered[id])
      BY DEF Good
    <2> QED BY <1>5, <2>1, ToolsKeep DEF McpIInv
  <1> QED BY <1>2, <1>3, <1>4, <1>6, <1>7 DEF McpIInv

\* A new session, which nothing refers to yet.
LEMMA OpenIInv ==
  ASSUME McpIInv, NEW n, Sofar(n), NEW id \in Servers, NEW wires \in Seq({"stdio", "streamable", "legacy"}),
         Len(wires) > 0, n + Len(wires) <= MaxSessions, Tools!OpenSession(id, wires),
         \A s \in Tools!Sessions : ~UnderWay(s),
         todo' \subseteq Servers, UNCHANGED <<exits, status, sessionOf, lists, registry, registered, over>>
  PROVE  McpIInv'
  <1> DEFINE s == n + 1
  <1>0. Tools!FreshSession = s /\ s \in Tools!Sessions /\ n \in Nat
    BY FreshIs DEF McpIInv, Sofar, Tools!Sessions
  <1>1. /\ life' = [life EXCEPT ![s] = "open"] /\ owner' = [owner EXCEPT ![s] = id]
        /\ peer' = peer \cup {s}
        /\ \E step \in {"open", "initialize"} :
             connecting' = [id |-> id, session |-> s, step |-> step, wires |-> wires]
    BY <1>0 DEF Tools!OpenSession
  <1>2. life[s] = "none" /\ s \notin exits
    BY <1>0 DEF McpIInv, McpShape, Sofar, PeersOpen
  <1>3. /\ life'[s] = "open" /\ owner'[s] = id
        /\ \A t \in Tools!Sessions : t # s => life'[t] = life[t] /\ owner'[t] = owner[t]
    BY <1>0, <1>1 DEF McpIInv, McpShape
  <1>a. /\ connecting' \in McpAttempt /\ connecting'.id = id /\ connecting'.session = s
        /\ connecting'.step \in {"open", "initialize"} /\ connecting'.wires = wires
    BY <1>0, <1>1 DEF McpAttempt, Underway
  <1>4. McpShape'
    <2>2. life' \in [Tools!Sessions -> {"none", "open", "gone", "closed"}]
      BY <1>0, <1>1 DEF McpIInv, McpShape
    <2>3. owner' \in [Tools!Sessions -> Servers \cup {Tools!None}]
      BY <1>0, <1>1 DEF McpIInv, McpShape
    <2> QED BY <1>a, <2>2, <2>3 DEF McpIInv, McpShape
  <1> DEFINE m == n + 1
  <1>5. Sofar(m)'
    <2>1. m \in Nat /\ MaxSessions \in Nat /\ m <= MaxSessions
      BY <1>0 DEF Sofar, Tools!Sessions
    <2>2. \A t \in Tools!Sessions : life'[t] # "none" <=> t <= m
      BY <1>0, <1>3 DEF Sofar, Tools!Sessions
    <2>3. Len(wires) \in Nat
      OBVIOUS
    <2>4. m + Len(wires) - 1 <= MaxSessions
      BY <1>0, <2>3 DEF Sofar
    <2> QED BY <1>0, <1>a, <1>3, <2>1, <2>2, <2>4 DEF Sofar
  <1>6. PeersOpen'
    BY <1>0, <1>1, <1>2, <1>3 DEF McpIInv, PeersOpen
  <1>7. \A t \in Tools!Sessions : UnderWay(t)' => t = s
    BY <1>a DEF UnderWay
  <1>8. EntriesOpen'
    BY <1>2, <1>3, <1>7 DEF McpIInv, EntriesOpen, Good
  <1>9. ToolsOpen'
    <2>1. \A t \in Tools!Sessions : lists[t] # {} => t # s
      BY <1>2 DEF McpIInv, ToolsOpen, ListedOnce
    <2>2. \A j \in Servers : Good(j, registered[j]) => (Good(j, registered[j]) /\ ~UnderWay(registered[j]))'
      BY <1>2, <1>3, <1>7 DEF Good
    <2>3. \A t \in Tools!Sessions : lists[t] # {} => owner'[t] = owner[t] /\ life'[t] = life[t] /\ ~UnderWay(t)'
      BY <1>3, <1>7, <2>1
    <2> QED BY <2>2, <2>3, ToolsKeep DEF McpIInv
  <1>b. \E k \in Nat : Sofar(k)'
    BY <1>0, <1>5
  <1> QED BY <1>4, <1>6, <1>8, <1>9, <1>b DEF McpIInv

-----------------------------------------------------------------------------
(* Connections. *)

\* The tools of the connected servers are those of their entries, which are of
\* later sessions than those registered before.
LEMMA RegisterOpens ==
  ASSUME McpShape, McpShape', EntriesOpen', ToolsOpen, UNCHANGED <<life, owner, over>>,
         \A s \in Tools!Sessions : ~UnderWay(s)',
         \A s \in Tools!Sessions : lists[s] # {} => lists'[s] = lists[s],
         \A s \in Tools!Sessions : lists'[s] # {} => life[s] # "none",
         \A id \in Servers : status'[id] = "connected" /\ registered[id] # Tools!None /\ ~over =>
           registered[id] <= sessionOf'[id],
         NEW ACTION yes, Tools!RegisterIf(yes)
  PROVE  ToolsOpen'
  <1>0. ListedOnce'
    BY DEF ListedOnce
  <1>1. CASE UNCHANGED <<registry, registered>>
    <2>1. RegisteredOpen'
      BY <1>1 DEF ToolsOpen, RegisteredOpen, Good, McpShape
    <2>2. ToolsNamed'
      <3> SUFFICES ASSUME ~over, NEW id \in Servers, NEW tool \in Names, registry[id][tool] # Tools!None
                   PROVE  \/ registry[id][tool] = registered[id] /\ tool \in lists'[registered[id]]
                          \/ Tools!LeftBehind(id, tool, registry[id][tool])'
        BY <1>1 DEF ToolsNamed, Tools!LeftBehind
      <3>1. registry[id][tool] \in Tools!Sessions
        BY DEF McpShape
      <3>2. CASE registry[id][tool] = registered[id] /\ tool \in lists[registered[id]]
        BY <3>1, <3>2
      <3>3. CASE Tools!LeftBehind(id, tool, registry[id][tool])
        <4>1. \A m \in Tools!Sessions : lists[m] # {} => lists'[m] = lists[m] /\ owner'[m] = owner[m]
          OBVIOUS
        <4> QED BY <1>1, <3>1, <3>3, <4>1, StaysBehind
      <3> QED BY <3>2, <3>3 DEF ToolsOpen, ToolsNamed
    <2> QED BY <1>0, <2>1, <2>2 DEF ToolsOpen
  <1>2. CASE Tools!RegisterToolsInto(status', sessionOf', lists')
    <2> DEFINE listed(id) == IF status'[id] = "connected" THEN lists'[sessionOf'[id]] ELSE {}
    <2>1. \A id \in Servers :
            /\ registered'[id] = IF listed(id) # {} THEN sessionOf'[id] ELSE registered[id]
            /\ \A tool \in Names :
                 registry'[id][tool] = IF tool \in listed(id) THEN sessionOf'[id] ELSE registry[id][tool]
      BY <1>2 DEF Tools!RegisterToolsInto
    <2> HIDE DEF listed
    <2>2. \A id \in Servers : listed(id) # {} => /\ status'[id] = "connected" /\ listed(id) = lists'[sessionOf'[id]]
                                                 /\ Good(id, sessionOf[id])' /\ sessionOf'[id] \in Tools!Sessions
      BY DEF listed, EntriesOpen, Good
    <2>3. RegisteredOpen'
      <3> SUFFICES ASSUME ~over, NEW id \in Servers, registered'[id] # Tools!None
                   PROVE  /\ Good(id, registered[id])' /\ ~UnderWay(registered[id])'
                          /\ status'[id] = "connected" => registered'[id] <= sessionOf'[id]
        BY DEF RegisteredOpen
      <3>1. CASE listed(id) # {}
        BY <2>1, <2>2, <3>1 DEF Tools!Sessions, Good
      <3>2. CASE listed(id) = {}
        BY <2>1, <3>2 DEF ToolsOpen, RegisteredOpen, Good
      <3> QED BY <3>1, <3>2
    <2>4. ToolsNamed'
      <3> SUFFICES ASSUME ~over, NEW id \in Servers, NEW tool \in Names, registry'[id][tool] # Tools!None
                   PROVE  \/ registry'[id][tool] = registered'[id] /\ tool \in lists'[registered'[id]]
                          \/ Tools!LeftBehind(id, tool, registry[id][tool])'
        BY DEF ToolsNamed, Tools!LeftBehind
      <3>1. CASE tool \in listed(id)
        BY <2>1, <2>2, <3>1
      <3>2. CASE tool \notin listed(id)
        <4>1. registry'[id][tool] = registry[id][tool] /\ registry[id][tool] \in Tools!Sessions
          BY <2>1, <3>2 DEF McpShape
        <4>2. CASE Tools!LeftBehind(id, tool, registry[id][tool])
          <5>1. Tools!LeftBehind(id, tool, registry[id][tool])'
            BY <4>1, <4>2 DEF Tools!LeftBehind
          <5> QED BY <5>1
        <4>3. CASE registry[id][tool] = registered[id] /\ tool \in lists[registered[id]]
          <5>1. lists'[registered[id]] = lists[registered[id]]
            BY <4>1, <4>3
          <5>2. CASE listed(id) = {}
            BY <2>1, <4>1, <4>3, <5>1, <5>2
          <5>3. CASE listed(id) # {}
            <6>1. /\ sessionOf'[id] \in Tools!Sessions /\ owner'[sessionOf'[id]] = id
                  /\ lists'[sessionOf'[id]] # {} /\ tool \notin lists'[sessionOf'[id]]
                  /\ registered[id] <= sessionOf'[id]
              BY <2>2, <3>2, <4>1, <4>3, <5>3 DEF Good
            <6>2. sessionOf'[id] > registry[id][tool]
              BY <4>1, <4>3, <5>1, <6>1 DEF Tools!Sessions
            <6> QED BY <4>1, <6>1, <6>2 DEF Tools!LeftBehind
          <5> QED BY <5>2, <5>3
        <4> QED BY <4>1, <4>2, <4>3 DEF ToolsOpen, ToolsNamed
      <3> QED BY <3>1, <3>2
    <2> QED BY <1>0, <2>3, <2>4 DEF ToolsOpen
  <1> QED BY <1>1, <1>2 DEF Tools!RegisterIf

LEMMA RegisterShape ==
  ASSUME McpShape, sessionOf' \in [Servers -> Tools!Sessions \cup {Tools!None}], NEW ACTION yes, Tools!RegisterIf(yes)
  PROVE  /\ registry' \in [Servers -> [Names -> Tools!Sessions \cup {Tools!None}]]
         /\ registered' \in [Servers -> Tools!Sessions \cup {Tools!None}]
  <1>1. CASE UNCHANGED <<registry, registered>>
    BY <1>1 DEF McpShape
  <1>2. CASE Tools!RegisterToolsInto(status', sessionOf', lists')
    BY <1>2 DEF McpShape, Tools!RegisterToolsInto
  <1> QED BY <1>1, <1>2 DEF Tools!RegisterIf

LEMMA ConfigIInv ==
  ASSUME McpIInv, NEW id \in Servers, NEW ACTION store, Tools!ConnectConfig(id, store),
         connecting = Tools!NotConnecting, todo' \subseteq Servers, UNCHANGED <<exits, lists, over>>,
         NEW ACTION yes, Tools!RegisterIf(yes), Tools!IsMcpServerTrusted(id, store) => ~yes
  PROVE  McpIInv'
  <1>0. PICK n \in Nat : Sofar(n)
    BY DEF McpIInv
  <1>1. CASE Tools!IsMcpServerTrusted(id, store)
    <2>0. PICK wires : /\ wires = Tools!Wires(id) /\ Tools!Room(wires) /\ Tools!OpenSession(id, wires)
                       /\ UNCHANGED <<status, sessionOf>>
      BY <1>1 DEF Tools!ConnectConfig
    <2>1. wires \in Seq({"stdio", "streamable", "legacy"}) /\ Len(wires) \in Nat /\ Len(wires) > 0
      <3>1. \/ wires = <<"stdio">>
            \/ wires = <<"legacy", "streamable">>
            \/ wires = <<"streamable", "legacy">>
        BY <2>0 DEF Tools!Wires
      <3>2. <<"stdio">> \in Seq({"stdio", "streamable", "legacy"}) /\ Len(<<"stdio">>) = 1
        OBVIOUS
      <3>3. <<"legacy", "streamable">> \in Seq({"stdio", "streamable", "legacy"}) /\ Len(<<"legacy", "streamable">>) = 2
        OBVIOUS
      <3>4. <<"streamable", "legacy">> \in Seq({"stdio", "streamable", "legacy"}) /\ Len(<<"streamable", "legacy">>) = 2
        OBVIOUS
      <3>5. CASE wires = <<"stdio">>
        BY <3>2, <3>5
      <3>6. CASE wires = <<"legacy", "streamable">>
        BY <3>3, <3>6
      <3>7. CASE wires = <<"streamable", "legacy">>
        BY <3>4, <3>7
      <3> QED BY <3>1, <3>5, <3>6, <3>7
    <2>2. n + Len(wires) <= MaxSessions
      <3>1. Tools!FreshSession = n + 1
        BY <1>0, FreshIs DEF McpIInv
      <3> QED BY <1>0, <2>0, <2>1, <3>1 DEF Tools!Room, Sofar
    <2>3. \A s \in Tools!Sessions : ~UnderWay(s)
      BY DEF UnderWay, Underway, Tools!NotConnecting
    <2>4. UNCHANGED <<registry, registered>>
      BY <1>1 DEF Tools!RegisterIf
    <2> QED BY <1>0, <2>0, <2>1, <2>2, <2>3, <2>4, OpenIInv
  <1>2. CASE ~Tools!IsMcpServerTrusted(id, store)
    <2>1. /\ status' = [status EXCEPT ![id] = "needs-trust"] /\ sessionOf' = [sessionOf EXCEPT ![id] = Tools!None]
          /\ UNCHANGED <<life, owner, peer, connecting>>
      BY <1>2 DEF Tools!ConnectConfig
    <2>2. McpShape'
      <3>1. sessionOf' \in [Servers -> Tools!Sessions \cup {Tools!None}]
        BY <2>1 DEF McpIInv, McpShape
      <3>2. /\ registry' \in [Servers -> [Names -> Tools!Sessions \cup {Tools!None}]]
            /\ registered' \in [Servers -> Tools!Sessions \cup {Tools!None}]
        BY <3>1, RegisterShape DEF McpIInv
      <3> QED BY <2>1, <3>1, <3>2 DEF McpIInv, McpShape
    <2>3. Sofar(n)' /\ PeersOpen'
      BY <1>0, <2>1 DEF Sofar, McpIInv, PeersOpen
    <2>4. EntriesOpen'
      BY <2>1 DEF McpIInv, McpShape, EntriesOpen, Good, UnderWay
    <2>5. \A s \in Tools!Sessions : ~UnderWay(s)'
      BY <2>1 DEF UnderWay, Underway, Tools!NotConnecting
    <2>6. ToolsOpen'
      <3>1. \A j \in Servers : status'[j] = "connected" => status[j] = "connected" /\ sessionOf'[j] = sessionOf[j]
        BY <2>1 DEF McpIInv, McpShape
      <3>2. \A s \in Tools!Sessions : lists'[s] # {} => life[s] # "none"
        BY DEF McpIInv, ToolsOpen, ListedOnce
      <3>3. \A j \in Servers : status'[j] = "connected" /\ registered[j] # Tools!None /\ ~over =>
              registered[j] <= sessionOf'[j]
        BY <3>1 DEF McpIInv, ToolsOpen, RegisteredOpen
      <3> QED BY <2>1, <2>2, <2>4, <2>5, <3>2, <3>3, RegisterOpens DEF McpIInv
    <2> QED BY <2>2, <2>3, <2>4, <2>6 DEF McpIInv
  <1> QED BY <1>1, <1>2

LEMMA CommandIInv ==
  ASSUME McpIInv, Tools!ConnectNext \/ \E id \in Servers : Tools!TrustServer(id) \/ Tools!AddServer(id)
  PROVE  McpIInv'
  <1>1. CASE Tools!ConnectNext
    <2>1. PICK id \in todo :
            /\ todo' = todo \ {id} /\ UNCHANGED lists /\ Tools!ConnectConfig(id, trusted)
            /\ Tools!RegisterIf(~Tools!IsMcpServerTrusted(id, trusted) /\ Tools!Registers(FALSE))
      BY <1>1 DEF Tools!ConnectNext
    <2>2. id \in Servers /\ todo' \subseteq Servers
      BY <2>1 DEF McpIInv, McpShape
    <2> QED BY <1>1, <2>1, <2>2, ConfigIInv DEF Tools!ConnectNext
  <1>2. ASSUME NEW id \in Servers, Tools!TrustServer(id) \/ Tools!AddServer(id) PROVE McpIInv'
    <2>1. PICK who : Tools!GrantAndConnect(id, who)
      BY <1>2 DEF Tools!TrustServer, Tools!AddServer
    <2>2. Tools!RegisterIf(FALSE)
      BY <2>1 DEF Tools!GrantAndConnect, Tools!RegisterIf
    <2>3. /\ Tools!ConnectConfig(id, trusted') /\ connecting = Tools!NotConnecting
          /\ todo' \subseteq Servers /\ UNCHANGED <<exits, lists, over>>
      BY <2>1 DEF Tools!GrantAndConnect, Tools!AtPrompt, McpIInv, McpShape
    <2> QED BY <2>2, <2>3, ConfigIInv
  <1> QED BY <1>1, <1>2

LEMMA ConnectedIInv == ASSUME McpIInv, NEW r, Tools!Connected(r) PROVE McpIInv'
  <1>0. PICK n \in Nat : Sofar(n)
    BY DEF McpIInv
  <1> DEFINE s == connecting.session
  <1>1. PICK id \in Servers : id = connecting.id
    BY <1>0 DEF Tools!Connected, Sofar
  <1>2. /\ connecting.step = "list" /\ s \in peer
        /\ status' = [status EXCEPT ![id] = "connected"] /\ sessionOf' = [sessionOf EXCEPT ![id] = s]
        /\ connecting' = Tools!NotConnecting
        /\ UNCHANGED <<todo, life, peer, exits, owner, over>>
    BY <1>1 DEF Tools!Connected
  <1>3. Good(id, s)
    BY <1>0, <1>1, <1>2 DEF McpIInv, PeersOpen, Sofar, Good
  <1>4. McpShape'
    <2>1. connecting' \in McpAttempt
      BY <1>2 DEF Tools!NotConnecting, McpAttempt
    <2>2. s \in Tools!Sessions
      BY <1>3 DEF Good
    <2>3. sessionOf' \in [Servers -> Tools!Sessions \cup {Tools!None}]
      BY <1>2, <2>2 DEF McpIInv, McpShape
    <2>4. /\ registry' \in [Servers -> [Names -> Tools!Sessions \cup {Tools!None}]]
          /\ registered' \in [Servers -> Tools!Sessions \cup {Tools!None}]
      BY <2>3, RegisterShape DEF McpIInv, Tools!Connected
    <2>5. lists' \in [Tools!Sessions -> SUBSET Names]
      BY DEF Tools!Connected, McpIInv, McpShape
    <2> QED BY <1>2, <2>1, <2>3, <2>4, <2>5 DEF McpIInv, McpShape
  <1>5. Sofar(n)' /\ PeersOpen'
    BY <1>0, <1>2 DEF Sofar, McpIInv, PeersOpen, Tools!NotConnecting
  <1>6. \A t \in Tools!Sessions : ~UnderWay(t)'
    BY <1>2 DEF UnderWay, Underway, Tools!NotConnecting
  <1>7. EntriesOpen'
    <2> SUFFICES ASSUME NEW j \in Servers, status'[j] = "connected"
                 PROVE  (Good(j, sessionOf[j]))' /\ ~UnderWay(sessionOf[j])'
      BY DEF EntriesOpen
    <2>1. CASE j = id
      BY <1>2, <1>3, <1>6, <2>1 DEF Good, McpIInv, McpShape
    <2>2. CASE j # id
      BY <1>2, <1>6, <2>2 DEF Good, McpIInv, McpShape, EntriesOpen
    <2> QED BY <2>1, <2>2
  <1>8. ToolsOpen'
    <2>1. \A t \in Tools!Sessions : t # s => lists'[t] = lists[t]
      BY DEF Tools!Connected, McpIInv, McpShape
    <2>2. lists[s] = {}
      BY <1>2, <1>3 DEF McpIInv, ToolsOpen, ListedOnce, UnderWay, Underway, Good
    <2>3. \A t \in Tools!Sessions : lists'[t] # {} => life[t] # "none"
      BY <1>3, <2>1 DEF McpIInv, ToolsOpen, ListedOnce, Good
    <2>4. \A j \in Servers : status'[j] = "connected" /\ registered[j] # Tools!None /\ ~over =>
            registered[j] <= sessionOf'[j]
      <3> SUFFICES ASSUME NEW j \in Servers, status'[j] = "connected", registered[j] # Tools!None, ~over
                   PROVE  registered[j] <= sessionOf'[j]
        OBVIOUS
      <3>1. CASE j = id
        <4>1. s = n /\ registered[j] <= n
          BY <1>0, <1>2 DEF McpIInv, ToolsOpen, RegisteredOpen, Good, Sofar
        <4> QED BY <1>2, <3>1, <4>1 DEF McpIInv, McpShape
      <3>2. CASE j # id
        BY <1>2, <3>2 DEF McpIInv, McpShape, ToolsOpen, RegisteredOpen
      <3> QED BY <3>1, <3>2
    <2>5. \A t \in Tools!Sessions : lists[t] # {} => lists'[t] = lists[t]
      BY <2>1, <2>2
    <2>6. Tools!RegisterIf(Tools!Registers(TRUE))
      BY DEF Tools!Connected
    <2> QED BY <1>2, <1>4, <1>6, <1>7, <2>3, <2>4, <2>5, <2>6, RegisterOpens DEF McpIInv
  <1> QED BY <1>4, <1>5, <1>7, <1>8 DEF McpIInv

\* Closing the session of an attempt: no entry has it.
LEMMA FailsIInv == ASSUME McpIInv, Tools!ConnectFails PROVE McpIInv'
  <1>0. PICK n \in Nat : Sofar(n)
    BY DEF McpIInv
  <1>1. PICK s \in Tools!Sessions : s = connecting.session
    BY <1>0 DEF Tools!ConnectFails, Sofar
  <1>2. /\ connecting.step \in Underway
        /\ life' = [life EXCEPT ![s] = IF @ = "open" THEN "closed" ELSE @]
        /\ peer' = peer \ {s} /\ exits' = exits \ {s}
        /\ UNCHANGED <<todo, status, sessionOf, owner, lists, registry, registered, over>>
    BY <1>1 DEF Tools!ConnectFails, Tools!Close, Underway
  <1>3. /\ connecting' \in McpAttempt /\ connecting'.step = "failed" /\ connecting'.id = connecting.id
        /\ connecting'.wires = Tail(connecting.wires) /\ Len(connecting.wires) \in Nat
        /\ Len(connecting'.wires) = Len(connecting.wires) - 1
    <2>1. PICK c \in McpAttempt : c = connecting /\ Len(c.wires) > 0
      BY <1>0, <1>2 DEF McpIInv, McpShape, Sofar, Underway
    <2>2. /\ c.wires \in Seq({"stdio", "streamable", "legacy"}) /\ c.id \in Servers \cup {Tools!None}
          /\ c.session \in Tools!Sessions \cup {Tools!None}
      BY <2>1 DEF McpAttempt
    <2>3. /\ Tail(c.wires) \in Seq({"stdio", "streamable", "legacy"})
          /\ Len(Tail(c.wires)) = Len(c.wires) - 1 /\ Len(c.wires) \in Nat
      BY <2>1, <2>2
    <2>4. connecting' = [id |-> c.id, session |-> c.session, step |-> "failed", wires |-> Tail(c.wires)]
      BY <2>1 DEF Tools!ConnectFails, McpAttempt
    <2> QED BY <2>1, <2>2, <2>3, <2>4 DEF McpAttempt
  <1>4. /\ life'[s] \in {"none", "open", "gone", "closed"} /\ (life'[s] # "none" <=> life[s] # "none")
        /\ \A t \in Tools!Sessions : t # s => life'[t] = life[t]
    BY <1>2 DEF McpIInv, McpShape
  <1>5. McpShape'
    BY <1>2, <1>3 DEF McpIInv, McpShape
  <1>6. Sofar(n)'
    <2>1. \A t \in Tools!Sessions : life'[t] # "none" <=> life[t] # "none"
      BY <1>4
    <2>2. n + Len(connecting'.wires) <= MaxSessions
      BY <1>0, <1>2, <1>3 DEF Sofar, Underway
    <2> QED BY <1>0, <1>2, <1>3, <2>1, <2>2 DEF Sofar, Underway
  <1>7. PeersOpen'
    BY <1>2, <1>4 DEF McpIInv, PeersOpen
  <1>8. EntriesOpen'
    BY <1>1, <1>2, <1>3, <1>4 DEF McpIInv, EntriesOpen, Good, UnderWay, Underway
  <1>9. ToolsOpen'
    <2>1. UnderWay(s) /\ \A t : ~UnderWay(t)'
      BY <1>1, <1>2, <1>3 DEF UnderWay, Underway
    <2>2. \A j \in Servers : Good(j, registered[j]) /\ ~UnderWay(registered[j]) => Good(j, registered[j])'
      BY <1>2, <1>4, <2>1 DEF Good
    <2>3. \A t \in Tools!Sessions : life[t] # "none" => life'[t] # "none"
      BY <1>4
    <2> QED BY <1>2, <2>1, <2>2, <2>3, ToolsKeep DEF McpIInv
  <1> QED BY <1>5, <1>6, <1>7, <1>8, <1>9 DEF McpIInv

LEMMA RetryIInv == ASSUME McpIInv, Tools!TryOtherStyle \/ Tools!GiveUp PROVE McpIInv'
  <1>0. PICK n \in Nat : Sofar(n)
    BY DEF McpIInv
  <1>1. connecting.step = "failed" /\ \A s \in Tools!Sessions : ~UnderWay(s)
    BY DEF Tools!TryOtherStyle, Tools!GiveUp, UnderWay, Underway
  <1>2. CASE Tools!TryOtherStyle
    <2>1. PICK id \in Servers, wires \in Seq({"stdio", "streamable", "legacy"}) :
            id = connecting.id /\ wires = connecting.wires /\ Len(wires) > 0 /\ n + Len(wires) <= MaxSessions
      BY <1>0, <1>1, <1>2 DEF Sofar, Tools!TryOtherStyle, McpIInv, McpShape, McpAttempt
    <2> QED BY <1>0, <1>1, <1>2, <2>1, OpenIInv DEF Tools!TryOtherStyle, McpIInv, McpShape
  <1>3. CASE Tools!GiveUp
    <2>1. PICK id \in Servers : id = connecting.id
      BY <1>0, <1>1 DEF Sofar
    <2>2. /\ status' = [status EXCEPT ![id] = "error"] /\ sessionOf' = [sessionOf EXCEPT ![id] = Tools!None]
          /\ connecting' = Tools!NotConnecting
          /\ Tools!RegisterIf(Tools!Registers(FALSE))
          /\ UNCHANGED <<todo, life, peer, exits, owner, lists, over>>
      BY <1>3, <2>1 DEF Tools!GiveUp
    <2>3. connecting' \in McpAttempt
      BY <2>2 DEF Tools!NotConnecting, McpAttempt
    <2>4. \A t \in Tools!Sessions : ~UnderWay(t)'
      BY <2>2 DEF UnderWay, Underway, Tools!NotConnecting
    <2>5. Sofar(n)' /\ PeersOpen'
      BY <1>0, <2>2 DEF Sofar, McpIInv, PeersOpen, Tools!NotConnecting
    <2>6. EntriesOpen'
      <3> SUFFICES ASSUME NEW j \in Servers, status'[j] = "connected"
                   PROVE  (Good(j, sessionOf[j]))' /\ ~UnderWay(sessionOf[j])'
        BY DEF EntriesOpen
      <3> QED BY <2>2, <2>4 DEF Good, McpIInv, McpShape, EntriesOpen
    <2>7. McpShape'
      <3>1. /\ status' \in [Servers -> {"absent", "needs-trust", "connected", "error"}]
            /\ sessionOf' \in [Servers -> Tools!Sessions \cup {Tools!None}]
        BY <2>2 DEF McpIInv, McpShape
      <3>2. /\ registry' \in [Servers -> [Names -> Tools!Sessions \cup {Tools!None}]]
            /\ registered' \in [Servers -> Tools!Sessions \cup {Tools!None}]
        BY <2>2, <3>1, RegisterShape DEF McpIInv
      <3> QED BY <2>2, <2>3, <3>1, <3>2 DEF McpIInv, McpShape
    <2>8. ToolsOpen'
      <3>1. \A j \in Servers : status'[j] = "connected" => status[j] = "connected" /\ sessionOf'[j] = sessionOf[j]
        BY <2>2 DEF McpIInv, McpShape
      <3>2. \A s \in Tools!Sessions : lists'[s] # {} => life[s] # "none"
        BY <2>2 DEF McpIInv, ToolsOpen, ListedOnce
      <3>3. \A j \in Servers : status'[j] = "connected" /\ registered[j] # Tools!None /\ ~over =>
              registered[j] <= sessionOf'[j]
        BY <3>1 DEF McpIInv, ToolsOpen, RegisteredOpen
      <3> QED BY <2>2, <2>4, <2>6, <2>7, <3>2, <3>3, RegisterOpens DEF McpIInv
    <2> QED BY <2>5, <2>6, <2>7, <2>8 DEF McpIInv
  <1> QED BY <1>2, <1>3

-----------------------------------------------------------------------------
(* Calls, and the end of a server. *)

LEMMA CallIInv ==
  ASSUME McpIInv,
         \/ \E id \in Servers : Tools!Untrust(id) \/ \E tool \in Names : Tools!CallTool(id, tool)
         \/ Tools!StreamOpens \/ Tools!EndpointSeen \/ Tools!Notified
         \/ \E r \in Tools!Requests : Tools!Initialized(r)
         \/ \E s \in Tools!Sessions, r \in Tools!Requests :
              Tools!Answer(s, r) \/ Tools!AnswerInHalves(s, r) \/ Tools!TimeOut(s, r) \/ Tools!PostFails(s, r)
         \/ UNCHANGED mcpVars
  PROVE  McpIInv'
  <1>1. /\ UNCHANGED <<todo, life, owner, peer, exits, status, sessionOf, lists, registry, registered, over>>
        /\ \/ connecting' = connecting
           \/ /\ connecting.step \in Underway
              /\ \E to \in Underway : connecting' = [connecting EXCEPT !.step = to]
    BY DEF Tools!Untrust, Tools!CallTool, Tools!Initialized, Tools!Answer, Tools!AnswerInHalves, Tools!TimeOut,
           Tools!PostFails, Tools!StreamOpens, Tools!EndpointSeen, Tools!Notified, Tools!Request, Underway, mcpVars
  <1> QED BY <1>1, QuietIInv DEF McpIInv, McpShape

LEMMA DieIInv == ASSUME McpIInv, NEW s \in Tools!Sessions, Tools!Die(s) PROVE McpIInv'
  <1>0. PICK n \in Nat : Sofar(n)
    BY DEF McpIInv
  <1>1. /\ s \in peer /\ peer' = peer \ {s} /\ exits' \subseteq exits \cup {s}
        /\ UNCHANGED <<todo, connecting, status, sessionOf, life, owner, lists, registry, registered, over>>
    BY DEF Tools!Die
  <1>2. McpShape' /\ Sofar(n)'
    BY <1>0, <1>1 DEF McpIInv, McpShape, Sofar
  <1>3. PeersOpen'
    BY <1>1 DEF McpIInv, PeersOpen
  <1>4. EntriesOpen'
    BY <1>1 DEF McpIInv, EntriesOpen, Good, UnderWay
  <1>5. ToolsOpen'
    <2>1. \A j \in Servers : Good(j, registered[j])' <=> Good(j, registered[j])
      BY <1>1 DEF Good
    <2>2. \A t : UnderWay(t)' <=> UnderWay(t)
      BY <1>1 DEF UnderWay
    <2> QED BY <1>1, <2>1, <2>2, ToolsKeep DEF McpIInv
  <1> QED BY <1>2, <1>3, <1>4, <1>5 DEF McpIInv

\* What the session's server offers goes, and an entry that has the session.
LEMMA ServerExitIInv == ASSUME McpIInv, NEW s \in Tools!Sessions, Tools!ServerExit(s) PROVE McpIInv'
  <1>0. PICK n \in Nat : Sofar(n)
    BY DEF McpIInv
  <1> DEFINE id == owner[s]
  <1>1. /\ s \in exits /\ life[s] = "open" /\ exits' = exits \ {s} /\ life' = [life EXCEPT ![s] = "gone"]
        /\ status' = [status EXCEPT ![id] = IF sessionOf[id] = s THEN "error" ELSE @]
        /\ sessionOf' = [sessionOf EXCEPT ![id] = IF @ = s THEN Tools!None ELSE @]
        /\ Tools!Unregisters(id)
        /\ UNCHANGED <<todo, connecting, peer, owner, lists, over>>
    BY DEF Tools!ServerExit
  <1>2. s \notin peer
    BY <1>1 DEF McpIInv, PeersOpen
  <1>3. life'[s] = "gone" /\ \A t \in Tools!Sessions : t # s => life'[t] = life[t]
    BY <1>1 DEF McpIInv, McpShape
  <1>4. McpShape'
    <2>1. life' \in [Tools!Sessions -> {"none", "open", "gone", "closed"}]
      BY <1>1 DEF McpIInv, McpShape
    <2>2. /\ status' \in [Servers -> {"absent", "needs-trust", "connected", "error"}]
          /\ sessionOf' \in [Servers -> Tools!Sessions \cup {Tools!None}]
      BY <1>1 DEF McpIInv, McpShape
    <2>3. /\ registry' \in [Servers -> [Names -> Tools!Sessions \cup {Tools!None}]]
          /\ registered' \in [Servers -> Tools!Sessions \cup {Tools!None}]
      BY <1>1 DEF McpIInv, McpShape, Tools!Unregisters
    <2> QED BY <1>1, <2>1, <2>2, <2>3 DEF McpIInv, McpShape
  <1>5. Sofar(n)'
    BY <1>0, <1>1, <1>3 DEF Sofar
  <1>6. PeersOpen'
    BY <1>1, <1>2, <1>3 DEF McpIInv, PeersOpen
  <1>7. EntriesOpen'
    <2> SUFFICES ASSUME NEW j \in Servers, status'[j] = "connected"
                 PROVE  (Good(j, sessionOf[j]))' /\ ~UnderWay(sessionOf[j])'
      BY DEF EntriesOpen
    <2>1. status[j] = "connected" /\ sessionOf[j] # s /\ sessionOf'[j] = sessionOf[j]
      <3>1. CASE j = id
        BY <1>1, <3>1 DEF McpIInv, McpShape
      <3>2. CASE j # id
        BY <1>1, <3>2 DEF McpIInv, McpShape, EntriesOpen, Good
      <3> QED BY <3>1, <3>2
    <2> QED BY <1>1, <1>3, <2>1 DEF McpIInv, EntriesOpen, Good, UnderWay
  <1>8. ToolsOpen'
    <2>0. id \in Servers \cup {Tools!None} /\ \A t : UnderWay(t)' <=> UnderWay(t)
      BY <1>1 DEF McpIInv, McpShape, UnderWay
    <2>1. \A j \in Servers : registered'[j] = (IF j = id THEN Tools!None ELSE registered[j])
      BY <1>1 DEF Tools!Unregisters, McpIInv, McpShape
    <2>2. \A j \in Servers, tool \in Names : registry'[j][tool] # Tools!None =>
            /\ registry'[j][tool] = registry[j][tool]
            /\ j = id /\ registered[j] # Tools!None => tool \notin lists[registered[j]]
      BY <1>1 DEF Tools!Unregisters, McpIInv, McpShape
    <2>3. ListedOnce'
      BY <1>1, <1>3, <2>0 DEF McpIInv, ToolsOpen, ListedOnce
    <2>4. RegisteredOpen'
      <3> SUFFICES ASSUME ~over, NEW j \in Servers, registered'[j] # Tools!None
                   PROVE  /\ Good(j, registered[j])' /\ ~UnderWay(registered[j])'
                          /\ status'[j] = "connected" => registered'[j] <= sessionOf'[j]
        BY <1>1 DEF RegisteredOpen
      <3>1. j # id /\ registered'[j] = registered[j] /\ Good(j, registered[j]) /\ ~UnderWay(registered[j])
        BY <2>1 DEF McpIInv, ToolsOpen, RegisteredOpen
      <3>2. registered[j] # s /\ status'[j] = status[j] /\ sessionOf'[j] = sessionOf[j]
        BY <1>1, <3>1 DEF Good, McpIInv, McpShape
      <3> QED BY <1>1, <1>3, <2>0, <3>1, <3>2 DEF Good, McpIInv, ToolsOpen, RegisteredOpen
    <2>5. ToolsNamed'
      <3> SUFFICES ASSUME ~over, NEW j \in Servers, NEW tool \in Names, registry'[j][tool] # Tools!None
                   PROVE  \/ registry'[j][tool] = registered'[j] /\ tool \in lists'[registered'[j]]
                          \/ Tools!LeftBehind(j, tool, registry[j][tool])'
        BY <1>1 DEF ToolsNamed, Tools!LeftBehind
      <3>1. registry'[j][tool] = registry[j][tool] /\ registry[j][tool] \in Tools!Sessions
        BY <2>2 DEF McpIInv, McpShape
      <3>2. CASE Tools!LeftBehind(j, tool, registry[j][tool])
        BY <1>1, <3>1, <3>2 DEF Tools!LeftBehind
      <3>3. CASE registry[j][tool] = registered[j] /\ tool \in lists[registered[j]]
        <4>1. j # id
          BY <2>2, <3>1, <3>3 DEF Tools!Sessions, Tools!None
        <4> QED BY <1>1, <2>1, <3>1, <3>3, <4>1
      <3> QED BY <3>1, <3>2, <3>3 DEF McpIInv, ToolsOpen, ToolsNamed
    <2> QED BY <2>3, <2>4, <2>5 DEF ToolsOpen
  <1>9. \E k \in Nat : Sofar(k)'
    BY <1>5
  <1> QED BY <1>4, <1>6, <1>7, <1>8, <1>9 DEF McpIInv

LEMMA DisconnectIInv == ASSUME McpIInv, Tools!DisconnectAll PROVE McpIInv'
  <1>0. PICK n \in Nat : Sofar(n)
    BY DEF McpIInv
  <1>1. PICK open : /\ life' = [s \in Tools!Sessions |-> IF s \in open THEN "closed" ELSE life[s]]
                    /\ peer' = peer \ open /\ exits' = exits \ open
                    /\ open \subseteq {sessionOf[id] : id \in {j \in Servers : sessionOf[j] # Tools!None}}
    BY DEF Tools!DisconnectAll
  <1>2. /\ connecting = Tools!NotConnecting /\ UNCHANGED <<todo, connecting, owner>>
        /\ status' = [id \in Servers |-> "absent"] /\ sessionOf' = [id \in Servers |-> Tools!None]
        /\ registered' = [id \in Servers |-> Tools!None]
        /\ over' /\ UNCHANGED <<lists, registry>>
    BY DEF Tools!DisconnectAll, Tools!AtPrompt
  <1>3. \A s \in open : s \in Tools!Sessions /\ life[s] # "none"
    BY <1>1 DEF McpIInv, McpShape, EntriesOpen, Good
  <1>4. \A s \in Tools!Sessions : life'[s] # "none" <=> life[s] # "none"
    BY <1>1, <1>3
  <1>5. McpShape'
    BY <1>1, <1>2 DEF McpIInv, McpShape
  <1>6. Sofar(n)'
    BY <1>0, <1>2, <1>4 DEF Sofar, Tools!NotConnecting
  <1>7. PeersOpen'
    BY <1>1, <1>4 DEF McpIInv, PeersOpen
  <1>8. EntriesOpen' /\ ToolsOpen'
    BY <1>2, <1>4 DEF McpIInv, EntriesOpen, ToolsOpen, ListedOnce, RegisteredOpen, ToolsNamed, UnderWay
  <1>9. \E k \in Nat : Sofar(k)'
    BY <1>6
  <1> QED BY <1>5, <1>7, <1>8, <1>9 DEF McpIInv

LEMMA McpStep == McpIInv /\ [Tools!Next]_mcpVars => McpIInv'
  <1> SUFFICES ASSUME McpIInv, [Tools!Next]_mcpVars PROVE McpIInv'  OBVIOUS
  <1> QED BY CommandIInv, ConnectedIInv, FailsIInv, RetryIInv, CallIInv, DieIInv,
             ServerExitIInv, DisconnectIInv DEF Tools!Next, mcpVars

-----------------------------------------------------------------------------
(***************************************************************************)
(* No session has two transcripts, for all sessions, messages and faults.  *)
(* A pin alone does not show it: a session may be unpinned and known, after *)
(* a restart.  What counts is that a session which is written to is pinned, *)
(* that a pin is where the row is, and that a row is made only for a session *)
(* that has none.                                                          *)
(***************************************************************************)
StoreShape ==
    /\ pinned \in [StoredSessions -> Store!Backends \cup {Store!Unpinned}]
    /\ row \in [Store!Backends -> SUBSET StoredSessions]
    /\ kept \in [Store!Backends -> [StoredSessions -> SUBSET Nat]]
    /\ told \in [StoredSessions -> SUBSET Nat]
    /\ sent \in [StoredSessions -> Nat]
    /\ known \subseteq StoredSessions

\* All of a session is in one store, and its pin, if it has one, is there.
LiesIn(s, b) ==
    /\ s \in row[b] /\ told[s] \subseteq kept[b][s] /\ s \notin row[Store!Other(b)]
    /\ pinned[s] \in {Store!Unpinned, b}

Sound(s) ==
    /\ s \in held => pinned[s] \in Store!Backends
    /\ sent[s] = 0 => told[s] = {}
    /\ s \in known \ doubled => \E b \in Store!Backends : LiesIn(s, b)

StoreIInv == StoreShape /\ \A s \in StoredSessions : Sound(s)

-----------------------------------------------------------------------------

LEMMA TwoStores ==
  /\ \A b \in Store!Backends : Store!Other(b) \in Store!Backends /\ Store!Other(b) # b
                               /\ \A c \in Store!Backends : c = b \/ c = Store!Other(b)
  /\ Store!Unpinned \notin Store!Backends
  BY DEF Store!Backends, Store!Other, Store!Unpinned

LEMMA StoreInit == Store!Init => StoreIInv
  BY DEF Store!Init, StoreIInv, StoreShape, Sound, Store!Backends

\* A step that leaves a session alone.
LEMMA LeftAlone ==
  ASSUME NEW s \in StoredSessions, Sound(s),
         pinned'[s] = pinned[s], told'[s] = told[s], sent'[s] = sent[s],
         \A b \in Store!Backends : kept'[b][s] = kept[b][s] /\ (s \in row'[b] <=> s \in row[b]),
         s \in held' <=> s \in held, s \in known' <=> s \in known, s \in doubled => s \in doubled'
  PROVE  Sound(s)'
  <1> USE TwoStores
  <1>1. ASSUME NEW b \in Store!Backends, LiesIn(s, b) PROVE LiesIn(s, b)'
    BY <1>1 DEF LiesIn
  <1> QED BY <1>1 DEF Sound

LEMMA PinShape ==
  ASSUME StoreIInv, NEW s \in StoredSessions, NEW b \in Store!Backends, Store!Pin(s, b)
  PROVE  /\ pinned' \in [StoredSessions -> Store!Backends \cup {Store!Unpinned}] /\ pinned'[s] \in Store!Backends
         /\ pinned[s] # Store!Unpinned => pinned'[s] = pinned[s]
         /\ pinned[s] = Store!Unpinned => pinned'[s] = b
         /\ \A q \in StoredSessions : q # s => pinned'[q] = pinned[q]
  BY DEF StoreIInv, StoreShape, Store!Pin

LEMMA CreateIInv == ASSUME StoreIInv, NEW s \in StoredSessions, Store!CreateSession(s) PROVE StoreIInv'
  <1> USE TwoStores
  <1>1. \E how \in Store!Outcomes(Store!Healthy) :
          LET into == (IF how # "refused" THEN {Store!Healthy} ELSE {})
                      \cup (IF how # "ok" THEN {"fallback"} ELSE {})
              pin == IF "fallback" \in into THEN "fallback" ELSE "primary" IN
          /\ row' = Store!Inserted(s, into) /\ pinned' = [pinned EXCEPT ![s] = pin]
          /\ doubled' = IF into = Store!Backends THEN doubled \cup {s} ELSE doubled
          /\ into \subseteq Store!Backends /\ pin \in into
    BY DEF Store!CreateSession, Store!Outcomes, Store!Healthy, Store!Backends
  <1>2. PICK into \in SUBSET Store!Backends, pin \in Store!Backends :
          /\ row' = Store!Inserted(s, into) /\ pinned' = [pinned EXCEPT ![s] = pin]
          /\ doubled' = IF into = Store!Backends THEN doubled \cup {s} ELSE doubled
          /\ pin \in into
    BY <1>1
  <1>3. /\ sent[s] = 0 /\ \A b \in Store!Backends : s \notin row[b]
        /\ held' = held \cup {s} /\ known' = known \cup {s}
        /\ UNCHANGED <<kept, told, sent>>
    BY DEF Store!CreateSession, Store!Backends
  <1>5. \A q \in StoredSessions, b \in Store!Backends : q \in row'[b] <=> q \in row[b] \/ (q = s /\ b \in into)
    BY <1>2 DEF Store!Inserted
  <1>6. StoreShape'
    BY <1>2, <1>3 DEF StoreIInv, StoreShape, Store!Inserted
  <1>7. ASSUME NEW q \in StoredSessions, q # s PROVE Sound(q)'
    BY <1>2, <1>3, <1>5, <1>7, LeftAlone DEF StoreIInv, StoreShape
  <1>8. Sound(s)'
    <2>1. pinned'[s] = pin /\ told'[s] = {} /\ s \in row'[pin]
      BY <1>2, <1>3, <1>5 DEF StoreIInv, StoreShape, Sound
    <2>2. into = Store!Backends \/ s \notin row'[Store!Other(pin)]
      <3>1. Store!Other(pin) \in into => into = Store!Backends
        BY <1>2
      <3> QED BY <1>3, <1>5, <3>1
    <2>3. s \notin doubled' => LiesIn(s, pin)'
      BY <1>2, <2>1, <2>2 DEF LiesIn
    <2> QED BY <2>1, <2>3 DEF Sound
  <1> QED BY <1>6, <1>7, <1>8 DEF StoreIInv

LEMMA SaveIInv == ASSUME StoreIInv, NEW s \in StoredSessions, Store!SaveMessage(s) PROVE StoreIInv'
  <1> USE TwoStores
  <1>1. pinned[s] \in Store!Backends /\ Store!BackendFor(s) = pinned[s]
    BY DEF Store!SaveMessage, StoreIInv, Sound, Store!BackendFor
  <1> DEFINE b == pinned[s]
             n == sent[s] + 1
  <1>2. /\ sent' = [sent EXCEPT ![s] = n]
        /\ UNCHANGED <<row, known, held, doubled>>
        /\ \E how \in Store!Outcomes(b) :
             /\ kept' = IF how # "refused" THEN Store!Stored(b, s) ELSE kept
             /\ told' = [told EXCEPT ![s] = IF how = "ok" THEN @ \cup {n} ELSE @]
             /\ IF how = "ok" THEN Store!Pin(s, b) ELSE UNCHANGED pinned
    BY <1>1 DEF Store!SaveMessage, Store!Save
  <1>3. pinned' = pinned
    BY <1>1, <1>2 DEF Store!Pin, StoreIInv, StoreShape
  <1>4. n \in Nat \ {0}
    BY DEF StoreIInv, StoreShape
  <1>5. PICK how \in Store!Outcomes(b) :
          /\ kept' = IF how # "refused" THEN Store!Stored(b, s) ELSE kept
          /\ told' = [told EXCEPT ![s] = IF how = "ok" THEN @ \cup {n} ELSE @]
    BY <1>2
  <1>6. kept' = kept \/ (s \in row[b] /\ kept' = [kept EXCEPT ![b][s] = @ \cup {n}])
    BY <1>5 DEF Store!Stored
  <1>7. StoreShape'
    <2>1. kept' \in [Store!Backends -> [StoredSessions -> SUBSET Nat]]
      <3>1. kept[b][s] \cup {n} \in SUBSET Nat /\ kept[b] \in [StoredSessions -> SUBSET Nat]
        BY <1>1, <1>4 DEF StoreIInv, StoreShape
      <3>2. [kept[b] EXCEPT ![s] = @ \cup {n}] \in [StoredSessions -> SUBSET Nat]
        BY <3>1
      <3> QED BY <1>1, <1>6, <3>2 DEF StoreIInv, StoreShape
    <2>2. told' \in [StoredSessions -> SUBSET Nat]
      BY <1>4, <1>5 DEF StoreIInv, StoreShape
    <2> QED BY <1>2, <1>3, <1>4, <2>1, <2>2 DEF StoreIInv, StoreShape
  <1>8. \A c \in Store!Backends, q \in StoredSessions :
          kept[c][q] \subseteq kept'[c][q] /\ (q # s => kept'[c][q] = kept[c][q])
    BY <1>1, <1>6 DEF StoreIInv, StoreShape
  <1>9. ASSUME NEW q \in StoredSessions, q # s PROVE Sound(q)'
    BY <1>2, <1>3, <1>5, <1>8, <1>9, LeftAlone DEF StoreIInv, StoreShape
  <1>10. Sound(s)'
    <2>1. ASSUME NEW c \in Store!Backends, LiesIn(s, c) PROVE LiesIn(s, c)'
      <3>1. c = b /\ s \in row[b]
        BY <1>1, <2>1 DEF LiesIn
      <3>2. CASE how = "ok"
        <4>1. n \in kept'[b][s] /\ told'[s] = told[s] \cup {n}
          BY <1>1, <1>5, <3>1, <3>2 DEF StoreIInv, StoreShape, Store!Stored
        <4> QED BY <1>2, <1>3, <1>8, <2>1, <3>1, <4>1 DEF LiesIn
      <3>3. CASE how # "ok"
        <4>1. told'[s] = told[s]
          BY <1>5, <3>3 DEF StoreIInv, StoreShape
        <4> QED BY <1>2, <1>3, <1>8, <2>1, <4>1 DEF LiesIn
      <3> QED BY <3>2, <3>3
    <2>2. sent'[s] # 0
      BY <1>2, <1>4 DEF StoreIInv, StoreShape
    <2> QED BY <1>2, <1>3, <2>1, <2>2 DEF StoreIInv, Sound
  <1> QED BY <1>7, <1>9, <1>10 DEF StoreIInv

LEMMA HydrateIInv == ASSUME StoreIInv, NEW s \in StoredSessions, Store!GetSessionHydration(s) PROVE StoreIInv'
  <1> USE TwoStores
  <1>0. UNCHANGED <<row, kept, known, told, sent, doubled>>
    BY DEF Store!GetSessionHydration
  <1>1. CASE UNCHANGED <<pinned, held>>
    <2>1. StoreShape'
      BY <1>0, <1>1 DEF StoreIInv, StoreShape
    <2> QED BY <1>0, <1>1, <2>1, LeftAlone DEF StoreIInv
  <1>2. CASE ~UNCHANGED <<pinned, held>>
    <2>1. (\E b \in Store!Backends : Store!Answers(b, s))
      BY <1>2 DEF Store!GetSessionHydration
    <2> DEFINE first == Store!ProbedFirst(s)
               found == CHOOSE b \in Store!Backends : Store!Answers(b, s) /\ (b = first \/ ~Store!Answers(first, s))
    <2>2. found \in Store!Backends /\ Store!Answers(found, s)
      <3>1. \E b \in Store!Backends : Store!Answers(b, s) /\ (b = first \/ ~Store!Answers(first, s))
        <4>1. first \in Store!Backends
          BY DEF Store!ProbedFirst, Store!BackendFor, Store!Healthy, Store!Backends, StoreIInv, StoreShape,
                 Store!Unpinned
        <4> HIDE DEF first
        <4> QED BY <2>1, <4>1
      <3> HIDE DEF first
      <3> QED BY <3>1
    <2>3. Store!Pin(s, found) /\ held' = held \cup {s}
      BY <2>1 DEF Store!GetSessionHydration
    <2> HIDE DEF found
    <2>4. s \in row[found]
      BY <2>2 DEF Store!Answers
    <2>5. StoreShape'
      BY <1>0, <2>2, <2>3, PinShape DEF StoreIInv, StoreShape
    <2>6. ASSUME NEW q \in StoredSessions, q # s PROVE Sound(q)'
      BY <1>0, <2>2, <2>3, <2>6, PinShape, LeftAlone DEF StoreIInv
    <2>7. ASSUME NEW b \in Store!Backends, LiesIn(s, b) PROVE LiesIn(s, b)'
      BY <1>0, <2>2, <2>3, <2>4, <2>7, PinShape DEF LiesIn
    <2>8. Sound(s)'
      BY <1>0, <2>2, <2>3, <2>7, PinShape DEF Sound, StoreIInv
    <2> QED BY <2>5, <2>6, <2>8 DEF StoreIInv
  <1> QED BY <1>1, <1>2

\* What a deletion may do to the rows, the pin and what is known of a session.
LEMMA Deleted ==
  ASSUME StoreIInv, NEW s \in StoredSessions,
         UNCHANGED <<told, sent, doubled>>,
         kept' = [b \in Store!Backends |-> [kept[b] EXCEPT ![s] = IF s \in row'[b] THEN @ ELSE {}]],
         row' \in [Store!Backends -> SUBSET StoredSessions],
         \A b \in Store!Backends : row'[b] = row[b] \/ row'[b] = row[b] \ {s},
         pinned' \in [StoredSessions -> Store!Backends \cup {Store!Unpinned}],
         \A q \in StoredSessions : q # s => pinned'[q] = pinned[q],
         pinned'[s] \in {pinned[s], Store!Unpinned},
         known' \in {known, known \ {s}}, held' \in {held, held \ {s}},
         s \in held' => pinned'[s] = pinned[s],
         s \in known' => \A b \in Store!Backends : LiesIn(s, b) => s \in row'[b]
  PROVE  StoreIInv'
  <1> USE TwoStores
  <1>1. StoreShape'
    BY DEF StoreIInv, StoreShape
  <1>2. \A b \in Store!Backends, q \in StoredSessions :
          kept'[b][q] = kept[b][q] \/ (q = s /\ s \notin row'[b])
    BY DEF StoreIInv, StoreShape
  <1>3. ASSUME NEW q \in StoredSessions, q # s PROVE Sound(q)'
    BY <1>2, <1>3, LeftAlone DEF StoreIInv
  <1>4. ASSUME NEW b \in Store!Backends, LiesIn(s, b), s \in row'[b] PROVE LiesIn(s, b)'
    BY <1>2, <1>4 DEF LiesIn
  <1>5. Sound(s)'
    BY <1>4 DEF StoreIInv, Sound
  <1> QED BY <1>1, <1>3, <1>5 DEF StoreIInv

LEMMA DeleteIInv == ASSUME StoreIInv, NEW s \in StoredSessions, Store!DeleteSession(s) PROVE StoreIInv'
  <1> USE TwoStores
  <1>0. /\ UNCHANGED <<told, sent, doubled>>
        /\ kept' = [b \in Store!Backends |-> [kept[b] EXCEPT ![s] = IF s \in row'[b] THEN @ ELSE {}]]
    BY DEF Store!DeleteSession
  <1>1. CASE pinned[s] # Store!Unpinned
    <2>1. PICK how \in Store!Outcomes(pinned[s]) :
            /\ row' = [row EXCEPT ![pinned[s]] = IF how = "refused" THEN @ ELSE @ \ {s}]
            /\ pinned' = [pinned EXCEPT ![s] = IF how = "ok" THEN Store!Unpinned ELSE @]
            /\ known' = IF how = "refused" THEN known ELSE known \ {s}
            /\ held' = IF how = "ok" THEN held \ {s} ELSE held
      BY <1>1 DEF Store!DeleteSession
    <2>2. how = "refused" => row' = row
      BY <2>1 DEF StoreIInv, StoreShape
    <2>3. /\ row' \in [Store!Backends -> SUBSET StoredSessions]
          /\ \A b \in Store!Backends : row'[b] = row[b] \/ row'[b] = row[b] \ {s}
      BY <1>1, <2>1 DEF StoreIInv, StoreShape
    <2>4. /\ pinned' \in [StoredSessions -> Store!Backends \cup {Store!Unpinned}]
          /\ \A q \in StoredSessions : q # s => pinned'[q] = pinned[q]
          /\ pinned'[s] \in {pinned[s], Store!Unpinned}
          /\ s \in held' => pinned'[s] = pinned[s]
      BY <1>1, <2>1 DEF StoreIInv, StoreShape
    <2>5. s \in known' => \A b \in Store!Backends : LiesIn(s, b) => s \in row'[b]
      BY <2>1, <2>2 DEF LiesIn
    <2> QED BY <1>0, <2>1, <2>3, <2>4, <2>5, Deleted
  <1>2. CASE pinned[s] = Store!Unpinned
    <2>1. /\ row' = [b \in Store!Backends |-> IF b = "primary" /\ ~reach THEN row[b] ELSE row[b] \ {s}]
          /\ known' = IF \E b \in Store!Backends : s \in row'[b] THEN known ELSE known \ {s}
          /\ UNCHANGED <<pinned, held>>
      BY <1>2 DEF Store!DeleteSession
    <2>2. s \notin held
      BY <1>2 DEF StoreIInv, Sound
    <2> QED BY <1>2, <2>1, <2>2, <1>0, Deleted DEF StoreIInv, StoreShape, LiesIn
  <1> QED BY <1>1, <1>2

LEMMA OutsideIInv ==
  ASSUME StoreIInv, Store!Connection \/ Store!CoolsDown \/ Store!Restart \/ UNCHANGED storeVars
  PROVE  StoreIInv'
  <1> USE TwoStores
  <1>0. UNCHANGED <<row, kept, known, told, sent, doubled>>
    BY DEF Store!Connection, Store!CoolsDown, Store!Restart, storeVars
  <1>1. CASE UNCHANGED <<pinned, held>>
    <2>1. StoreShape'
      BY <1>0, <1>1 DEF StoreIInv, StoreShape
    <2> QED BY <1>0, <1>1, <2>1, LeftAlone DEF StoreIInv
  <1>2. CASE Store!Restart
    <2>1. pinned' = [s \in StoredSessions |-> Store!Unpinned] /\ held' = {}
      BY <1>2 DEF Store!Restart
    <2>2. StoreShape'
      BY <1>0, <2>1 DEF StoreIInv, StoreShape
    <2>3. ASSUME NEW s \in StoredSessions PROVE Sound(s)'
      <3>1. ASSUME NEW b \in Store!Backends, LiesIn(s, b) PROVE LiesIn(s, b)'
        BY <1>0, <2>1, <3>1 DEF LiesIn
      <3> QED BY <1>0, <2>1, <3>1 DEF StoreIInv, Sound
    <2> QED BY <2>2, <2>3 DEF StoreIInv
  <1> QED BY <1>1, <1>2 DEF Store!Connection, Store!CoolsDown, storeVars

LEMMA StoreStep == StoreIInv /\ [Store!Next]_storeVars => StoreIInv'
  BY CreateIInv, SaveIInv, HydrateIInv, DeleteIInv, OutsideIInv DEF Store!Next

-----------------------------------------------------------------------------
(* The plan on disk: what is published has been accepted, and what drops a  *)
(* step is not.                                                             *)

LEMMA PublishedSteps ==
  ASSUME NEW raws, NEW existing
  PROVE  Plan!Ids(Plan!Built(raws, existing).steps) = {raws[i].id : i \in DOMAIN raws}
  BY DEF Plan!Ids, Plan!Built, Plan!MergedStep

LEMMA PlanStep ==
  ASSUME Plan!Next \/ UNCHANGED planVars, writing = Plan!NoJson, writing' # Plan!NoJson
  PROVE  unread' \/ Plan!Ids(Plan!Parsed.steps) \subseteq Plan!Ids(writing'.steps)
<1>1. PICK raws \in Calls : Plan!UpdatePlan(raws)
  BY DEF planVars, Plan!Next, Plan!WriteSidecar, Plan!Die, Plan!PlanWriteFails, Plan!WriteByHand,
         Plan!RestorePlan, Plan!ExecutePlan, Plan!Refresh
<1>2. PICK existing \in {Plan!Existing, <<>>} :
        Plan!Read(existing) /\ writing' = Plan!Built(raws, existing) /\ Plan!Accepts(raws, existing)
  BY <1>1 DEF Plan!UpdatePlan
<1>3. Plan!Ids(existing) \subseteq {raws[i].id : i \in DOMAIN raws}
  BY <1>2 DEF Plan!Accepts, Plan!DropsNothing
<1>4. unread' \/ existing = Plan!Existing
  BY <1>2 DEF Plan!Read
<1> QED BY <1>2, <1>3, <1>4, PublishedSteps DEF Plan!Existing

-----------------------------------------------------------------------------
(* The accounts.  A turn is admitted on one balance and debited on another,  *)
(* so what counts is that each transaction looks at the row it changes, and  *)
(* that a handler which grants, and a turn which is debited, have a row to   *)
(* change by then.                                                           *)

Stages == {"idle", "count", "create", "grant", "approve"}

Account == [credits : Int, used : Int]

Work == [at : Stages, id : Identities \cup {Nobody}, code : Codes \cup {Nobody}, abused : BOOLEAN]

Shape ==
    /\ users \in [Identities -> Account]
    /\ ledger \in [Identities -> Seq(Int \X Int)]
    /\ handler \in [Handlers -> Work]
    /\ turn \in [Turns -> Identities \cup {Nobody}]

\* An approval is somebody's, and grants to a row that is there.
HandlersKnow ==
    \A h \in Handlers :
      /\ handler[h].at # "idle" => handler[h].id \in Identities
      /\ handler[h].at = "grant" => Known(handler[h].id)

TurnsKnow == \A t \in Turns : turn[t] # Nobody => turn[t] \in Identities /\ Known(turn[t])

\* The balance after the first k rows of a ledger.
After(book, k) == IF k = 0 THEN 0 ELSE book[k][2]

\* A balance, and the ledger that adds up to it.
Reconciled(user, book) ==
    /\ user.credits >= 0 /\ user.credits = After(book, Len(book))
    /\ \A k \in DOMAIN book : book[k][2] = After(book, k - 1) + book[k][1]

BooksKept ==
    \A id \in Identities :
      IF Known(id) THEN Reconciled(users[id], ledger[id]) ELSE ledger[id] = <<>>

AccountIInv == Shape /\ HandlersKnow /\ TurnsKnow /\ BooksKept

-----------------------------------------------------------------------------
(* A transaction. *)

\* One more row, on the balance that is there.
LEMMA OneMoreRow ==
  ASSUME NEW book \in Seq(Int \X Int), NEW user \in Account, Reconciled(user, book),
         NEW delta \in Int, NEW next \in Account,
         next.credits = user.credits + delta, next.credits >= 0
  PROVE  /\ Append(book, <<delta, user.credits + delta>>) \in Seq(Int \X Int)
         /\ Reconciled(next, Append(book, <<delta, user.credits + delta>>))
  <1> DEFINE line == <<delta, user.credits + delta>>
             longer == Append(book, line)
  <1>1. line \in Int \X Int /\ line[1] = delta /\ line[2] = user.credits + delta
    BY DEF Account
  <1> HIDE DEF line
  <1>2. /\ longer \in Seq(Int \X Int) /\ Len(longer) = Len(book) + 1
        /\ longer[Len(book) + 1] = line
        /\ \A k \in DOMAIN book : longer[k] = book[k]
        /\ DOMAIN longer = DOMAIN book \cup {Len(book) + 1}
    BY <1>1
  <1> HIDE DEF longer
  <1>3. After(longer, Len(longer)) = next.credits
    BY <1>1, <1>2 DEF After
  <1>4. \A k \in DOMAIN book : After(longer, k - 1) = After(book, k - 1)
    <2> SUFFICES ASSUME NEW k \in DOMAIN book PROVE After(longer, k - 1) = After(book, k - 1)
      OBVIOUS
    <2>1. k \in Nat /\ (k - 1 = 0 \/ k - 1 \in DOMAIN book)
      OBVIOUS
    <2> QED BY <1>2, <2>1 DEF After
  <1>5. After(longer, Len(book)) = user.credits
    BY <1>2, SMTT(30) DEF After, Reconciled
  <1>6. \A k \in DOMAIN longer : longer[k][2] = After(longer, k - 1) + longer[k][1]
    <2>1. \A k \in DOMAIN book : longer[k][2] = After(longer, k - 1) + longer[k][1]
      BY <1>2, <1>4 DEF Reconciled
    <2>2. longer[Len(book) + 1][2] = After(longer, Len(book)) + longer[Len(book) + 1][1]
      BY <1>1, <1>2, <1>5 DEF Account
    <2> QED BY <1>2, <2>1, <2>2
  <1>7. Reconciled(next, longer)
    BY <1>3, <1>6 DEF Reconciled
  <1> QED BY <1>2, <1>7 DEF longer, line

LEMMA AccountUpdates ==
  \A w \in Account, a, b \in Int :
    [[w EXCEPT !.credits = a] EXCEPT !.used = b] = [credits |-> a, used |-> b]
  <1>1. ASSUME NEW w \in Account, NEW a \in Int PROVE [w EXCEPT !.credits = a] \in Account
    BY DEF Account
  <1>2. ASSUME NEW w \in Account, NEW b \in Int
        PROVE  [w EXCEPT !.used = b] = [credits |-> w.credits, used |-> b]
    BY DEF Account
  <1>3. ASSUME NEW w \in Account, NEW a \in Int PROVE [w EXCEPT !.credits = a].credits = a
    BY DEF Account
  <1> SUFFICES ASSUME NEW w \in Account, NEW a \in Int, NEW b \in Int
               PROVE  [[w EXCEPT !.credits = a] EXCEPT !.used = b] = [credits |-> a, used |-> b]
    OBVIOUS
  <1>4. PICK mid \in Account : mid = [w EXCEPT !.credits = a]
    BY <1>1
  <1>5. [mid EXCEPT !.used = b] = [credits |-> mid.credits, used |-> b] /\ mid.credits = a
    BY <1>2, <1>3, <1>4
  <1> QED BY <1>4, <1>5

\* A row that is there may be changed by what its balance covers.
LEMMA BookKeeps ==
  ASSUME Shape, BooksKept, NEW id \in Identities, Known(id),
         NEW delta \in Int, NEW spent \in Int, users[id].credits + delta >= 0,
         Book(id, delta, spent)
  PROVE  /\ users' \in [Identities -> Account] /\ ledger' \in [Identities -> Seq(Int \X Int)]
         /\ \A i \in Identities : Known(i)' <=> Known(i)
         /\ BooksKept'
  <1> DEFINE next == [credits |-> users[id].credits + delta, used |-> users[id].used + spent]
  <1>0. users[id] \in Account /\ ledger[id] \in Seq(Int \X Int) /\ Reconciled(users[id], ledger[id])
    BY DEF Shape, BooksKept
  <1>1. /\ next \in Account /\ next.credits = users[id].credits + delta
        /\ next # NoUser
    BY <1>0 DEF Account, NoUser
  <1>2. users' = [users EXCEPT ![id] = next]
    <2>1. PICK user \in Account : users[id] = user
      BY <1>0
    <2>2. \A a, b \in Int :
            [[user EXCEPT !.credits = a] EXCEPT !.used = b] = [credits |-> a, used |-> b]
      BY AccountUpdates
    <2>3. users' = [users EXCEPT ![id] =
                      [[user EXCEPT !.credits = user.credits + delta] EXCEPT !.used = user.used + spent]]
      BY <2>1 DEF Book, Shape, Account
    <2>4. user.credits + delta \in Int /\ user.used + spent \in Int
      BY DEF Account
    <2> QED BY <2>1, <2>2, <2>3, <2>4 DEF next
  <1>3. ledger' = [ledger EXCEPT ![id] = Append(ledger[id], <<delta, users[id].credits + delta>>)]
    BY DEF Book
  <1> HIDE DEF next
  <1>4. /\ Append(ledger[id], <<delta, users[id].credits + delta>>) \in Seq(Int \X Int)
        /\ Reconciled(next, Append(ledger[id], <<delta, users[id].credits + delta>>))
    BY <1>0, <1>1, OneMoreRow
  <1>5. users' \in [Identities -> Account] /\ ledger' \in [Identities -> Seq(Int \X Int)]
    BY <1>1, <1>2, <1>3, <1>4 DEF Shape
  <1>6. /\ users'[id] = next /\ Reconciled(users'[id], ledger'[id])
        /\ \A i \in Identities : i # id => users'[i] = users[i] /\ ledger'[i] = ledger[i]
    BY <1>2, <1>3, <1>4 DEF Shape
  <1>7. \A i \in Identities : Known(i)' <=> Known(i)
    BY <1>1, <1>6 DEF Known
  <1>8. BooksKept'
    BY <1>6, <1>7 DEF BooksKept
  <1> QED BY <1>5, <1>7, <1>8

-----------------------------------------------------------------------------
(* The invariant. *)

LEMMA AccountInit == Init => AccountIInv
  <1> SUFFICES ASSUME Init PROVE AccountIInv  OBVIOUS
  <1>1. Shape
    BY DEF Init, Shape, Account, NoUser, Work, Stages, IdleHandler
  <1>2. HandlersKnow /\ TurnsKnow
    BY DEF Init, HandlersKnow, TurnsKnow, IdleHandler
  <1>3. BooksKept
    BY DEF Init, BooksKept, Known
  <1> QED BY <1>1, <1>2, <1>3 DEF AccountIInv

\* What leaves the rows alone keeps the books.
LEMMA SameRows ==
  ASSUME AccountIInv, UNCHANGED <<users, ledger>>
  PROVE  /\ users' \in [Identities -> Account] /\ ledger' \in [Identities -> Seq(Int \X Int)]
         /\ BooksKept' /\ \A i : Known(i)' <=> Known(i)
  BY DEF AccountIInv, Shape, BooksKept, Known

LEMMA TerminalIInv ==
  ASSUME AccountIInv, UNCHANGED <<users, ledger, handler, turn>>
  PROVE  AccountIInv'
  BY SameRows DEF AccountIInv, Shape, HandlersKnow, TurnsKnow

\* A handler goes on with its identity.
LEMMA GoOn ==
  ASSUME AccountIInv, NEW h \in Handlers, NEW w \in Work, handler' = [handler EXCEPT ![h] = w],
         w.at # "idle" => w.id \in Identities,
         w.at = "grant" => Known(w.id)',
         \A i \in Identities : Known(i) => Known(i)'
  PROVE  handler' \in [Handlers -> Work] /\ HandlersKnow'
  <1>1. \A g \in Handlers : handler'[g] = IF g = h THEN w ELSE handler[g]
    BY DEF AccountIInv, Shape
  <1>2. handler' \in [Handlers -> Work]
    BY DEF AccountIInv, Shape
  <1>3. ASSUME NEW g \in Handlers
        PROVE  /\ handler[g]'.at # "idle" => handler[g]'.id \in Identities
               /\ (handler[g].at = "grant" => Known(handler[g].id))'
    <2>1. CASE g = h
      BY <1>1, <2>1
    <2>2. CASE g # h
      <3>1. handler[g].at = "grant" => handler[g].id \in Identities /\ Known(handler[g].id)
        BY DEF AccountIInv, HandlersKnow
      <3> QED BY <1>1, <2>2, <3>1 DEF AccountIInv, HandlersKnow
    <2> QED BY <2>1, <2>2
  <1> QED BY <1>2, <1>3 DEF HandlersKnow

LEMMA WorkUpdates ==
  ASSUME NEW w \in Work, NEW at \in Stages, NEW abused \in BOOLEAN
  PROVE  [[w EXCEPT !.at = at] EXCEPT !.abused = abused]
            = [at |-> at, id |-> w.id, code |-> w.code, abused |-> abused]
  <1>1. [w EXCEPT !.at = at] \in Work
    BY DEF Work
  <1>2. PICK mid \in Work : mid = [w EXCEPT !.at = at]
    BY <1>1
  <1>3. mid.at = at /\ mid.id = w.id /\ mid.code = w.code
    BY <1>2 DEF Work
  <1>4. [mid EXCEPT !.abused = abused]
          = [at |-> mid.at, id |-> mid.id, code |-> mid.code, abused |-> abused]
    BY DEF Work
  <1> QED BY <1>2, <1>3, <1>4

\* The same handler, elsewhere.
LEMMA GotoMoves ==
  ASSUME Shape, NEW h \in Handlers, NEW at \in Stages, NEW abused \in BOOLEAN,
         handler' = [handler EXCEPT ![h].at = at, ![h].abused = abused]
  PROVE  \E w \in Work : w.at = at /\ w.id = handler[h].id /\ handler' = [handler EXCEPT ![h] = w]
  <1> DEFINE w == [at |-> at, id |-> handler[h].id, code |-> handler[h].code, abused |-> abused]
  <1>1. PICK old \in Work : handler[h] = old
    BY DEF Shape
  <1>2. w \in Work
    BY <1>1 DEF Work
  <1>3. [[old EXCEPT !.at = at] EXCEPT !.abused = abused]
          = [at |-> at, id |-> old.id, code |-> old.code, abused |-> abused]
    BY WorkUpdates
  <1>4. handler' = [handler EXCEPT ![h] = w]
    BY <1>1, <1>3 DEF Shape
  <1> QED BY <1>2, <1>4

LEMMA GotoIs ==
  ASSUME Shape, NEW h \in Handlers, NEW at \in Stages, Goto(h, at)
  PROVE  \E w \in Work : w.at = at /\ w.id = handler[h].id /\ handler' = [handler EXCEPT ![h] = w]
  <1>1. PICK old \in Work : handler[h] = old
    BY DEF Shape
  <1>2. PICK w \in Work : w = [old EXCEPT !.at = at]
    BY DEF Work
  <1>3. w.at = at /\ w.id = old.id
    BY <1>2 DEF Work
  <1> QED BY <1>1, <1>2, <1>3 DEF Goto, Shape

LEMMA HandlerIInv ==
  ASSUME AccountIInv, NEW h \in Handlers,
         \/ \E id \in Identities, c \in Codes : ApproveDevice(h, id, c)
         \/ CountSignupSignals(h) \/ CreateUser(h) \/ GrantOrFlag(h) \/ ApproveDeviceCode(h)
  PROVE  AccountIInv'
  <1>0. /\ handler[h] \in Work /\ Shape
        /\ handler[h].at # "idle" => handler[h].id \in Identities
    BY DEF AccountIInv, Shape, HandlersKnow
  <1>1. ASSUME NEW id \in Identities, NEW c \in Codes, ApproveDevice(h, id, c) PROVE AccountIInv'
    <2>1. UNCHANGED <<users, ledger, turn>>
      BY <1>1 DEF ApproveDevice
    <2>2. PICK w \in Work : w.at # "grant" /\ w.id = id /\ handler' = [handler EXCEPT ![h] = w]
      <3> DEFINE w == [at |-> IF Known(id) THEN "approve" ELSE "count", id |-> id,
                       code |-> c, abused |-> FALSE]
      <3>1. w \in Work /\ w.at # "grant" /\ w.id = id
        BY DEF Work, Stages
      <3>2. handler' = [handler EXCEPT ![h] = w]
        BY <1>1 DEF ApproveDevice
      <3> QED BY <3>1, <3>2
    <2>3. handler' \in [Handlers -> Work] /\ HandlersKnow'
      BY <2>1, <2>2, GoOn, SameRows
    <2> QED BY <2>1, <2>3, SameRows DEF AccountIInv, Shape, TurnsKnow
  <1>2. CASE CountSignupSignals(h)
    <2>1. UNCHANGED <<users, ledger, turn>> /\ handler[h].at = "count"
      BY <1>2 DEF CountSignupSignals
    <2>2. PICK w \in Work : w.at = "create" /\ w.id = handler[h].id /\ handler' = [handler EXCEPT ![h] = w]
      <3> DEFINE many == Cardinality({id \in Identities : Known(id)}) >= MaxAccounts
      <3>1. many \in BOOLEAN /\ "create" \in Stages
        BY DEF Stages
      <3>2. handler' = [handler EXCEPT ![h].at = "create", ![h].abused = many]
        BY <1>2 DEF CountSignupSignals
      <3> HIDE DEF many
      <3> QED BY <1>0, <3>1, <3>2, GotoMoves
    <2>3. handler' \in [Handlers -> Work] /\ HandlersKnow'
      BY <1>0, <2>1, <2>2, GoOn, SameRows
    <2> QED BY <2>1, <2>3, SameRows DEF AccountIInv, Shape, TurnsKnow
  <1>3. CASE CreateUser(h)
    <2>0. PICK id \in Identities : id = handler[h].id
      BY <1>0, <1>3 DEF CreateUser
    <2>1. UNCHANGED <<ledger, turn>>
      BY <1>3 DEF CreateUser
    <2>2. PICK w \in Work : w.at = "grant" /\ w.id = id /\ handler' = [handler EXCEPT ![h] = w]
      BY <1>0, <1>3, <2>0, GotoIs DEF CreateUser, Stages
    <2>3. users' = IF Known(id) THEN users ELSE [users EXCEPT ![id] = [credits |-> 0, used |-> 0]]
      BY <1>3, <2>0 DEF CreateUser
    <2>4. /\ users' \in [Identities -> Account]
          /\ \A i \in Identities : i # id \/ Known(id) => users'[i] = users[i]
      BY <1>0, <2>1, <2>3 DEF Shape, Account
    <2>5. Known(id)' /\ (~Known(id) => users'[id] = [credits |-> 0, used |-> 0])
      BY <1>0, <2>1, <2>3 DEF Shape, Known, NoUser
    <2>6. \A i \in Identities : Known(i) => Known(i)'
      BY <2>4, <2>5 DEF Known
    <2>7. handler' \in [Handlers -> Work] /\ HandlersKnow'
      BY <2>1, <2>2, <2>5, <2>6, GoOn
    <2>8. BooksKept'
      <3> SUFFICES ASSUME NEW i \in Identities
                   PROVE  (IF Known(i) THEN Reconciled(users[i], ledger[i]) ELSE ledger[i] = <<>>)'
        BY DEF BooksKept
      <3>1. CASE i = id /\ ~Known(id)
        BY <2>1, <2>5, <3>1 DEF AccountIInv, BooksKept, Reconciled, After
      <3>2. CASE ~(i = id /\ ~Known(id))
        BY <2>1, <2>4, <3>2 DEF AccountIInv, BooksKept, Known
      <3> QED BY <3>1, <3>2
    <2>9. TurnsKnow'
      BY <2>1, <2>6 DEF AccountIInv, TurnsKnow
    <2> QED BY <1>0, <2>1, <2>4, <2>7, <2>8, <2>9 DEF AccountIInv, Shape
  <1>4. CASE GrantOrFlag(h)
    <2>1. handler[h].at = "grant" /\ handler[h].id \in Identities /\ Known(handler[h].id)
          /\ UNCHANGED turn
      BY <1>0, <1>4 DEF GrantOrFlag, AccountIInv, HandlersKnow
    <2>2. PICK w \in Work : w.at = "approve" /\ w.id = handler[h].id /\ handler' = [handler EXCEPT ![h] = w]
      BY <1>0, <1>4, GotoIs DEF GrantOrFlag, Stages
    <2>3. /\ users' \in [Identities -> Account] /\ ledger' \in [Identities -> Seq(Int \X Int)]
          /\ \A i \in Identities : Known(i)' <=> Known(i)
          /\ BooksKept'
      <3>1. CASE UNCHANGED <<users, ledger>>
        BY <3>1, SameRows
      <3>2. CASE Book(handler[h].id, Bonus, 0)
        <4>1. Bonus \in Int /\ users[handler[h].id].credits + Bonus >= 0
          BY <1>0, <2>1, BonusIsAGift DEF AccountIInv, BooksKept, Reconciled, Shape, Account
        <4> QED BY <1>0, <2>1, <3>2, <4>1, BookKeeps DEF AccountIInv
      <3> QED BY <1>4, <3>1, <3>2 DEF GrantOrFlag
    <2>4. handler' \in [Handlers -> Work] /\ HandlersKnow'
      BY <1>0, <2>1, <2>2, <2>3, GoOn
    <2> QED BY <1>0, <2>1, <2>3, <2>4 DEF AccountIInv, Shape, TurnsKnow
  <1>5. CASE ApproveDeviceCode(h)
    <2>1. UNCHANGED <<users, ledger, turn>> /\ handler' = [handler EXCEPT ![h] = IdleHandler]
      BY <1>5 DEF ApproveDeviceCode
    <2>2. IdleHandler \in Work /\ IdleHandler.at = "idle"
      BY DEF IdleHandler, Work, Stages
    <2> HIDE DEF IdleHandler
    <2>3. handler' \in [Handlers -> Work] /\ HandlersKnow'
      BY <2>1, <2>2, GoOn, SameRows
    <2> QED BY <2>1, <2>3, SameRows DEF AccountIInv, Shape, TurnsKnow
  <1> QED BY <1>1, <1>2, <1>3, <1>4, <1>5

LEMMA TurnIInv ==
  ASSUME AccountIInv, NEW t \in Turns,
         \/ \E id \in Identities : StartTurn(t, id)
         \/ \E cost \in 0..MaxCost : DebitCredits(t, cost)
  PROVE  AccountIInv'
  <1>1. ASSUME NEW id \in Identities, StartTurn(t, id) PROVE AccountIInv'
    <2>1. UNCHANGED <<users, ledger, handler>> /\ Known(id) /\ turn' = [turn EXCEPT ![t] = id]
      BY <1>1 DEF StartTurn
    <2>2. turn' \in [Turns -> Identities \cup {Nobody}] /\ TurnsKnow'
      BY <2>1, SameRows DEF AccountIInv, Shape, TurnsKnow
    <2> QED BY <2>1, <2>2, SameRows DEF AccountIInv, Shape, HandlersKnow
  <1>2. ASSUME NEW cost \in 0..MaxCost, DebitCredits(t, cost) PROVE AccountIInv'
    <2>1. /\ turn[t] \in Identities /\ Known(turn[t]) /\ UNCHANGED handler
          /\ turn' = [turn EXCEPT ![t] = Nobody]
      BY <1>2 DEF DebitCredits, AccountIInv, TurnsKnow
    <2>2. /\ users' \in [Identities -> Account] /\ ledger' \in [Identities -> Seq(Int \X Int)]
          /\ \A i \in Identities : Known(i)' <=> Known(i)
          /\ BooksKept'
      <3>1. CASE UNCHANGED <<users, ledger>>
        BY <3>1, SameRows
      <3>2. CASE Covers(turn[t], cost) /\ Book(turn[t], -cost, cost)
        <4>1. -cost \in Int /\ cost \in Int /\ users[turn[t]].credits + (-cost) >= 0
          BY <2>1, <3>2 DEF Covers, AccountIInv, Shape, Account
        <4> QED BY <2>1, <3>2, <4>1, BookKeeps DEF AccountIInv
      <3> QED BY <1>2, <3>1, <3>2 DEF DebitCredits
    <2>3. turn' \in [Turns -> Identities \cup {Nobody}] /\ TurnsKnow'
      BY <2>1, <2>2 DEF AccountIInv, Shape, TurnsKnow
    <2> QED BY <2>1, <2>2, <2>3 DEF AccountIInv, Shape, HandlersKnow
  <1> QED BY <1>1, <1>2

LEMMA ServerDiesKeeps == ASSUME AccountIInv, Die PROVE AccountIInv'
  <1>1. IdleHandler \in Work /\ IdleHandler.at = "idle"
    BY DEF IdleHandler, Work, Stages
  <1>2. UNCHANGED <<users, ledger>> /\ handler' = [h \in Handlers |-> IdleHandler]
        /\ turn' = [t \in Turns |-> Nobody]
    BY DEF Die
  <1> QED BY <1>1, <1>2, SameRows DEF AccountIInv, Shape, HandlersKnow, TurnsKnow

LEMMA AccountStep == AccountIInv /\ [Next]_accountVars => AccountIInv'
  <1> SUFFICES ASSUME AccountIInv, [Next]_accountVars PROVE AccountIInv'  OBVIOUS
  <1>1. CASE UNCHANGED accountVars
    BY <1>1, TerminalIInv DEF accountVars
  <1>2. ASSUME NEW c \in Codes, StartDeviceCode(c) \/ Expire(c) PROVE AccountIInv'
    BY <1>2, TerminalIInv DEF StartDeviceCode, Expire
  <1>3. CASE Poll \/ PollFails \/ ClearToken
    BY <1>3, TerminalIInv DEF Poll, PollFails, ClearToken
  <1> QED BY <1>1, <1>2, <1>3, HandlerIInv, TurnIInv, ServerDiesKeeps DEF Next

-----------------------------------------------------------------------------
(* The steps of all of them. *)

all == <<service, planVars, callVars, mcpVars, storeVars, migrationVars, accountVars>>

LEMMA ServiceStep ==
  ASSUME [MCNext]_all
  PROVE  /\ Plan!Next \/ UNCHANGED planVars
         /\ Tools!Next \/ UNCHANGED mcpVars
         /\ Store!Next \/ UNCHANGED storeVars
         /\ [Next]_accountVars
  BY DEF MCNext, all

LEMMA McpInductive == MCSpec => []McpIInv
<1>1. MCInit => McpIInv
  BY McpInit DEF MCInit
<1>2. McpIInv /\ [MCNext]_all => McpIInv'
  BY ServiceStep, McpStep
<1> QED BY <1>1, <1>2, PTL DEF MCSpec, all

\* Whatever order servers are trusted, added and tried in, and die, a tool on
\* offer whose session is known to have ended is one that a later session of
\* its server did not list (mcp-runtime/src/index.ts).
THEOREM DeadToolsGoneHolds == MCSpec => []DeadToolsGone
<1>1. McpIInv => DeadToolsGone
  <2> SUFFICES ASSUME McpIInv, ~over, NEW id \in Servers, NEW tool \in Names, registry[id][tool] # Tools!None
               PROVE  life[registry[id][tool]] = "open" \/ Tools!LeftBehind(id, tool, registry[id][tool])
    BY DEF DeadToolsGone, Tools!DeadToolsGone
  <2> QED BY DEF McpIInv, ToolsOpen, RegisteredOpen, ToolsNamed, Good
<1> QED BY <1>1, McpInductive, PTL

LEMMA StoreInductive == MCSpec => []StoreIInv
<1>1. MCInit => StoreIInv
  BY StoreInit DEF MCInit
<1>2. StoreIInv /\ [MCNext]_all => StoreIInv'
  BY ServiceStep, StoreStep
<1> QED BY <1>1, <1>2, PTL DEF MCSpec, all

\* Whatever comes and goes, and however often the process starts again, the
\* messages of a session lie in one store and the other has no such session
\* (session-runtime/src/index.ts).
THEOREM OneTranscriptHolds == MCSpec => []OneTranscript
<1>1. StoreIInv => OneTranscript
  BY DEF StoreIInv, StoreShape, Sound, LiesIn, OneTranscript, Store!OneTranscript
<1> QED BY <1>1, StoreInductive, PTL

\* A call of update_plan publishes every step of the PLAN.md it read; only one
\* whose read failed, and which says so, may leave a step out (plan-tool.ts).
THEOREM NoStepDroppedHolds == MCSpec => NoStepDropped
<1>1. [MCNext]_all =>
        [writing' # Plan!NoJson /\ writing = Plan!NoJson =>
           unread' \/ Plan!Ids(Plan!Parsed.steps) \subseteq Plan!Ids(writing'.steps)]_(Plan!planVars)
  BY ServiceStep, PlanStep DEF planVars, Plan!planVars
<1> QED BY <1>1, PTL DEF MCSpec, all, NoStepDropped, Plan!NoStepDropped

\* No balance is ever negative and the ledger adds up to it, for any number of
\* users, approvals and turns, a death of the server in between included.
THEOREM BalanceReconcilesHolds == MCSpec => []BalanceReconciles
<1>1. MCInit => AccountIInv
  BY AccountInit DEF MCInit
<1>2. AccountIInv /\ [MCNext]_all => AccountIInv'
  BY ServiceStep, AccountStep
<1>3. AccountIInv => BalanceReconciles
  BY DEF AccountIInv, BooksKept, Reconciled, After, BalanceReconciles
<1> QED BY <1>1, <1>2, <1>3, PTL DEF MCSpec, all

================================================================================
