----------------------------------- MODULE Mcp ---------------------------------
(***************************************************************************)
(* The client of MCP servers: the gates before a connection, the handshake *)
(* over a process or over either of two HTTP styles, the requests with     *)
(* their timers, the tools in the registry, and what happens when the      *)
(* other side goes away.  The servers, their processes and streams, may    *)
(* die, fall silent or answer late at any moment.  The terminal connects   *)
(* all at its start, later one at a time, and never during a turn.         *)
(***************************************************************************)
EXTENDS Integers, FiniteSets, Sequences

CONSTANTS Servers,
          UserServers,  \* those of the user's own file; the others are the repository's
          HttpServers,  \* those with a url; the others are processes
          SseServers,   \* those of them whose transport is "sse"
          Names,        \* the tools a server may list
          MaxSessions, MaxRequests   \* bounds

None == 0
Sessions == 1..MaxSessions
Requests == 1..MaxRequests

VARIABLES
    trusted,     \* the trust store
    todo,        \* the servers connectAll has before it
    command,     \* whose connections they are: "start", "trust" or "add"
    connecting,  \* [id, session, step, wires], or NotConnecting
    status,      \* what listServers says of a server
    sessionOf,   \* the session of its entry
    life,        \* of a session: "none", "open", "gone" or "closed"
    peer,        \* the sessions whose process or stream is there
    exits,       \* the sessions whose end is yet to be noticed
    owner,       \* the server of a session
    lists,       \* the tools a session's server has listed
    registry,    \* the session behind each tool of a server in the registry
    registered,  \* the session whose tools a server's registration names
    pending,     \* the requests that wait, of a session
    delivered,   \* the requests whose answer has come in, every byte of it
    asked,       \* requests so far
    over         \* the terminal has disconnected all

mcpVars == <<trusted, todo, command, connecting, status, sessionOf, life, peer, exits, owner,
             lists, registry, registered, pending, delivered, asked, over>>

NotConnecting == [id |-> None, session |-> None, step |-> "none", wires |-> <<>>]

Init ==
    /\ trusted \in SUBSET Servers
    /\ todo \in SUBSET Servers /\ command = "start"
    /\ connecting = NotConnecting
    /\ status = [id \in Servers |-> "absent"]
    /\ sessionOf = [id \in Servers |-> None]
    /\ life = [s \in Sessions |-> "none"]
    /\ peer = {} /\ exits = {}
    /\ owner = [s \in Sessions |-> None]
    /\ lists = [s \in Sessions |-> {}]
    /\ registry = [id \in Servers |-> [t \in Names |-> None]]
    /\ registered = [id \in Servers |-> None]
    /\ pending = [s \in Sessions |-> {}]
    /\ delivered = {} /\ asked = 0 /\ over = FALSE

-----------------------------------------------------------------------------
(* Sessions. *)

FreshSession == Cardinality({s \in Sessions : life[s] # "none"}) + 1

\* Within the bounds, an attempt in every style and its requests.
Room(wires) ==
    FreshSession + Len(wires) - 1 <= MaxSessions /\ asked + 2 * Len(wires) <= MaxRequests

\* A request of the session that connects, with its timer.
Request(s, step) ==
    /\ pending' = [pending EXCEPT ![s] = {asked + 1}]
    /\ asked' = asked + 1
    /\ connecting' = [connecting EXCEPT !.step = step]

\* A session is opened and asks to initialize; the older HTTP style opens a
\* stream first.
OpenSession(id, wires) ==
    LET s == FreshSession
        to(step) == [id |-> id, session |-> s, step |-> step, wires |-> wires] IN
    /\ life' = [life EXCEPT ![s] = "open"]
    /\ owner' = [owner EXCEPT ![s] = id]
    /\ peer' = peer \cup {s}
    /\ IF Head(wires) = "legacy"
       THEN connecting' = to("open") /\ UNCHANGED <<pending, asked>>
       ELSE /\ connecting' = to("initialize")
            /\ pending' = [pending EXCEPT ![s] = {asked + 1}]
            /\ asked' = asked + 1

\* A url server may speak either of two styles; its transport says which is
\* tried first.
Wires(id) == CASE id \notin HttpServers -> <<"stdio">>
               [] id \in SseServers -> <<"legacy", "streamable">>
               [] OTHER -> <<"streamable", "legacy">>

IsMcpServerTrusted(id, store) == id \in UserServers \cup store

\* connectConfigs for one server, behind its gate.
ConnectConfig(id, store) ==
    IF IsMcpServerTrusted(id, store)
    THEN Room(Wires(id)) /\ OpenSession(id, Wires(id)) /\ UNCHANGED <<status, sessionOf>>
    ELSE /\ status' = [status EXCEPT ![id] = "needs-trust"]
         /\ sessionOf' = [sessionOf EXCEPT ![id] = None]
         /\ UNCHANGED <<life, owner, peer, pending, asked, connecting>>

\* registerToolsInto: every connected server that lists tools, name by name over
\* what was registered before; what is remembered of it is overwritten.
RegisterToolsInto(newStatus, newSession, newLists) ==
    LET listed(id) == IF newStatus[id] = "connected" THEN newLists[newSession[id]] ELSE {} IN
    /\ registry' = [id \in Servers |-> [t \in Names |->
                      IF t \in listed(id) THEN newSession[id] ELSE registry[id][t]]]
    /\ registered' = [id \in Servers |->
                      IF listed(id) # {} THEN newSession[id] ELSE registered[id]]

\* Who asked for the connection registers the tools: at the start once all
\* servers had their turn, /mcp trust if the server is up, /mcp add anyway.
Registers(up) ==
    CASE command = "start" -> todo' = {}
      [] command = "trust" -> up
      [] command = "add" -> TRUE

RegisterIf(yes) ==
    IF yes THEN RegisterToolsInto(status', sessionOf', lists') ELSE UNCHANGED <<registry, registered>>

\* connectAll, one server after the other.
ConnectNext ==
    /\ connecting = NotConnecting /\ ~over
    /\ \E id \in todo :
        /\ todo' = todo \ {id}
        /\ UNCHANGED lists
        /\ ConnectConfig(id, trusted)
        /\ RegisterIf(~IsMcpServerTrusted(id, trusted) /\ Registers(FALSE))
    /\ UNCHANGED <<trusted, command, exits, delivered, over>>

\* No turn and no connection is under way: the prompt takes a command.
AtPrompt ==
    /\ connecting = NotConnecting /\ todo = {} /\ ~over
    /\ \A s \in Sessions : pending[s] = {}

\* The grant is written and the server connected, whatever it is doing now.
GrantAndConnect(id, who) ==
    /\ AtPrompt
    /\ command' = who
    /\ trusted' = trusted \cup {id}
    /\ ConnectConfig(id, trusted')
    /\ UNCHANGED <<todo, exits, lists, registry, registered, delivered, over>>

\* /mcp trust of a listed server, and /mcp add of a command, once confirmed.
TrustServer(id) == status[id] # "absent" /\ GrantAndConnect(id, "trust")
AddServer(id) == id \notin HttpServers /\ GrantAndConnect(id, "add")

\* /mcp untrust; a connection stays.
Untrust(id) ==
    /\ AtPrompt /\ id \in trusted /\ status[id] # "absent"
    /\ trusted' = trusted \ {id}
    /\ UNCHANGED <<todo, command, connecting, status, sessionOf, life, peer, exits, owner,
                   lists, registry, registered, pending, delivered, asked, over>>

-----------------------------------------------------------------------------
(* The handshake. *)

\* The older style: the GET is answered, and its stream names the endpoint.
StreamOpens ==
    /\ connecting.step = "open" /\ connecting.session \in peer
    /\ connecting' = [connecting EXCEPT !.step = "endpoint"]
    /\ UNCHANGED <<trusted, todo, command, status, sessionOf, life, peer, exits, owner,
                   lists, registry, registered, pending, delivered, asked, over>>

EndpointSeen ==
    /\ connecting.step = "endpoint" /\ connecting.session \in peer
    /\ Request(connecting.session, "initialize")
    /\ UNCHANGED <<trusted, todo, command, status, sessionOf, life, peer, exits, owner,
                   lists, registry, registered, delivered, over>>

\* initialize is answered: the server is notified of it.
Initialized(r) ==
    /\ connecting.step = "initialize" /\ r \in pending[connecting.session]
    /\ connecting.session \in peer
    /\ pending' = [pending EXCEPT ![connecting.session] = {}]
    /\ connecting' = [connecting EXCEPT !.step = "notify"]
    /\ delivered' = delivered \cup {r}
    /\ UNCHANGED <<trusted, todo, command, status, sessionOf, life, peer, exits, owner,
                   lists, registry, registered, asked, over>>

\* notifications/initialized is out: a line of a pipe at once, a POST when its
\* whole response has come or has broken off.  The tools are asked for.
Notified ==
    /\ connecting.step = "notify" /\ life[connecting.session] = "open"
    /\ Request(connecting.session, "list")
    /\ UNCHANGED <<trusted, todo, command, status, sessionOf, life, peer, exits, owner,
                   lists, registry, registered, delivered, over>>

\* tools/list is answered: the new entry takes the place of the old one.
Connected(r) ==
    /\ connecting.step = "list" /\ r \in pending[connecting.session]
    /\ connecting.session \in peer
    /\ pending' = [pending EXCEPT ![connecting.session] = {}]
    /\ delivered' = delivered \cup {r}
    /\ status' = [status EXCEPT ![connecting.id] = "connected"]
    /\ sessionOf' = [sessionOf EXCEPT ![connecting.id] = connecting.session]
    /\ \E names \in SUBSET Names : lists' = [lists EXCEPT ![connecting.session] = names]
    /\ connecting' = NotConnecting
    /\ UNCHANGED todo /\ RegisterIf(Registers(TRUE))
    /\ UNCHANGED <<trusted, command, life, peer, exits, owner, asked, over>>

\* close: the process group or the stream is ended, what waits is rejected.
Close(s) ==
    /\ life' = [life EXCEPT ![s] = IF @ = "open" THEN "closed" ELSE @]
    /\ peer' = peer \ {s} /\ exits' = exits \ {s}
    /\ pending' = [pending EXCEPT ![s] = {}]

\* A time limit, an error, an unknown protocol version, or the end of the
\* session: a url server is tried in its other style, then the entry fails.
ConnectFails ==
    /\ connecting.step \in {"open", "endpoint", "initialize", "notify", "list"}
    /\ Close(connecting.session)
    /\ connecting' = [connecting EXCEPT !.step = "failed", !.wires = Tail(@)]
    /\ UNCHANGED <<trusted, todo, command, status, sessionOf, owner, lists, registry, registered,
                   delivered, asked, over>>

TryOtherStyle ==
    /\ connecting.step = "failed" /\ connecting.wires # <<>>
    /\ OpenSession(connecting.id, connecting.wires)
    /\ UNCHANGED <<trusted, todo, command, status, sessionOf, exits, lists, registry, registered,
                   delivered, over>>

GiveUp ==
    /\ connecting.step = "failed" /\ connecting.wires = <<>>
    /\ status' = [status EXCEPT ![connecting.id] = "error"]
    /\ sessionOf' = [sessionOf EXCEPT ![connecting.id] = None]
    /\ connecting' = NotConnecting
    /\ UNCHANGED <<todo, lists>> /\ RegisterIf(Registers(FALSE))
    /\ UNCHANGED <<trusted, command, life, peer, exits, owner, pending, delivered, asked, over>>

-----------------------------------------------------------------------------
(* Calls. *)

\* A tool of the server is called in a turn; its definition holds the session.
\* On a session that is not alive the call is answered with an error at once.
CallTool(id, tool) ==
    LET s == registry[id][tool] IN
    /\ AtPrompt /\ asked < MaxRequests
    /\ s # None /\ life[s] = "open"
    /\ pending' = [pending EXCEPT ![s] = {asked + 1}]
    /\ asked' = asked + 1
    /\ UNCHANGED <<trusted, todo, command, connecting, status, sessionOf, life, peer, exits, owner,
                   lists, registry, registered, delivered, over>>

\* The answer in one chunk, or through the parser of event streams.
Answer(s, r) ==
    /\ s \in peer /\ s # connecting.session /\ r \in pending[s]
    /\ pending' = [pending EXCEPT ![s] = @ \ {r}]
    /\ delivered' = delivered \cup {r}
    /\ UNCHANGED <<trusted, todo, command, connecting, status, sessionOf, life, peer, exits, owner,
                   lists, registry, registered, asked, over>>

\* A line of a process in two chunks: each half is read as a line of its own,
\* and neither is a message.
AnswerInHalves(s, r) ==
    /\ s \in peer /\ owner[s] \notin HttpServers /\ r \in pending[s] \ delivered
    /\ delivered' = delivered \cup {r}
    /\ UNCHANGED <<trusted, todo, command, connecting, status, sessionOf, life, peer, exits, owner,
                   lists, registry, registered, pending, asked, over>>

\* The timer of a request; an answer that comes later finds nobody.
TimeOut(s, r) ==
    /\ s # connecting.session /\ r \in pending[s]
    /\ pending' = [pending EXCEPT ![s] = @ \ {r}]
    /\ UNCHANGED <<trusted, todo, command, connecting, status, sessionOf, life, peer, exits, owner,
                   lists, registry, registered, delivered, asked, over>>

\* A POST that is refused or ends without the answer, or a pipe that is closed,
\* rejects the request at once.
PostFails(s, r) ==
    /\ owner[s] \in HttpServers \/ s \notin peer
    /\ s # connecting.session /\ r \in pending[s]
    /\ pending' = [pending EXCEPT ![s] = @ \ {r}]
    /\ UNCHANGED <<trusted, todo, command, connecting, status, sessionOf, life, peer, exits, owner,
                   lists, registry, registered, delivered, asked, over>>

-----------------------------------------------------------------------------
(* The end of a server, and of the terminal. *)

\* The process exits or the stream ends, and the event is on its way; between
\* the requests of the style without a stream there is nothing to notice.
Die(s) ==
    /\ s \in peer
    /\ peer' = peer \ {s}
    /\ exits' = exits \cup {s} \/ (owner[s] \in HttpServers /\ UNCHANGED exits)
    /\ UNCHANGED <<trusted, todo, command, connecting, status, sessionOf, life, owner,
                   lists, registry, registered, pending, delivered, asked, over>>

\* Mutant of Unregisters: only the entry learns of it.
UnregistersNot(id) == UNCHANGED <<registry, registered>>

\* The registration of the server is undone, whoever made it; a tool it does not
\* name stays.
Unregisters(id) ==
    /\ registry' = [registry EXCEPT ![id] = [t \in Names |->
                      IF registered[id] # None /\ t \in lists[registered[id]] THEN None ELSE @[t]]]
    /\ registered' = [registered EXCEPT ![id] = None]

\* handleClose and onServerExit: what waits is rejected, the session's own
\* entry fails, the server's registration goes.
ServerExit(s) ==
    /\ s \in exits /\ life[s] = "open"
    /\ exits' = exits \ {s}
    /\ life' = [life EXCEPT ![s] = "gone"]
    /\ pending' = [pending EXCEPT ![s] = {}]
    /\ LET id == owner[s] IN
       /\ status' = [status EXCEPT ![id] = IF sessionOf[id] = s THEN "error" ELSE @]
       /\ sessionOf' = [sessionOf EXCEPT ![id] = IF @ = s THEN None ELSE @]
       /\ Unregisters(id)
    /\ UNCHANGED <<trusted, todo, command, connecting, peer, owner, lists, delivered, asked, over>>

\* disconnectAll at the end of the terminal: the sessions of the entries.
DisconnectAll ==
    /\ AtPrompt
    /\ LET open == {sessionOf[id] : id \in Servers} \ {None} IN
       /\ life' = [s \in Sessions |-> IF s \in open THEN "closed" ELSE life[s]]
       /\ peer' = peer \ open /\ exits' = exits \ open
    /\ status' = [id \in Servers |-> "absent"]
    /\ sessionOf' = [id \in Servers |-> None]
    /\ registered' = [id \in Servers |-> None]
    /\ over' = TRUE
    /\ UNCHANGED <<trusted, todo, command, connecting, owner, lists, registry, pending, delivered,
                   asked>>

Next ==
    \/ ConnectNext
    \/ \E id \in Servers : TrustServer(id) \/ AddServer(id) \/ Untrust(id)
    \/ \E id \in Servers, tool \in Names : CallTool(id, tool)
    \/ StreamOpens \/ EndpointSeen \/ Notified
    \/ \E r \in Requests : Initialized(r) \/ Connected(r)
    \/ ConnectFails \/ TryOtherStyle \/ GiveUp
    \/ \E s \in Sessions, r \in Requests :
        Answer(s, r) \/ AnswerInHalves(s, r) \/ TimeOut(s, r) \/ PostFails(s, r)
    \/ \E s \in Sessions : Die(s) \/ ServerExit(s)
    \/ DisconnectAll

\* A url server that is there may keep two things open for ever, which have no
\* timer: the answer to the GET of the older style (http-transport.ts:157) and
\* the response to the notification (index.ts:245).
HeldByServer ==
    /\ connecting.step \in {"open", "notify"} /\ connecting.id \in HttpServers
    /\ connecting.session \in peer

\* Timers fire and the events of the runtime are delivered.
Runtime ==
    \/ Notified /\ connecting.id \notin HttpServers
    \/ ConnectFails /\ ~HeldByServer
    \/ TryOtherStyle \/ GiveUp
    \/ \E s \in Sessions : ServerExit(s) \/ \E r \in Requests : TimeOut(s, r)

Spec == Init /\ [][Next]_mcpVars /\ WF_mcpVars(Runtime)

-----------------------------------------------------------------------------

\* A later session of the same server, registered over s, does not list the tool.
LeftBehind(id, tool, s) ==
    \E n \in Sessions : n > s /\ owner[n] = id /\ lists[n] # {} /\ tool \notin lists[n]

\* Until the terminal leaves, a tool the model can choose has a session behind it
\* that nobody has seen the end of (index.ts:342-346), with one exception: a tool
\* that the server no longer listed when it was connected again.
DeadToolsGone ==
    ~over => \A id \in Servers, tool \in Names : LET s == registry[id][tool] IN
        s # None => life[s] = "open" \/ LeftBehind(id, tool, s)

\* A connection attempt ends and no call waits for ever, whatever the server
\* does (json-rpc.ts:5-9), but for a url server that holds the attempt itself
\* where the client has set no timer.
NobodyWaits ==
    (connecting # NotConnecting \/ \E s \in Sessions : pending[s] # {}) ~>
        \/ connecting = NotConnecting /\ \A s \in Sessions : pending[s] = {}
        \/ []HeldByServer

\* "Gracefully terminate every subprocess and close every stream" (index.ts:393).
AllDisconnected == over => peer = {}

\* "newline-delimited JSON-RPC": an answer that has come in has been read
\* (stdio-transport.ts:4).
AnswersAreRead == \A s \in Sessions : pending[s] \cap delivered = {}

\* "a server dying later removes exactly its own tools" (index.ts:132-134).
OwnToolsGone ==
    \A id \in Servers, tool \in Names : LET s == registry[id][tool] IN
        s # None /\ ~over => life[s] = "open"
================================================================================
