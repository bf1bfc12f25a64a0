---------------------------------- MODULE Stores --------------------------------
(***************************************************************************)
(* The session store of a server with a database: Postgres first, the      *)
(* local journal when it cannot be reached.  A session is pinned to the    *)
(* store it was created or found in, until the process ends.  Postgres may *)
(* become unreachable at any moment, and the reply to what it did may be   *)
(* lost; the journal answers always (Journal has its own faults).          *)
(***************************************************************************)
EXTENDS Naturals, FiniteSets

CONSTANTS Sessions,
          MaxMessages, MaxFaults   \* bounds: messages of a session, lost replies

Backends == {"primary", "fallback"}
Unpinned == "unpinned"

VARIABLES
    reach,      \* Postgres can be reached
    tripped,    \* the circuit: Postgres is left alone until it has cooled down
    owner,      \* the map of pins
    row,        \* backend -> the sessions with a row there
    kept,       \* backend -> session -> the messages under that row
    known,      \* the sessions whose creation was reported, that nobody deleted
    told,       \* the messages of a session whose saving was reported
    sent,       \* messages of a session so far
    held,       \* the sessions this process has created or hydrated
    doubled,    \* the sessions created twice: the first reply was lost
    faults      \* lost replies so far

storeVars == <<reach, tripped, owner, row, kept, known, told, sent, held, doubled, faults>>

Init ==
    /\ reach \in BOOLEAN /\ tripped = FALSE
    /\ owner = [s \in Sessions |-> Unpinned]
    /\ row = [b \in Backends |-> {}]
    /\ kept = [b \in Backends |-> [s \in Sessions |-> {}]]
    /\ known = {} /\ told = [s \in Sessions |-> {}] /\ sent = [s \in Sessions |-> 0]
    /\ held = {} /\ doubled = {} /\ faults = 0

\* What may become of one operation: done and reported; refused, with nothing
\* done; or done and reported as a time-out of the connection.
Outcomes(b) ==
    IF b = "fallback" THEN {"ok"}
    ELSE IF ~reach THEN {"refused"}
    ELSE {"ok"} \cup (IF faults < MaxFaults THEN {"lost"} ELSE {})

\* tripPrimaryDown, on what isConnectionError takes for a lost connection.
Reports(outcome) ==
    /\ tripped' = (tripped \/ outcome # "ok")
    /\ faults' = IF outcome = "lost" THEN faults + 1 ELSE faults

Healthy == IF tripped THEN "fallback" ELSE "primary"
BackendFor(s) == IF owner[s] = Unpinned THEN Healthy ELSE owner[s]

Pin(s, b) == owner' = [owner EXCEPT ![s] = IF @ = Unpinned THEN b ELSE @]

\* The rows once a session was inserted in some stores.
Inserted(s, into) == [b \in Backends |-> IF b \in into THEN row[b] \cup {s} ELSE row[b]]

\* A message hangs on the row of its session: without one it is not stored.
Stored(b, s) ==
    IF s \in row[b] THEN [kept EXCEPT ![b][s] = @ \cup {sent[s] + 1}] ELSE kept

\* createSession: a new session, and only a new one, moves to the journal.
CreateSession(s) ==
    LET b == Healthy IN
    /\ sent[s] = 0 /\ s \notin known \cup held \cup row["primary"] \cup row["fallback"]
    /\ \E outcome \in Outcomes(b) :
        LET into == (IF outcome # "refused" THEN {b} ELSE {})
                    \cup (IF outcome # "ok" THEN {"fallback"} ELSE {}) IN
        /\ Reports(outcome)
        /\ row' = Inserted(s, into)
        /\ owner' = [owner EXCEPT ![s] = IF "fallback" \in into THEN "fallback" ELSE "primary"]
        /\ doubled' = IF into = Backends THEN doubled \cup {s} ELSE doubled
    /\ known' = known \cup {s} /\ held' = held \cup {s}
    /\ UNCHANGED <<reach, kept, told, sent>>

\* Mutant of Save: what Postgres refuses goes to the journal.
SaveSomewhere(s) ==
    LET b == BackendFor(s) IN
    /\ sent[s] < MaxMessages /\ sent' = [sent EXCEPT ![s] = @ + 1]
    /\ \E outcome \in Outcomes(b) :
        LET to == IF outcome = "ok" THEN b ELSE "fallback" IN
        /\ Reports(outcome)
        /\ kept' = [kept EXCEPT ![to][s] = @ \cup (IF s \in row[to] THEN {sent[s] + 1} ELSE {})]
        /\ told' = [told EXCEPT ![s] = @ \cup {sent[s] + 1}]
    /\ UNCHANGED owner

\* write, with any of the operations that go through it: the owner of the
\* session and no other; a refusal is an error.
Save(s) ==
    LET b == BackendFor(s) IN
    /\ sent[s] < MaxMessages /\ sent' = [sent EXCEPT ![s] = @ + 1]
    /\ \E outcome \in Outcomes(b) :
        /\ Reports(outcome)
        /\ kept' = IF outcome # "refused" THEN Stored(b, s) ELSE kept
        /\ told' = [told EXCEPT ![s] = IF outcome = "ok" THEN @ \cup {sent[s] + 1} ELSE @]
        /\ IF outcome = "ok" THEN Pin(s, b) ELSE UNCHANGED owner

\* The sessions that are live here are the ones that are written to.
SaveMessage(s) ==
    /\ s \in held
    /\ Save(s)
    /\ UNCHANGED <<reach, row, known, held, doubled>>

\* read probes the pinned or the healthy store first, then the other.
ProbedFirst(s) == BackendFor(s)
Other(b) == IF b = "primary" THEN "fallback" ELSE "primary"
Answers(b, s) == s \in row[b] /\ (b = "fallback" \/ reach)

\* A lost reply of a read is as good as a refusal.
GetSessionHydration(s) ==
    LET first == ProbedFirst(s)
        asks == IF Answers(first, s) THEN {first} ELSE Backends
        found == CHOOSE b \in Backends : Answers(b, s) /\ (b = first \/ ~Answers(first, s)) IN
    /\ tripped' = (tripped \/ ("primary" \in asks /\ ~reach))
    /\ IF \E b \in Backends : Answers(b, s)
       THEN Pin(s, found) /\ held' = held \cup {s}
       ELSE UNCHANGED <<owner, held>>
    /\ UNCHANGED <<reach, row, kept, known, told, sent, doubled, faults>>

\* deleteSession: from the owner, or else from both, and then nobody hears of a
\* failure.
DeleteSession(s) ==
    /\ IF owner[s] # Unpinned
       THEN \E outcome \in Outcomes(owner[s]) :
            /\ Reports(outcome)
            /\ row' = [row EXCEPT ![owner[s]] = IF outcome = "refused" THEN @ ELSE @ \ {s}]
            /\ owner' = [owner EXCEPT ![s] = IF outcome = "ok" THEN Unpinned ELSE @]
            /\ known' = IF outcome = "refused" THEN known ELSE known \ {s}
            /\ held' = IF outcome = "ok" THEN held \ {s} ELSE held
       ELSE /\ row' = [b \in Backends |-> IF b = "primary" /\ ~reach THEN row[b] ELSE row[b] \ {s}]
            /\ known' = IF \E b \in Backends : s \in row'[b] THEN known ELSE known \ {s}
            /\ UNCHANGED <<tripped, owner, held, faults>>
    /\ kept' = [b \in Backends |-> [kept[b] EXCEPT ![s] = IF s \in row'[b] THEN @ ELSE {}]]
    /\ UNCHANGED <<reach, told, sent, doubled>>

\* The connection comes and goes, the circuit cools down.
Connection == reach' = ~reach /\ UNCHANGED <<tripped, owner, row, kept, known, told, sent, held, doubled, faults>>
CoolsDown ==
    /\ tripped /\ tripped' = FALSE
    /\ UNCHANGED <<reach, owner, row, kept, known, told, sent, held, doubled, faults>>

\* The process ends and is started again.
Restart ==
    /\ held # {} \/ tripped
    /\ owner' = [s \in Sessions |-> Unpinned] /\ tripped' = FALSE /\ held' = {}
    /\ UNCHANGED <<reach, row, kept, known, told, sent, doubled, faults>>

Next ==
    \/ \E s \in Sessions : CreateSession(s) \/ SaveMessage(s) \/ GetSessionHydration(s) \/ DeleteSession(s)
    \/ Connection \/ CoolsDown \/ Restart

Spec == Init /\ [][Next]_storeVars

-----------------------------------------------------------------------------

\* Unless the reply to its creation was lost, the messages of a session whose
\* saving was reported lie in one store, and the other has no such session
\* (index.ts:66-71).
OneTranscript ==
    \A s \in known \ doubled : \E b \in Backends :
        s \in row[b] /\ told[s] \subseteq kept[b][s] /\ s \notin row[Other(b)]

\* "each session id is created on exactly ONE backend and every later write for
\* it goes there - never both" (index.ts:67-68).
NeverBoth == \A s \in Sessions : ~(kept["primary"][s] # {} /\ kept["fallback"][s] # {})
================================================================================
