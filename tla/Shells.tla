-------------------------------- MODULE Shells --------------------------------
(***************************************************************************)
(* ShellRegistry: the background shells of a session, their process        *)
(* groups, their two timers and their logs, with signals that take their   *)
(* time, processes that ignore SIGTERM, and a host that may exit.          *)
(*                                                                         *)
(* A log is the sequence of the lengths of its chunks.  One caller reads   *)
(* each log, always passing the nextOffset it was given.                   *)
(***************************************************************************)
EXTENDS Naturals, Sequences

CONSTANTS
    Shells,     \* ids
    Retention,  \* retentionBytes
    MaxBytes    \* bound: bytes in a log

VARIABLES
    reg,   \* id -> the LiveShell, or NotStarted
    host   \* "up", "reaped" once it reaped its shells, "down"

vars == <<reg, host>>

Reasons == {"none", "timeout", "reaped", "user-stop"}
NotStarted == [group |-> "none"]

\* group: the processes, "left" once the command is gone but not what it put
\* in the background.  deaf, termed, killed: whether they ignore SIGTERM, and
\* the signals sent to them.  ended, reason, code: the record.
\* lifetime, escalation: the timers.  buf, total, first: the log.
\* since, seen: the reader's next offset, and a history variable, the bytes
\* it was given or told were dropped.
Shell == [group : {"running", "left", "gone"}, deaf : BOOLEAN, termed : BOOLEAN,
          killed : BOOLEAN, ended : BOOLEAN, reason : Reasons,
          code : {"none", "exit", "SIGTERM", "error"},
          lifetime : {"off", "armed"}, escalation : {"off", "armed", "fired"},
          buf : Seq(Nat), total : Nat, first : Nat, since : Nat, seen : Nat]

Started(s) == reg[s] # NotStarted

Init == reg = [s \in Shells |-> NotStarted] /\ host = "up"

-----------------------------------------------------------------------------
(* The log. *)

\* How much of a log is in its chunks.
Bytes(buf) ==
    LET upto[i \in 0..Len(buf)] == IF i = 0 THEN 0 ELSE upto[i - 1] + buf[i]
    IN upto[Len(buf)]

\* Whole chunks go from the front until the rest fits; the last one stays.
Kept(buf) ==
    LET rest(k) == SubSeq(buf, k, Len(buf))
        fits(k) == Bytes(rest(k)) <= Retention \/ k = Len(buf)
    IN rest(CHOOSE k \in DOMAIN buf : fits(k) /\ \A j \in 1..(k - 1) : ~fits(j))

\* append.
Append1(r, n) ==
    LET buf == Append(r.buf, n) IN
    [r EXCEPT !.buf = Kept(buf), !.total = @ + n,
              !.first = @ + (Bytes(buf) - Bytes(Kept(buf)))]

\* Mutant of DroppedPrefix: the difference the other way round, which clamps to 0.
DroppedNone(r) == 0
\* What the caller missed.
DroppedPrefix(r) == IF r.since < r.first THEN r.first - r.since ELSE 0

\* The text a read returns: from the caller's offset, or what is retained.
Text(r) ==
    LET from == IF r.since < r.first THEN r.first ELSE r.since
    IN Bytes(r.buf) - (from - r.first)

-----------------------------------------------------------------------------
(* Ending. *)

\* finish: the first end counts.
Finish(r, code, reason) ==
    IF r.ended THEN r
    ELSE [r EXCEPT !.ended = TRUE, !.code = code, !.lifetime = "off",
                   !.reason = IF reason = "none" THEN @ ELSE reason]

\* terminate: SIGTERM, the escalation timer, and the end at once.
Terminate(r, reason) ==
    Finish([r EXCEPT !.reason = reason, !.termed = TRUE, !.escalation = "armed"],
           "SIGTERM", reason)

\* The leak guard.
LifetimeTimer == "armed"

-----------------------------------------------------------------------------
(* Actions. *)

Set(s, r) == reg' = [reg EXCEPT ![s] = r]

\* The LiveShell as start creates it.
Fresh(deaf) ==
    [group |-> "running", deaf |-> deaf, termed |-> FALSE, killed |-> FALSE,
     ended |-> FALSE, reason |-> "none", code |-> "none",
     lifetime |-> LifetimeTimer, escalation |-> "off",
     buf |-> <<>>, total |-> 0, first |-> 0, since |-> 0, seen |-> 0]

Start(s) ==
    /\ host = "up" /\ ~Started(s)
    /\ \E deaf \in BOOLEAN : Set(s, Fresh(deaf))
    /\ UNCHANGED host

\* The process cannot be spawned.  The error event comes before any other.
StartFails(s) ==
    /\ host = "up" /\ ~Started(s)
    /\ Set(s, Finish(Append1([Fresh(FALSE) EXCEPT !.group = "gone"], 1),
                     "error", "none"))
    /\ UNCHANGED host

\* Data, as long as the listeners are there.
Output(s, n) ==
    /\ host # "down" /\ Started(s) /\ reg[s].group = "running" /\ ~reg[s].ended
    /\ reg[s].total + n <= MaxBytes
    /\ Set(s, Append1(reg[s], n))
    /\ UNCHANGED host

\* The command exits by itself, and may leave behind what it detached from
\* its output.
Exit(s) ==
    /\ Started(s) /\ reg[s].group = "running"
    /\ \E g \in {"left", "gone"} : Set(s, [reg[s] EXCEPT !.group = g])
    /\ UNCHANGED host

\* All of the group dies by a signal it got.
DieOfSignal(s) ==
    /\ Started(s) /\ reg[s].group # "gone"
    /\ (reg[s].termed /\ ~reg[s].deaf) \/ reg[s].killed
    /\ Set(s, [reg[s] EXCEPT !.group = "gone"])
    /\ UNCHANGED host

\* The close event: the command is gone and its output at an end.
Close(s) ==
    /\ host # "down" /\ Started(s) /\ reg[s].group # "running" /\ ~reg[s].ended
    /\ Set(s, Finish(reg[s], "exit", "none"))
    /\ UNCHANGED host

LifetimeFires(s) ==
    /\ host # "down" /\ Started(s) /\ reg[s].lifetime = "armed"
    /\ Set(s, [Terminate(Append1(reg[s], 1), "timeout") EXCEPT
                 !.lifetime = "off"])
    /\ UNCHANGED host

\* Two seconds after SIGTERM: SIGKILL, if the record has not ended.
EscalationFires(s) ==
    /\ host # "down" /\ Started(s) /\ reg[s].escalation = "armed"
    /\ Set(s, [reg[s] EXCEPT !.escalation = "fired", !.killed = ~reg[s].ended])
    /\ UNCHANGED host

\* shell_stop.
Stop(s) ==
    /\ host # "down" /\ Started(s) /\ ~reg[s].ended
    /\ Set(s, Terminate(reg[s], "user-stop"))
    /\ UNCHANGED host

\* shutdownShells, at the end of the session.
ReapAll ==
    /\ host = "up" /\ host' = "reaped"
    /\ reg' = [s \in Shells |-> IF Started(s) /\ ~reg[s].ended
                                THEN Terminate(reg[s], "reaped") ELSE reg[s]]

\* The timers do not keep the host alive, and die with it.
HostExits ==
    /\ host # "down" /\ host' = "down"
    /\ reg' = [s \in Shells |-> IF Started(s)
                 THEN [reg[s] EXCEPT !.lifetime = "off", !.escalation = "off"]
                 ELSE reg[s]]

\* shell_output.
Read(s) ==
    /\ host # "down" /\ Started(s)
    /\ Set(s, [reg[s] EXCEPT !.since = reg[s].total,
                             !.seen = @ + Text(reg[s]) + DroppedPrefix(reg[s])])
    /\ UNCHANGED host

Timers(s) == LifetimeFires(s) \/ EscalationFires(s)

Next ==
    \/ \E s \in Shells :
         \/ Start(s) \/ StartFails(s) \/ \E n \in 1..2 : Output(s, n)
         \/ Exit(s) \/ DieOfSignal(s) \/ Close(s) \/ Timers(s)
         \/ Stop(s) \/ Read(s)
    \/ ReapAll \/ HostExits

Spec == Init /\ [][Next]_vars

\* Timers go off, and the system delivers signals and the end of a process.
\* Nobody has to stop a shell, nor must it exit by itself.
FairSpec ==
    Spec /\ \A s \in Shells :
        WF_vars(Timers(s)) /\ WF_vars(DieOfSignal(s)) /\ WF_vars(Close(s))
-----------------------------------------------------------------------------
(* Properties. *)

\* Every variable stays in its type; a timer runs only on its side of the end.
TypeOK ==
    /\ host \in {"up", "reaped", "down"}
    /\ reg \in [Shells -> Shell \cup {NotStarted}]
    /\ \A s \in Shells : Started(s) =>
         /\ reg[s].ended => reg[s].lifetime = "off"
         /\ reg[s].termed => reg[s].ended

\* However exits, errors, timeouts, stops and reaps race, the first of them
\* is what the record says for good.
EndIsFinal ==
    [][\A s \in Shells : Started(s) /\ reg[s].ended =>
         /\ reg'[s].ended
         /\ reg'[s].code = reg[s].code /\ reg'[s].reason = reg[s].reason]_vars

\* A caller that polls with the offsets it is given gets every byte once or
\* is told how many it missed, whatever was dropped between two polls.
ReadsTile == \A s \in Shells : Started(s) => reg[s].seen = reg[s].since

\* A log that floods stays within the retention, but for its last chunk.
LogBounded ==
    \A s \in Shells : Started(s) /\ Len(reg[s].buf) > 1 =>
        Bytes(reg[s].buf) <= Retention

\* No command that heeds SIGTERM outlives its cap: even if nobody stops it,
\* it dies, unless the host goes away without reaping.  What the command left
\* behind when it exited is out of the cap's reach.
ShellsDie ==
    \A s \in Shells :
        Started(s) /\ reg[s].group = "running" /\ ~reg[s].deaf
            ~> reg[s].group # "running" \/ host = "down"

\* What the escalation is for: once it has fired, a group that ignored
\* SIGTERM has been killed.
EscalationKills ==
    \A s \in Shells :
        Started(s) /\ reg[s].escalation = "fired" /\ reg[s].deaf =>
            reg[s].killed \/ reg[s].group # "running"
=============================================================================
