------------------------------- MODULE RateLimiter -----------------------------
(***************************************************************************)
(* The fixed-window limiter: one key of Redis that the calls of several    *)
(* processes count up, its expiry, and the callers that wait a full window *)
(* out.  Redis may be gone for a while, and a caller may be interrupted or *)
(* die at any moment.                                                      *)
(***************************************************************************)
EXTENDS Integers

CONSTANTS Callers, Limit,
          FailClosed   \* the callers for which the limiter is a control

NoKey == [count |-> 0, expires |-> FALSE]

VARIABLES
    bucket,    \* the key, or NoKey; its count stops one above the limit
    redis,     \* "up" or "down"
    caller,    \* [at, sleeps]: "idle", "asking", "asleep", "let in" or "refused"
    aborted

limiterVars == <<bucket, redis, caller, aborted>>

Idle == [at |-> "idle", sleeps |-> 0]

Init ==
    /\ bucket = NoKey /\ redis = "up"
    /\ caller = [c \in Callers |-> Idle]
    /\ aborted = {}

Count == IF bucket.count > Limit THEN bucket.count ELSE bucket.count + 1

\* Mutant of Counted: the expiry is set by a command of its own, which its
\* caller may not live to send.
CountedOnly == [count : {Count}, expires : {bucket.expires, TRUE}]

\* The script: a new key gets its expiry in the step that makes it.
Counted == [count : {Count}, expires : {bucket.expires \/ bucket = NoKey}]

\* Ninety seconds in windows of sixty: two sleeps at least, and three at most.
BudgetLeft(sleeps) == IF sleeps < 2 THEN {TRUE} ELSE IF sleeps = 2 THEN BOOLEAN ELSE {FALSE}

\* waitOutRateLimit after a check: let in, asleep until the reset, or refused.
Answer(c, result) ==
    \E left \in BudgetLeft(caller[c].sleeps) :
        caller' = [caller EXCEPT ![c] =
            IF result = "ok" THEN [@ EXCEPT !.at = "let in"]
            ELSE IF result = "full" /\ c \notin aborted /\ left
            THEN [at |-> "asleep", sleeps |-> IF @.sleeps < 3 THEN @.sleeps + 1 ELSE @.sleeps]
            ELSE [@ EXCEPT !.at = "refused"]]

Ask(c) ==
    /\ caller[c].at = "idle"
    /\ caller' = [caller EXCEPT ![c].at = "asking"]
    /\ UNCHANGED <<bucket, redis, aborted>>

\* checkRateLimit.  Without Redis a control refuses, and another lets in.
CheckRateLimit(c) ==
    /\ caller[c].at = "asking"
    /\ \/ /\ redis = "up" /\ bucket' \in Counted
          /\ Answer(c, IF bucket'.count <= Limit THEN "ok" ELSE "full")
       \/ /\ redis = "down" /\ UNCHANGED bucket
          /\ Answer(c, IF c \in FailClosed THEN "closed" ELSE "ok")
    /\ UNCHANGED <<redis, aborted>>

\* The sleep is over, by the clock or by the interrupt.  The reset is known to
\* the second only, so the window may still be there.
Wake(c) ==
    /\ caller[c].at = "asleep"
    /\ caller' = [caller EXCEPT ![c].at = "asking"]
    /\ UNCHANGED <<bucket, redis, aborted>>

\* The call is over, or its process is.
Done(c) ==
    /\ caller[c].at # "idle"
    /\ caller' = [caller EXCEPT ![c] = Idle]
    /\ aborted' = aborted \ {c}
    /\ UNCHANGED <<bucket, redis>>

Abort(c) ==
    /\ caller[c].at \in {"asking", "asleep"} /\ c \notin aborted
    /\ aborted' = aborted \cup {c}
    /\ UNCHANGED <<bucket, redis, caller>>

Expire ==
    /\ bucket.expires
    /\ bucket' = NoKey
    /\ UNCHANGED <<redis, caller, aborted>>

\* The connection goes, or the client reconnects.
Connection ==
    /\ redis' = IF redis = "up" THEN "down" ELSE "up"
    /\ UNCHANGED <<bucket, caller, aborted>>

Next ==
    \/ \E c \in Callers : Ask(c) \/ CheckRateLimit(c) \/ Wake(c) \/ Done(c) \/ Abort(c)
    \/ Expire \/ Connection

Asks(c) == CheckRateLimit(c) \/ Wake(c)

Spec == Init /\ [][Next]_limiterVars
        /\ WF_limiterVars(Expire) /\ \A c \in Callers : WF_limiterVars(Asks(c))

-----------------------------------------------------------------------------

\* A full window opens again: no crash leaves a key without its expiry
\* (cache/index.ts:112-117).
WindowReopens == bucket.count > Limit ~> bucket = NoKey

\* A caller is let in or refused in the end, however busy the others keep the
\* window: "bounded budget + jitter" (AgentOrchestrator.ts:637).
WaitEnds == \A c \in Callers : caller[c].at = "asking" ~> caller[c].at \notin {"asking", "asleep"}
================================================================================
