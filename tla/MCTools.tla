-------------------------------- MODULE MCTools ---------------------------------
(* One run for what stands behind a tool call, which shares no state: each   *)
(* behaviour is one of an edit transaction, of the gateway, of the shells of *)
(* the background, of a command a turn waits for, of the checks behind an    *)
(* edit, of the rate limiter or of the credential profiles.                  *)
EXTENDS EditTransaction, Integers

CONSTANTS SourceFiles, PlanFiles, Protected, HasApprover, MaxCalls, MaxChanges,
          Shells, Retention, MaxBytes,
          Callers, Limit, FailClosed,
          Terminals, Profiles, FromEnvironment, MaxDeaths

VARIABLES tool,
          mode, rules, unsafe, gate, call, turnCache, seen, wrote, calls, changes,
          reg, host,
          line, code, live, doomed, deaf, holding, timers, timedOut, aborted, here,
          depth, full, workspace, suite, results, interrupted, suitePassed,
          bucket, redis, caller, cancelled,
          registry, secrets, terminal, created, deleted, deaths

editVars == vars
gatewayVars == <<mode, rules, unsafe, gate, call, turnCache, seen, wrote, calls, changes>>
shellVars == <<reg, host>>
lineVars == <<line, code, live, doomed, deaf, holding, timers, timedOut, aborted, here>>
suiteVars == <<depth, full, workspace, suite, results, interrupted, suitePassed>>
limiterVars == <<bucket, redis, caller, cancelled>>
credentialVars == <<registry, secrets, terminal, created, deleted, deaths>>

Gateway == INSTANCE ToolGateway WITH phase <- gate
Background == INSTANCE Shells
Line == INSTANCE ShellLine WITH phase <- line
Suite == INSTANCE VerificationSuite WITH phase <- suite, aborted <- interrupted
Limiter == INSTANCE RateLimiter WITH aborted <- cancelled
Credential == INSTANCE Credentials

\* What is frozen starts in one way only.
MCInit ==
    /\ tool \in {"edit", "gateway", "background", "line", "suite", "limiter", "credential"}
    /\ Init /\ (tool # "edit" => disk = [p \in Paths |-> None])
    /\ Gateway!Init /\ (tool # "gateway" => mode = "ask" /\ rules = "deny" /\ ~unsafe)
    /\ Suite!Init /\ (tool # "suite" => depth = "basic" /\ ~full
                                         /\ workspace = [scripts |-> {}, tsconfig |-> FALSE])
    /\ Background!Init /\ Line!Init /\ Limiter!Init /\ Credential!Init

MCNext ==
    /\ UNCHANGED tool
    /\ \/ /\ tool = "edit" /\ Next
          /\ UNCHANGED <<gatewayVars, shellVars, lineVars, suiteVars, limiterVars, credentialVars>>
       \/ /\ tool = "gateway" /\ Gateway!Next
          /\ UNCHANGED <<editVars, shellVars, lineVars, suiteVars, limiterVars, credentialVars>>
       \/ /\ tool = "background" /\ Background!Next
          /\ UNCHANGED <<editVars, gatewayVars, lineVars, suiteVars, limiterVars, credentialVars>>
       \/ /\ tool = "line" /\ Line!Next
          /\ UNCHANGED <<editVars, gatewayVars, shellVars, suiteVars, limiterVars, credentialVars>>
       \/ /\ tool = "suite" /\ Suite!Next
          /\ UNCHANGED <<editVars, gatewayVars, shellVars, lineVars, limiterVars, credentialVars>>
       \/ /\ tool = "limiter" /\ Limiter!Next
          /\ UNCHANGED <<editVars, gatewayVars, shellVars, lineVars, suiteVars, credentialVars>>
       \/ /\ tool = "credential" /\ Credential!Next
          /\ UNCHANGED <<editVars, gatewayVars, shellVars, lineVars, suiteVars, limiterVars>>

\* Fair to the one the behaviour is of.
MCSpec ==
    /\ MCInit
    /\ [][MCNext]_<<tool, editVars, gatewayVars, shellVars, lineVars, suiteVars, limiterVars, credentialVars>>
    /\ \A s \in Shells :
        WF_shellVars(tool = "background" /\ (Background!Timers(s) \/ Background!DieOfSignal(s) \/ Background!Close(s)))
    /\ WF_lineVars(tool = "line" /\ Line!Runtime)
    /\ WF_limiterVars(tool = "limiter" /\ Limiter!Expire)
    /\ \A c \in Callers : WF_limiterVars(tool = "limiter" /\ Limiter!Asks(c))

\* What runs is within the mode it was asked in, and by the rules of the moment,
\* or by a human who was shown what there is to see.
OnlyTheAllowedRuns == Gateway!ModeHonoured /\ Gateway!ShellCleared /\ Gateway!OverrideWasShown
\* What a read is answered with is still true.
CachedTrue == Gateway!CachedTrue
\* The first end of a background shell is the one that counts, and its log stays
\* in its bounds and is told whole or with its gaps.
ShellsHold ==
    /\ Background!EndIsFinal
    /\ [](Background!TypeOK /\ Background!ReadsTile /\ Background!LogBounded)
\* A command in the background does not outlive its cap; one that is waited for
\* comes to its end, and so do its processes when it is interrupted, as long as
\* the program that waits stays for its timers.
CommandsEnd == Background!ShellsDie /\ Line!LineSettles /\ Line!AbortedLineDies
\* A green suite ran every gate.
GreenIsComplete == Suite!GreenIsComplete
\* A full window opens again, and its callers get their answer.
LimiterLetsGo == Limiter!WindowReopens /\ Limiter!WaitEnds
\* A listed profile has its secret.
SecretFirst == Credential!SecretFirst
================================================================================
