-------------------------------- MODULE ModelCall ------------------------------
(***************************************************************************)
(* One call of a model over the network: the attempts of fetchWithRetry    *)
(* with their waits, the stream that follows a good answer, the user's     *)
(* abort at any moment, and the kind of error the orchestrator is told.    *)
(* An abort reaches a request that is under way and a wait that was begun  *)
(* before it; a wait begun after it runs to its end.                       *)
(***************************************************************************)
EXTENDS Integers

CONSTANTS MaxAttempts   \* fetchWithRetry's maxAttempts

Adapters == {"chat", "anthropic", "responses", "gemini"}
Statuses == {200, 400, 401, 413, 429, 500}
Bodies == {"plain", "overflow", "auth", "filter", "encrypted"}

VARIABLES
    adapter,
    phase,      \* "idle", "fetching", "waiting", "streaming" or "settled"
    attempt,
    deaf,       \* the wait was begun after the abort and does not hear it
    stripped,   \* the request was sent again without its reasoning details
    aborted,    \* the signal
    hung,       \* the abort was what ended the call
    outcome     \* "none", "done" or the kind of the error

callVars == <<adapter, phase, attempt, deaf, stripped, aborted, hung, outcome>>

Init ==
    /\ adapter \in Adapters
    /\ phase = "idle" /\ attempt = 0
    /\ deaf = FALSE /\ stripped = FALSE /\ aborted = FALSE /\ hung = FALSE
    /\ outcome = "none"

\* classifyProviderError: the body before the status.
ClassifyProviderError(status, body) ==
    IF status = 413 \/ body = "overflow" THEN "context_overflow"
    ELSE IF status = 401 \/ body = "auth" THEN "auth"
    ELSE IF status = 429 THEN "rate_limit"
    ELSE IF status = 400 THEN IF body = "filter" THEN "content_filter" ELSE "invalid_request"
    ELSE IF status = 500 THEN "server_error"
    ELSE "unknown"

\* toProviderError, for what is not typed yet.
ToProviderError(cause) == IF cause = "abort" THEN "aborted" ELSE "network"

\* What an adapter makes of a throw out of fetchWithRetry: two of them call
\* everything a network error, except in the second request without details.
Thrown(cause) ==
    IF adapter \in {"chat", "anthropic"} /\ ~stripped THEN "network" ELSE ToProviderError(cause)

Settle(kind) == phase' = "settled" /\ outcome' = kind

-----------------------------------------------------------------------------

Start ==
    /\ phase = "idle"
    /\ phase' = "fetching" /\ attempt' = 1
    /\ UNCHANGED <<adapter, deaf, stripped, aborted, hung, outcome>>

\* The key is missing, or the custom model declares it cannot do this: a plain
\* error, that becomes one of the network.
Unsendable ==
    /\ phase = "idle"
    /\ Settle(ToProviderError("unsendable"))
    /\ UNCHANGED <<adapter, attempt, deaf, stripped, aborted, hung>>

Retries(status) == status \in {429, 500} /\ attempt < MaxAttempts

Wait ==
    /\ phase' = "waiting" /\ deaf' = aborted
    /\ UNCHANGED <<adapter, attempt, stripped, aborted, hung, outcome>>

\* The server answers; the abort may have come in the meantime.
WaitsAfter(status) == phase = "fetching" /\ Retries(status) /\ Wait

Streams(status) ==
    /\ phase = "fetching" /\ status = 200
    /\ phase' = "streaming"
    /\ UNCHANGED <<adapter, attempt, deaf, stripped, aborted, hung, outcome>>

\* OpenRouter rejects the encrypted reasoning: once more, without it.
Strips(status, body) == adapter = "chat" /\ status = 400 /\ body = "encrypted" /\ ~stripped
StripsDetails(status, body) ==
    /\ phase = "fetching" /\ Strips(status, body)
    /\ stripped' = TRUE /\ attempt' = 1
    /\ UNCHANGED <<adapter, phase, deaf, aborted, hung, outcome>>

Refuses(status, body) ==
    /\ phase = "fetching" /\ status # 200 /\ ~Retries(status) /\ ~Strips(status, body)
    /\ Settle(ClassifyProviderError(status, body))
    /\ UNCHANGED <<adapter, attempt, deaf, stripped, aborted, hung>>

\* The request fails on the way.
FetchFails ==
    /\ phase = "fetching" /\ ~aborted
    /\ IF attempt = MaxAttempts
       THEN /\ Settle("network")
            /\ UNCHANGED <<adapter, attempt, deaf, stripped, aborted, hung>>
       ELSE Wait

\* Mutant of FetchAborts: the signal is not passed to the request.
FetchAbortsNot == FALSE /\ UNCHANGED callVars

\* A request under the aborted signal, sent or not, fails of it.
FetchAborts ==
    /\ phase = "fetching" /\ aborted
    /\ Settle(Thrown("abort")) /\ hung' = TRUE
    /\ UNCHANGED <<adapter, attempt, deaf, stripped, aborted>>

\* The wait hears the abort.  Behind a status it throws into the handler that
\* knows of aborts, behind an error past it; the kind is the same.
WaitAborts ==
    /\ phase = "waiting" /\ aborted /\ ~deaf
    /\ Settle(Thrown("abort")) /\ hung' = TRUE
    /\ UNCHANGED <<adapter, attempt, deaf, stripped, aborted>>

WaitEnds ==
    /\ phase = "waiting" /\ (~aborted \/ deaf)
    /\ phase' = "fetching" /\ attempt' = attempt + 1
    /\ UNCHANGED <<adapter, deaf, stripped, aborted, hung, outcome>>

StreamEnds ==
    /\ phase = "streaming"
    /\ Settle("done")
    /\ UNCHANGED <<adapter, attempt, deaf, stripped, aborted, hung>>

\* The connection breaks, or the abort breaks it: no adapter is in between.
StreamBreaks ==
    /\ phase = "streaming"
    /\ Settle(ToProviderError(IF aborted THEN "abort" ELSE "reset")) /\ hung' = aborted
    /\ UNCHANGED <<adapter, attempt, deaf, stripped, aborted>>

Abort ==
    /\ ~aborted /\ phase # "settled"
    /\ aborted' = TRUE
    /\ UNCHANGED <<adapter, phase, attempt, deaf, stripped, hung, outcome>>

Next ==
    \/ Start \/ Unsendable
    \/ \E status \in Statuses :
        \/ WaitsAfter(status)
        \/ Streams(status)
        \/ \E body \in Bodies : StripsDetails(status, body) \/ Refuses(status, body)
    \/ FetchFails \/ FetchAborts \/ WaitAborts \/ WaitEnds
    \/ StreamEnds \/ StreamBreaks \/ Abort

\* Timers fire and the runtime breaks what was aborted; the network and the
\* provider owe nothing: there is no timeout on a request.
Runtime ==
    Start \/ WaitEnds \/ FetchAborts \/ WaitAborts \/ (aborted /\ StreamBreaks)

Spec == Init /\ [][Next]_callVars /\ WF_callVars(Runtime)

-----------------------------------------------------------------------------

\* An aborted call settles, whatever the provider does (utils.ts:58-90).
AbortSettles == aborted ~> phase = "settled"

\* "A cancelled request must stay a cancellation" (utils.ts:79-80).
CancelStaysCancelled == hung => outcome = "aborted"
================================================================================
