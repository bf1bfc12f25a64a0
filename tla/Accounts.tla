--------------------------------- MODULE Accounts -------------------------------
(***************************************************************************)
(* Login with a device code, and the credits of the users.  The terminal   *)
(* gets a code and polls for its token; the user approves the code in the  *)
(* browser, which makes a row for an identity that has none and grants it  *)
(* a bonus; the turns of a user are admitted on the balance and debited    *)
(* when they end.  The handlers interleave, and the server may die.        *)
(***************************************************************************)
EXTENDS Integers, Sequences, FiniteSets, FiniteSetsExt

CONSTANTS Identities,   \* what the identity provider vouches for; all on one machine
          Codes, Handlers, Turns,
          Bonus, MaxAccounts, MaxCost   \* MaxAccounts: the threshold of a machine

ASSUME BonusIsAGift == Bonus \in Nat

VARIABLES
    users,     \* identity -> [credits, used], or NoUser
    flagged,
    ledger,    \* identity -> its rows <<delta, balance_after>>
    code,      \* code -> [state, user]
    handler,   \* an approval: [at, id, code, abused]
    turn,      \* the identity of a running turn, or Nobody
    login,     \* of the terminal: [at, code, token]
    deaths

accountVars == <<users, flagged, ledger, code, handler, turn, login, deaths>>

Nobody == "nobody"
NoUser == [credits |-> -1, used |-> 0]
Known(id) == users[id] # NoUser
IdleHandler == [at |-> "idle", id |-> Nobody, code |-> Nobody, abused |-> FALSE]

Init ==
    /\ users = [id \in Identities |-> NoUser] /\ flagged = {}
    /\ ledger = [id \in Identities |-> <<>>]
    /\ code = [c \in Codes |-> [state |-> "none", user |-> Nobody]]
    /\ handler = [h \in Handlers |-> IdleHandler]
    /\ turn = [t \in Turns |-> Nobody]
    /\ login = [at |-> "out", code |-> Nobody, token |-> Nobody]
    /\ deaths = 0

-----------------------------------------------------------------------------
(* The terminal. *)

\* runDeviceLogin: a fresh code, then the loop.
StartDeviceCode(c) ==
    /\ login.at # "polling" /\ code[c].state = "none"
    /\ code' = [code EXCEPT ![c].state = "live"]
    /\ login' = [login EXCEPT !.at = "polling", !.code = c]
    /\ UNCHANGED <<users, flagged, ledger, handler, turn, deaths>>

PollDeviceToken(record) ==
    IF record.state = "expired" THEN "expired_token"
    ELSE IF record.user = Nobody THEN "authorization_pending" ELSE "approved"

\* A login that fails leaves the token of an earlier one.
LoginFailed == [login EXCEPT !.at = IF login.token = Nobody THEN "out" ELSE "in"]

\* One poll.  A code may be polled for another token until it expires.
Poll ==
    LET record == code[login.code]
        result == PollDeviceToken(record) IN
    /\ login.at = "polling" /\ result # "authorization_pending"
    /\ login' = IF result = "approved"
                THEN [login EXCEPT !.at = "in", !.token = record.user]
                ELSE LoginFailed
    /\ UNCHANGED <<users, flagged, ledger, code, handler, turn, deaths>>

\* The server cannot be reached, or the terminal's own deadline has passed.
PollFails ==
    /\ login.at = "polling" /\ login' = LoginFailed
    /\ UNCHANGED <<users, flagged, ledger, code, handler, turn, deaths>>

\* /logout.
ClearToken ==
    /\ login.at = "in"
    /\ login' = [login EXCEPT !.at = "out", !.token = Nobody]
    /\ UNCHANGED <<users, flagged, ledger, code, handler, turn, deaths>>

\* Ten minutes are over.
Expire(c) ==
    /\ code[c].state = "live"
    /\ code' = [code EXCEPT ![c].state = "expired"]
    /\ UNCHANGED <<users, flagged, ledger, handler, turn, login, deaths>>

-----------------------------------------------------------------------------
(* approveDevice: each query of it is a step. *)

Goto(h, at) == handler' = [handler EXCEPT ![h].at = at]

\* getUserBySubject.
ApproveDevice(h, id, c) ==
    /\ handler[h] = IdleHandler /\ code[c].state # "none"
    /\ handler' = [handler EXCEPT ![h] =
        [at |-> IF Known(id) THEN "approve" ELSE "count", id |-> id, code |-> c, abused |-> FALSE]]
    /\ UNCHANGED <<users, flagged, ledger, code, turn, login, deaths>>

CountSignupSignals(h) ==
    /\ handler[h].at = "count"
    /\ handler' = [handler EXCEPT ![h].at = "create",
        ![h].abused = Cardinality({id \in Identities : Known(id)}) >= MaxAccounts]
    /\ UNCHANGED <<users, flagged, ledger, code, turn, login, deaths>>

\* createUser: an insert, or nothing when there is a row by now.
CreateUser(h) ==
    LET id == handler[h].id IN
    /\ handler[h].at = "create"
    /\ users' = IF Known(id) THEN users ELSE [users EXCEPT ![id] = [credits |-> 0, used |-> 0]]
    /\ Goto(h, "grant")
    /\ UNCHANGED <<flagged, ledger, code, turn, login, deaths>>

\* A transaction on the user's row and the ledger.
Book(id, delta, spent) ==
    /\ users' = [users EXCEPT ![id].credits = @ + delta, ![id].used = @ + spent]
    /\ ledger' = [ledger EXCEPT ![id] = Append(@, <<delta, users[id].credits + delta>>)]

\* markUserFlagged or grantCredits.
GrantOrFlag(h) ==
    /\ handler[h].at = "grant"
    /\ IF handler[h].abused
       THEN flagged' = flagged \cup {handler[h].id} /\ UNCHANGED <<users, ledger>>
       ELSE Book(handler[h].id, Bonus, 0) /\ UNCHANGED flagged
    /\ Goto(h, "approve")
    /\ UNCHANGED <<code, turn, login, deaths>>

\* approveDeviceCode: a live code, whoever has approved it before.
ApproveDeviceCode(h) ==
    LET c == handler[h].code IN
    /\ handler[h].at = "approve"
    /\ code' = [code EXCEPT ![c].user = IF code[c].state = "live" THEN handler[h].id ELSE @]
    /\ handler' = [handler EXCEPT ![h] = IdleHandler]
    /\ UNCHANGED <<users, flagged, ledger, turn, login, deaths>>

-----------------------------------------------------------------------------
(* Turns. *)

\* A turn is admitted on a positive balance.
StartTurn(t, id) ==
    /\ turn[t] = Nobody /\ Known(id) /\ users[id].credits > 0
    /\ \E c \in Codes : code[c].user = id
    /\ turn' = [turn EXCEPT ![t] = id]
    /\ UNCHANGED <<users, flagged, ledger, code, handler, login, deaths>>

\* Mutant of Covers: the balance was checked when the turn was admitted.
CoversAtStart(id, cost) == TRUE

\* The condition inside debitCredits' update.
Covers(id, cost) == users[id].credits >= cost

\* The turn ends and its cost is debited, if the balance covers it; otherwise
\* nothing is, and nobody hears of it.
DebitCredits(t, cost) ==
    /\ turn[t] # Nobody
    /\ IF cost > 0 /\ Covers(turn[t], cost) THEN Book(turn[t], -cost, cost)
       ELSE UNCHANGED <<users, ledger>>
    /\ turn' = [turn EXCEPT ![t] = Nobody]
    /\ UNCHANGED <<flagged, code, handler, login, deaths>>

\* The server dies with its handlers and turns; the database stays.
Die ==
    /\ deaths = 0 /\ deaths' = 1
    /\ handler' = [h \in Handlers |-> IdleHandler]
    /\ turn' = [t \in Turns |-> Nobody]
    /\ UNCHANGED <<users, flagged, ledger, code, login>>

Next ==
    \/ \E c \in Codes : StartDeviceCode(c) \/ Expire(c)
    \/ Poll \/ PollFails \/ ClearToken
    \/ \E h \in Handlers :
        \/ \E id \in Identities, c \in Codes : ApproveDevice(h, id, c)
        \/ CountSignupSignals(h) \/ CreateUser(h) \/ GrantOrFlag(h) \/ ApproveDeviceCode(h)
    \/ \E t \in Turns : \/ \E id \in Identities : StartTurn(t, id)
                        \/ \E cost \in 0..MaxCost : DebitCredits(t, cost)
    \/ Die

Spec == Init /\ [][Next]_accountVars

-----------------------------------------------------------------------------

\* No balance is ever negative, however many turns end at once, and replaying
\* the ledger gives it (migrations.ts:169, PostgresSessionStore.ts:532).
BalanceReconciles ==
    \A id \in Identities : Known(id) =>
        LET book == ledger[id]
            after(k) == IF k = 0 THEN 0 ELSE book[k][2] IN
        /\ users[id].credits >= 0 /\ users[id].credits = after(Len(book))
        /\ \A k \in DOMAIN book : book[k][2] = after(k - 1) + book[k][1]

\* The terminal is logged in only as a user who exists and approved its code.
TokenIsSomeones ==
    login.at = "in" => login.token \in Identities /\ Known(login.token)

\* An identity gets the signup bonus once (deviceFlow.ts:88-116).
BonusOnce == \A id \in Identities : Cardinality({k \in DOMAIN ledger[id] : ledger[id][k][1] > 0}) <= 1
================================================================================
