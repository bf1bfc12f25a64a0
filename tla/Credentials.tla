------------------------------- MODULE Credentials -----------------------------
(***************************************************************************)
(* The credential profiles of a user: a registry file of profiles and the  *)
(* keychain of the system with their secrets.  Two terminals may create    *)
(* and delete profiles at the same time, each reading the file, changing   *)
(* it and putting the new one in its place; the keychain and the file may  *)
(* refuse, and a terminal may die between two steps.                       *)
(***************************************************************************)
EXTENDS Integers, FiniteSets

CONSTANTS Terminals, Profiles,
          FromEnvironment,   \* profiles that have an environment variable for a secret
          MaxDeaths          \* bound

VARIABLES
    registry,  \* the profiles of the file
    secrets,   \* the profiles with an entry in the keychain
    terminal,  \* [at, profile, read]
    created,   \* profiles somebody began to create: their ids are new
    deleted,   \* profiles somebody began to delete
    deaths

credentialVars == <<registry, secrets, terminal, created, deleted, deaths>>

NoProfile == "none"
Idle == [at |-> "idle", profile |-> NoProfile, read |-> {}]

Init ==
    /\ registry = {} /\ secrets = {}
    /\ terminal = [t \in Terminals |-> Idle]
    /\ created = {} /\ deleted = {} /\ deaths = 0

Goto(t, at) == terminal' = [terminal EXCEPT ![t].at = at]
Leave(t) == terminal' = [terminal EXCEPT ![t] = Idle]

\* createCredentialProfile, past the checks of its input.
Create(t, p) ==
    /\ terminal[t] = Idle /\ p \notin created
    /\ created' = created \cup {p}
    /\ terminal' = [terminal EXCEPT ![t] =
        [Idle EXCEPT !.at = IF p \in FromEnvironment THEN "read" ELSE "set secret", !.profile = p]]
    /\ UNCHANGED <<registry, secrets, deleted, deaths>>

\* Mutant of SetSecret: a keychain that refuses is passed over.
SetSecretOrNot(t) ==
    /\ terminal[t].at = "set secret"
    /\ secrets' = secrets \cup {terminal[t].profile} \/ UNCHANGED secrets
    /\ Goto(t, "read")
    /\ UNCHANGED <<registry, created, deleted, deaths>>

\* The secret first; a keychain that refuses ends the creation.
SetSecret(t) ==
    /\ terminal[t].at = "set secret"
    /\ \/ secrets' = secrets \cup {terminal[t].profile} /\ Goto(t, "read")
       \/ UNCHANGED secrets /\ Leave(t)
    /\ UNCHANGED <<registry, created, deleted, deaths>>

\* readRegistry, by a creation.  A malformed file is an error.
ReadRegistry(t) ==
    /\ terminal[t].at = "read"
    /\ \/ terminal' = [terminal EXCEPT ![t].at = "write", ![t].read = registry]
       \/ Goto(t, "clean up")
    /\ UNCHANGED <<registry, secrets, created, deleted, deaths>>

\* writeRegistry: a file of its own takes the place of the old one, or not.
WriteRegistry(t) ==
    /\ terminal[t].at = "write"
    /\ \/ registry' = terminal[t].read \cup {terminal[t].profile} /\ Leave(t)
       \/ UNCHANGED registry /\ Goto(t, "clean up")
    /\ UNCHANGED <<secrets, created, deleted, deaths>>

\* The creation failed: its secret goes, if the keychain lets it.
CleanUp(t) ==
    /\ terminal[t].at = "clean up"
    /\ secrets' = secrets \ {terminal[t].profile} \/ UNCHANGED secrets
    /\ Leave(t)
    /\ UNCHANGED <<registry, created, deleted, deaths>>

\* deleteCredentialProfile of a profile the file lists.
Delete(t, p) ==
    /\ terminal[t] = Idle /\ p \in registry
    /\ deleted' = deleted \cup {p}
    /\ terminal' = [terminal EXCEPT ![t] = [at |-> "unlist", profile |-> p, read |-> registry]]
    /\ UNCHANGED <<registry, secrets, created, deaths>>

\* The file first, the secret after it.
Unlist(t) ==
    /\ terminal[t].at = "unlist"
    /\ \/ /\ registry' = terminal[t].read \ {terminal[t].profile}
          /\ IF terminal[t].profile \in FromEnvironment THEN Leave(t) ELSE Goto(t, "forget")
       \/ UNCHANGED registry /\ Leave(t)
    /\ UNCHANGED <<secrets, created, deleted, deaths>>

\* A keychain that refuses is passed over.
Forget(t) ==
    /\ terminal[t].at = "forget"
    /\ secrets' = secrets \ {terminal[t].profile} \/ UNCHANGED secrets
    /\ Leave(t)
    /\ UNCHANGED <<registry, created, deleted, deaths>>

Die(t) ==
    /\ terminal[t] # Idle /\ deaths < MaxDeaths
    /\ deaths' = deaths + 1
    /\ Leave(t)
    /\ UNCHANGED <<registry, secrets, created, deleted>>

Next == \E t \in Terminals :
    \/ \E p \in Profiles : Create(t, p) \/ Delete(t, p)
    \/ SetSecret(t) \/ ReadRegistry(t) \/ WriteRegistry(t) \/ CleanUp(t)
    \/ Unlist(t) \/ Forget(t) \/ Die(t)

Spec == Init /\ [][Next]_credentialVars

-----------------------------------------------------------------------------

Secretless == {p \in registry \ FromEnvironment : p \notin secrets}

\* Whatever fails and whoever dies, a listed profile has its secret, unless a
\* terminal set out to delete it (credential-store.ts:182, 224).
SecretFirst == Secretless \subseteq deleted

\* "cannot produce a broken/secretless profile" (credential-store.ts:183): two
\* terminals can, when one lists again what the other has deleted.
NoSecretless == \A p \in Secretless : \E t \in Terminals : terminal[t].profile = p
================================================================================
