------------------------------- MODULE Access -------------------------------
(***************************************************************************)
(* Accounts, passwords, browser sessions, OIDC sign-in flows and           *)
(* memberships of one Organization, as the store keeps them, and the HTTP  *)
(* requests that read them in one statement and write them in another.     *)
(*                                                                         *)
(* A step is one committed statement or transaction.  Issuing a local      *)
(* session and replacing a password lock the same local_password row, and  *)
(* bootstrap locks app_user, so each of these is one step.  A change of    *)
(* membership is two: it locks its own row and counts the other admins,    *)
(* which nothing locks, and commits later.                                 *)
(***************************************************************************)
EXTENDS Naturals, FiniteSets

CONSTANTS
    Local,          \* Users with a password, issuer opencluster:local
    Federated,      \* Users of the deployment's OIDC issuer
    Roles,          \* roles that are handed out, a subset of KnownRoles
    Words,          \* passwords
    SessionIds,     \* sessions that may ever be issued
    Flows,          \* OIDC states that may ever be minted
    Requests,       \* HTTP requests in flight
    None,
    MaxHashes,      \* bound: verifiers ever stored
    MaxPasswordChecks,  \* maxConcurrentPasswordChecks
    PruneBatch,     \* sessions removed by one sweep
    BootstrapConfigured \* a bootstrap token is configured

Users == Local \cup Federated
KnownRoles == {"admin", "editor", "viewer"}

ASSUME AccessAssumption ==
    /\ Local \cap Federated = {} /\ SessionIds \cap Flows = {}
    /\ IsFiniteSet(Requests)
    /\ Roles \subseteq KnownRoles
    /\ None \notin Users \cup KnownRoles \cup Words \cup SessionIds \cup Flows \cup Nat
    /\ MaxHashes \in Nat /\ MaxPasswordChecks \in Nat /\ PruneBatch \in Nat \ {0}
    /\ BootstrapConfigured \in BOOLEAN

VARIABLES
    account,    \* app_user: absent, enabled or disabled
    role,       \* organization_membership
    verifier,   \* local_password
    hashes,     \* verifiers stored so far: each has its own salt
    session,    \* session rows; a digest is never used again
    flow,       \* oidc_sign_in_flow rows
    request     \* what each request in flight remembers

vars == <<account, role, verifier, hashes, session, flow, request>>

\* A verifier: the password it accepts, its salt, whether it was made with other
\* argon2 parameters than this build's, and how often the password has been
\* replaced (a change or a recovery, not a rehash).
NoVerifier == [word |-> None, salt |-> 0, dated |-> FALSE, era |-> 0]
NoSession == [state |-> "unissued", user |-> None, era |-> 0, via |-> None]
Idle == [op |-> "idle", who |-> None, user |-> None, hash |-> NoVerifier,
         via |-> None, wanted |-> None]

Init ==
    /\ account = [u \in Users |-> "absent"]
    /\ role = [u \in Users |-> None]
    /\ verifier = [u \in Local |-> NoVerifier]
    /\ hashes = 0
    /\ session = [s \in SessionIds |-> NoSession]
    /\ flow = [f \in Flows |-> "unminted"]
    /\ request = [r \in Requests |-> Idle]

-----------------------------------------------------------------------------
(* What every protected route checks first. *)

\* Permissions by who has them: what every role reads, what an editor may do
\* besides, and what only an admin may.
Granted(r) ==
    CASE r = "admin"  -> {"read", "operate", "administer"}
      [] r = "editor" -> {"read", "operate"}
      [] r = "viewer" -> {"read"}
      [] OTHER -> {}

\* The permission each kind of protected route asks for.
Routes == [password |-> "any", manage |-> "administer"]

Member(u) == role[u] \in KnownRoles

\* SessionByToken: the session is there and not expired, its User enabled and a
\* member.
SignedIn(s) ==
    /\ session[s].state = "live"
    /\ account[session[s].user] = "enabled"
    /\ Member(session[s].user)

\* Resolve: the Principal a session stands for at this moment.
Principal(s) == [who |-> session[s].user, rights |-> role[session[s].user]]

\* Guard.protect: the handler of a route runs with the Principal resolved now.
Protect(r, s, op) ==
    /\ request[r] = Idle
    /\ SignedIn(s)
    /\ Routes[op] \in Granted(Principal(s).rights) \cup {"any"}
    /\ request' = [request EXCEPT ![r] =
            [Idle EXCEPT !.op = op, !.who = Principal(s).who, !.via = s]]
    /\ UNCHANGED <<account, role, verifier, hashes, session, flow>>

Done(r) == request' = [request EXCEPT ![r] = Idle]

\* A request holds one of the slots for password checks until it ends.
Checking == {r \in Requests : request[r].op \in {"signin", "rehashed", "verified"}}

-----------------------------------------------------------------------------
(* Passwords. *)

\* A verifier as hashPassword makes it: a fresh salt, this build's parameters.
HashPassword(w, era) == [word |-> w, salt |-> hashes + 1, dated |-> FALSE, era |-> era]

\* verifyPassword compares what the password hashes to under the stored salt.
VerifyPassword(hash, w) == hash.word = w

\* A row of app_user, its membership and its password, inserted by one transaction.
Insert(u, w, granted) ==
    /\ hashes < MaxHashes
    /\ account' = [account EXCEPT ![u] = "enabled"]
    /\ role' = [role EXCEPT ![u] = granted]
    /\ \E dated \in BOOLEAN :
            verifier' = [verifier EXCEPT ![u] = [HashPassword(w, 0) EXCEPT !.dated = dated]]
    /\ hashes' = hashes + 1

NewSession(s, u, era, via) ==
    /\ session[s] = NoSession
    /\ session' = [session EXCEPT ![s] =
            [state |-> "live", user |-> u, era |-> era, via |-> via]]

\* The first administrator, with the Organization and a session: only into an
\* empty app_user.
BootstrapLocalUser(u, w, s) ==
    /\ \A x \in Users : account[x] = "absent"
    /\ Insert(u, w, "admin")
    /\ NewSession(s, u, 0, None)
    /\ UNCHANGED <<flow, request>>

\* The route takes the deployment's bootstrap token.
BootstrapLocalAdmin(u, w, s) == BootstrapConfigured /\ BootstrapLocalUser(u, w, s)

\* The issuer and subject are unique, so an account whose membership was removed
\* is not made again.
CreateLocalMember(u, w, granted) ==
    /\ account[u] = "absent"
    /\ Insert(u, w, granted)

\* An admin creates a member.
CreateMember(r, u, w, granted) ==
    /\ request[r].op = "manage"
    /\ CreateLocalMember(u, w, granted)
    /\ Done(r)
    /\ UNCHANGED <<session, flow>>

\* LocalIdentityByEmail: an enabled local User with a password and a membership.
LocalIdentity(u) ==
    account[u] = "enabled" /\ Member(u) /\ verifier[u] # NoVerifier

\* localSignIn up to the check of the password: the verifier it read is kept.
LocalSignIn(r, u, w) ==
    /\ request[r] = Idle
    /\ Cardinality(Checking) < MaxPasswordChecks
    /\ LocalIdentity(u) /\ VerifyPassword(verifier[u], w)
    /\ request' = [request EXCEPT ![r] =
            [Idle EXCEPT !.op = "signin", !.user = u, !.hash = verifier[u]]]
    /\ UNCHANGED <<account, role, verifier, hashes, session, flow>>

\* Mutant: the rehash does not compare the verifier it replaces.
RehashBlindly(r) ==
    LET replacement == HashPassword(request[r].hash.word, request[r].hash.era)
    IN  /\ request[r].op = "signin"
        /\ request[r].hash.dated
        /\ hashes < MaxHashes
        /\ hashes' = hashes + 1
        /\ verifier' = [verifier EXCEPT ![request[r].user] = replacement]
        /\ request' = [request EXCEPT ![r].op = "rehashed", ![r].hash = replacement]
        /\ UNCHANGED <<account, role, session, flow>>

\* RehashLocalPassword: replace the verifier if it is still the one that was read;
\* the request goes on with its replacement either way.
RehashLocalPassword(r) ==
    LET u == request[r].user
        replacement == HashPassword(request[r].hash.word, request[r].hash.era)
    IN  /\ request[r].op = "signin"
        /\ request[r].hash.dated
        /\ hashes < MaxHashes
        /\ hashes' = hashes + 1
        /\ verifier' = IF verifier[u] = request[r].hash /\ role[u] # None
                       THEN [verifier EXCEPT ![u] = replacement]
                       ELSE verifier
        /\ request' = [request EXCEPT ![r].op = "rehashed", ![r].hash = replacement]
        /\ UNCHANGED <<account, role, session, flow>>

\* Mutant: the verifier is not compared again.
IssueUnchecked(r, s) ==
    LET u == request[r].user
    IN  /\ \/ request[r].op = "signin" /\ ~request[r].hash.dated
           \/ request[r].op = "rehashed"
        /\ account[u] = "enabled"
        /\ NewSession(s, u, request[r].hash.era, None)
        /\ Done(r)
        /\ UNCHANGED <<account, role, verifier, hashes, flow>>

\* IssueLocalSession: under the shared lock of the password row, only if the
\* verifier is the one the request checked.
IssueLocalSession(r, s) ==
    LET u == request[r].user
    IN  /\ \/ request[r].op = "signin" /\ ~request[r].hash.dated
           \/ request[r].op = "rehashed"
        /\ \/ /\ account[u] = "enabled" /\ verifier[u] = request[r].hash
              /\ NewSession(s, u, request[r].hash.era, None)
           \/ /\ ~(account[u] = "enabled" /\ verifier[u] = request[r].hash)
              /\ UNCHANGED session
        /\ Done(r)
        /\ UNCHANGED <<account, role, verifier, hashes, flow>>

\* LocalPasswordHash: the Principal is an enabled local User.
LocalPasswordHash(u) == u \in Local /\ account[u] = "enabled"

\* changeLocalPassword up to the check of the current password.
CheckLocalPassword(r, w) ==
    LET u == request[r].who
    IN  /\ request[r].op = "password"
        /\ Cardinality(Checking) < MaxPasswordChecks
        /\ LocalPasswordHash(u) /\ VerifyPassword(verifier[u], w)
        /\ request' = [request EXCEPT ![r] =
                [Idle EXCEPT !.op = "verified", !.user = u, !.hash = verifier[u]]]
        /\ UNCHANGED <<account, role, verifier, hashes, session, flow>>

\* replaceLocalPassword: the new verifier and the end of every session of the
\* User, in one transaction.
ReplaceLocalPassword(u, w) ==
    /\ account[u] = "enabled"
    /\ hashes < MaxHashes
    /\ hashes' = hashes + 1
    /\ verifier' = [verifier EXCEPT ![u] = HashPassword(w, verifier[u].era + 1)]
    /\ session' = [s \in SessionIds |->
            IF session[s].user = u THEN [session[s] EXCEPT !.state = "gone"] ELSE session[s]]

ChangeLocalPassword(r, w) ==
    LET u == request[r].user
    IN  /\ request[r].op = "verified"
        /\ \/ verifier[u] = request[r].hash /\ ReplaceLocalPassword(u, w)
           \/ verifier[u] # request[r].hash /\ UNCHANGED <<verifier, hashes, session>>
        /\ Done(r)
        /\ UNCHANGED <<account, role, flow>>

\* The deployment operator's recovery command names no previous verifier.
RecoverLocalPassword(u, w) ==
    /\ verifier[u] # NoVerifier
    /\ ReplaceLocalPassword(u, w)
    /\ UNCHANGED <<account, role, flow, request>>

-----------------------------------------------------------------------------
(* OIDC sign-in. *)

\* StartDeploymentSignIn: clear expired flows and insert this one.
StartDeploymentSignIn(f) ==
    /\ flow' = [g \in Flows |-> CASE g = f -> "open"
                                  [] flow[g] = "expired" -> "gone"
                                  [] OTHER -> flow[g]]
    /\ UNCHANGED <<account, role, verifier, hashes, session, request>>

\* The browser is sent to the provider with a state minted for it.
StartOIDCSignIn(f) == flow[f] = "unminted" /\ StartDeploymentSignIn(f)

\* Mutant: the flow is read, and its row left to expire.
ReadFlow(r, f) ==
    /\ request[r] = Idle
    /\ flow[f] = "open"
    /\ request' = [request EXCEPT ![r] = [Idle EXCEPT !.op = "redeemed", !.via = f]]
    /\ UNCHANGED <<account, role, verifier, hashes, session, flow>>

\* The callback redeems its state by deleting the row.
RedeemDeploymentSignIn(r, f) ==
    /\ request[r] = Idle
    /\ flow[f] = "open"
    /\ flow' = [flow EXCEPT ![f] = "gone"]
    /\ request' = [request EXCEPT ![r] = [Idle EXCEPT !.op = "redeemed", !.via = f]]
    /\ UNCHANGED <<account, role, verifier, hashes, session>>

\* Exchange: the provider asserts a User whose token answers this flow's nonce,
\* or the sign-in ends.
Exchange(r, u) ==
    /\ request[r].op = "redeemed"
    /\ request' = [request EXCEPT ![r] =
            IF u = None THEN Idle ELSE [@ EXCEPT !.op = "asserted", !.user = u]]
    /\ UNCHANGED <<account, role, verifier, hashes, session, flow>>

\* OIDCIdentity: the asserted User must exist, be a member and be enabled.
OIDCIdentity(r) ==
    LET u == request[r].user
    IN  /\ request[r].op = "asserted"
        /\ request' = [request EXCEPT ![r] =
                IF account[u] = "enabled" /\ Member(u)
                THEN [@ EXCEPT !.op = "identified"] ELSE Idle]
        /\ UNCHANGED <<account, role, verifier, hashes, session, flow>>

IssueSession(r, s) ==
    /\ request[r].op = "identified"
    /\ NewSession(s, request[r].user, 0, request[r].via)
    /\ Done(r)
    /\ UNCHANGED <<account, role, verifier, hashes, flow>>

\* The callback, one call after the other.
CompleteOIDCSignIn(r) ==
    \/ \E f \in Flows : RedeemDeploymentSignIn(r, f)
    \/ \E u \in Federated \cup {None} : Exchange(r, u)
    \/ OIDCIdentity(r)
    \/ \E s \in SessionIds : IssueSession(r, s)

-----------------------------------------------------------------------------
(* Memberships and the end of sessions. *)

\* refuseIfLastAdmin counts the other admins that are committed.
OtherAdmins(u) == {x \in Users \ {u} : role[x] = "admin"}

\* A change of membership up to the count: the User's own row is locked, the
\* others are only counted.
LockMembership(r, u, wanted) ==
    /\ request[r].op = "manage"
    /\ \A q \in Requests : ~(request[q].op = "locked" /\ request[q].user = u)
    /\ request' = [request EXCEPT ![r] =
            IF \/ role[u] = None
               \/ role[u] = "admin" /\ wanted # "admin" /\ OtherAdmins(u) = {}
            THEN Idle
            ELSE [Idle EXCEPT !.op = "locked", !.user = u, !.wanted = wanted]]
    /\ UNCHANGED <<account, role, verifier, hashes, session, flow>>

UpdateMembership(r, u, wanted) == LockMembership(r, u, wanted)

RemoveMembership(r, u) == LockMembership(r, u, None)

\* The change and its audit event commit together.
CommitMembership(r) ==
    /\ request[r].op = "locked"
    /\ role' = [role EXCEPT ![request[r].user] = request[r].wanted]
    /\ Done(r)
    /\ UNCHANGED <<account, verifier, hashes, session, flow>>

\* Signing out resolves the session by itself; one that is gone is signed out.
SignOut(r, s) ==
    /\ request[r] = Idle
    /\ SignedIn(s)
    /\ request' = [request EXCEPT ![r] = [Idle EXCEPT !.op = "signout", !.via = s]]
    /\ UNCHANGED <<account, role, verifier, hashes, session, flow>>

DeleteCurrentSession(r) ==
    /\ request[r].op = "signout"
    /\ session' = [session EXCEPT ![request[r].via].state = "gone"]
    /\ Done(r)
    /\ UNCHANGED <<account, role, verifier, hashes, flow>>

\* The sweep: the oldest expired sessions, at most a batch of them.
PruneSessions ==
    LET expired == {s \in SessionIds : session[s].state = "expired"}
    IN  \E S \in SUBSET expired :
            /\ S # {}
            /\ Cardinality(S) = PruneBatch \/ (S = expired /\ Cardinality(S) < PruneBatch)
            /\ session' = [s \in SessionIds |->
                    IF s \in S THEN [session[s] EXCEPT !.state = "gone"] ELSE session[s]]
            /\ UNCHANGED <<account, role, verifier, hashes, flow, request>>

\* Time passes for a session or a flow.
Expire ==
    /\ \/ /\ \E s \in SessionIds :
                /\ session[s].state = "live"
                /\ session' = [session EXCEPT ![s].state = "expired"]
          /\ UNCHANGED flow
       \/ /\ \E f \in Flows :
                /\ flow[f] = "open"
                /\ flow' = [flow EXCEPT ![f] = "expired"]
          /\ UNCHANGED session
    /\ UNCHANGED <<account, role, verifier, hashes, request>>

\* A handler gives up: an error of the database, a refusal, a closed connection.
Abandon(r) ==
    /\ request[r] # Idle
    /\ Done(r)
    /\ UNCHANGED <<account, role, verifier, hashes, session, flow>>

\* The deployment's operator provisions a federated member or disables a User
\* in the database; no code of this repository does.
Provision(u, granted) ==
    /\ account[u] = "absent"
    /\ account' = [account EXCEPT ![u] = "enabled"]
    /\ role' = [role EXCEPT ![u] = granted]
    /\ UNCHANGED <<verifier, hashes, session, flow, request>>

Disable(u) ==
    /\ account[u] = "enabled"
    /\ account' = [account EXCEPT ![u] = "disabled"]
    /\ UNCHANGED <<role, verifier, hashes, session, flow, request>>

Next ==
    \/ \E u \in Local, w \in Words :
            \/ \E s \in SessionIds : BootstrapLocalAdmin(u, w, s)
            \/ RecoverLocalPassword(u, w)
    \/ \E r \in Requests :
        \/ \E s \in SessionIds :
            \/ \E op \in DOMAIN Routes : Protect(r, s, op)
            \/ SignOut(r, s)
            \/ IssueLocalSession(r, s)
        \/ \E u \in Local, w \in Words :
            \/ LocalSignIn(r, u, w)
            \/ \E granted \in Roles : CreateMember(r, u, w, granted)
        \/ \E w \in Words : CheckLocalPassword(r, w) \/ ChangeLocalPassword(r, w)
        \/ RehashLocalPassword(r)
        \/ CompleteOIDCSignIn(r)
        \/ \E u \in Users : RemoveMembership(r, u)
        \/ \E u \in Users, wanted \in Roles : UpdateMembership(r, u, wanted)
        \/ CommitMembership(r)
        \/ DeleteCurrentSession(r)
        \/ Abandon(r)
    \/ \E f \in Flows : StartOIDCSignIn(f)
    \/ PruneSessions
    \/ Expire
    \/ \E u \in Federated, granted \in Roles : Provision(u, granted)
    \/ \E u \in Users : Disable(u)

Spec == Init /\ [][Next]_vars

-----------------------------------------------------------------------------
(* Properties. *)

Eras == 0 .. MaxHashes
Verifiers == [word : Words \cup {None}, salt : 0 .. MaxHashes, dated : BOOLEAN, era : Eras]
SessionRows == [state : {"unissued", "live", "expired", "gone"}, user : Users \cup {None},
                era : Eras, via : Flows \cup {None}]
Memories ==
    [op : {"idle", "signin", "rehashed", "password", "verified", "manage",
           "signout", "redeemed", "asserted", "identified", "locked"},
     who : Users \cup {None}, user : Users \cup {None}, hash : Verifiers,
     via : SessionIds \cup Flows \cup {None}, wanted : KnownRoles \cup {None}]

TypeOK ==
    /\ account \in [Users -> {"absent", "enabled", "disabled"}]
    /\ role \in [Users -> Roles \cup {"admin", None}]
    /\ verifier \in [Local -> Verifiers]
    /\ hashes \in 0 .. MaxHashes
    /\ session \in [SessionIds -> SessionRows]
    /\ flow \in [Flows -> {"unminted", "open", "expired", "gone"}]
    /\ request \in [Requests -> Memories]

\* Accounts are made whole: a local account has its password from the start, a
\* membership or a session belongs to an account, no two verifiers share a salt,
\* and no more passwords are being checked than there are slots.
Consistent ==
    /\ TypeOK
    /\ \A u \in Local : account[u] # "absent" <=> verifier[u] # NoVerifier
    /\ \A u \in Users : role[u] # None => account[u] # "absent"
    /\ \A s \in SessionIds : session[s].state # "unissued" =>
            session[s].user \in Users /\ account[session[s].user] # "absent"
    /\ \A u, v \in Local : u # v /\ verifier[u] # NoVerifier => verifier[u].salt # verifier[v].salt
    /\ Cardinality(Checking) <= MaxPasswordChecks

\* No session outlives the password it was opened with: a sign-in that checked
\* the old password, before, during or after a rehash, cannot leave a session
\* behind a change or a recovery (IssueLocalSession against replaceLocalPassword).
\* Accounts, sessions and verifiers are whole.
SessionsFollowThePassword ==
    /\ Consistent
    /\ \A s \in SessionIds :
        session[s].state \in {"live", "expired"} /\ session[s].user \in Local =>
            session[s].era = verifier[session[s].user].era

\* A password that was replaced does not come back, and no other step than a
\* change or a recovery replaces one: a late rehash of a sign-in least of all
\* (RehashLocalPassword).
PasswordsDoNotComeBack ==
    [][\A u \in Local :
        verifier[u] # NoVerifier /\ verifier'[u] # verifier[u] =>
            \/ verifier'[u].era = verifier[u].era + 1
            \/ verifier'[u].era = verifier[u].era /\ verifier'[u].word = verifier[u].word]_vars

\* A callback that is replayed, on whatever replica, signs in at most once: a flow
\* is in at most one request or session, and none while it can be redeemed
\* (RedeemDeploymentSignIn).
FlowsAreRedeemedOnce ==
    \A f \in Flows :
        LET held == {r \in Requests : request[r].via = f}
            opened == {s \in SessionIds : session[s].via = f}
        IN  /\ Cardinality(held) + Cardinality(opened) <= 1
            /\ held \cup opened # {} => flow[f] = "gone"

\* ErrLastAdmin: "an organization must keep at least one admin".  Local accounts
\* exist only where there has been one (refuseIfLastAdmin).
KeepsAnAdmin ==
    (\E u \in Local : account[u] # "absent") => (\E u \in Users : role[u] = "admin")

=============================================================================
