--------------------------- MODULE RelayEnrolment ---------------------------
(***************************************************************************)
(* Relays come to be: an operator issues a bootstrap token, a Relay         *)
(* registers with it and receives a credential, and with that it opens      *)
(* sessions.  Flood control sheds registrations, a token is spent and the   *)
(* registration recorded in one transaction.                                *)
(***************************************************************************)
EXTENDS Naturals, FiniteSets

CONSTANTS
    Organizations,      \* org_id
    Tokens,             \* bootstrap tokens
    MaxCalls,           \* bound: Register calls
    PerOrganization,    \* FloodLimits.PerOrganization
    Global,             \* FloodLimits.Global
    MaxTrackedOrgs,     \* FloodLimits.MaxTrackedOrganizations
    NoToken             \* nil

NoOrganization == "none"

ASSUME EnrolmentAssumption ==
    /\ {MaxCalls, PerOrganization, Global, MaxTrackedOrgs} \subseteq Nat
    /\ NoToken \notin Tokens /\ NoOrganization \notin Organizations

\* A call mints the registration_id and the credential it will record.
Calls == 1 .. MaxCalls

VARIABLES
    tokens,         \* relay_bootstrap_token
    tokenLock,      \* the transaction that holds each token's row
    calls,          \* Register calls
    admitted,       \* floodLimiter.perOrgCount
    registrations,  \* relay_registration
    letIn           \* sessions that were let in: registration, organization, credential

enrolmentVars == <<tokens, tokenLock, calls, admitted, registrations, letIn>>

Token == [org : Organizations \cup {NoOrganization}, expired : BOOLEAN, revoked : BOOLEAN,
          consumed : BOOLEAN]
Registration == [id : Calls, credential : Calls, org : Organizations, token : Tokens,
                 revoked : BOOLEAN]

NoCall == [pc |-> "unused", org |-> NoOrganization, token |-> NoToken]

EnrolmentInit ==
    /\ tokens = [t \in Tokens |->
                    [org |-> NoOrganization, expired |-> FALSE, revoked |-> FALSE, consumed |-> FALSE]]
    /\ tokenLock = [t \in Tokens |-> 0]
    /\ calls = [c \in Calls |-> NoCall]
    /\ admitted = [o \in Organizations |-> 0]
    /\ registrations = {}
    /\ letIn = {}

Becomes(c, pc) == calls' = [calls EXCEPT ![c].pc = pc]

-----------------------------------------------------------------------------
(* Tokens. *)

\* IssueOperatorBootstrapToken, with its audit event.
IssueBootstrapToken(t, o) ==
    /\ tokens[t].org = NoOrganization
    /\ tokens' = [tokens EXCEPT ![t].org = o]
    /\ UNCHANGED <<tokenLock, calls, admitted, registrations, letIn>>

\* bootstrapTokenLifetime passes.
Expire(t) ==
    /\ tokens[t].org # NoOrganization /\ ~tokens[t].expired
    /\ tokens' = [tokens EXCEPT ![t].expired = TRUE]
    /\ UNCHANGED <<tokenLock, calls, admitted, registrations, letIn>>

\* revoked_at is set, in the database, by whoever runs it.
RevokeToken(t) ==
    /\ tokens[t].org # NoOrganization /\ ~tokens[t].revoked /\ tokenLock[t] = 0
    /\ tokens' = [tokens EXCEPT ![t].revoked = TRUE]
    /\ UNCHANGED <<tokenLock, calls, admitted, registrations, letIn>>

RevokeRegistration(r) ==
    /\ ~r.revoked
    /\ registrations' = (registrations \ {r}) \cup {[r EXCEPT !.revoked = TRUE]}
    /\ UNCHANGED <<tokens, tokenLock, calls, admitted, letIn>>

-----------------------------------------------------------------------------
(* Register. *)

GlobalCount == Cardinality({unit \in Organizations \X (1 .. PerOrganization) :
                                        unit[2] <= admitted[unit[1]]})

\* allow: within a window, so many in all, so many of an Organization, and only
\* so many Organizations.
Allow(o) ==
    /\ GlobalCount < Global
    /\ admitted[o] > 0 \/ Cardinality({p \in Organizations : admitted[p] > 0}) < MaxTrackedOrgs
    /\ admitted[o] < PerOrganization

\* A window of flood control passes.
FloodWindowPasses ==
    /\ GlobalCount > 0
    /\ admitted' = [o \in Organizations |-> 0]
    /\ UNCHANGED <<tokens, tokenLock, calls, registrations, letIn>>

\* The caller names an Organization and shows a token.  It is shed, or refused
\* for its protocol or its capabilities, or the transaction begins.
Register(c, o, t) ==
    /\ calls[c].pc = "unused"
    /\ IF Allow(o)
       THEN /\ admitted' = [admitted EXCEPT ![o] = @ + 1]
            /\ \E pc \in {"refused", "spend"} :
                  calls' = [calls EXCEPT ![c] = [pc |-> pc, org |-> o, token |-> t]]
       ELSE /\ calls' = [calls EXCEPT ![c].pc = "shed"]
            /\ UNCHANGED admitted
    /\ UNCHANGED <<tokens, tokenLock, registrations, letIn>>

Spendable(t, o) ==
    /\ tokens[t].org = o
    /\ ~tokens[t].consumed /\ ~tokens[t].revoked /\ ~tokens[t].expired

\* Mutant: the row is read, not tokenLock.
SpendUnlocked(c) ==
    LET t == calls[c].token
    IN  /\ calls[c].pc = "spend"
        /\ Becomes(c, IF Spendable(t, calls[c].org) THEN "insert" ELSE "explain")
        /\ UNCHANGED <<tokens, tokenLock, admitted, registrations, letIn>>

\* spendBootstrapToken: the UPDATE waits for the row, and then looks at it again.
SpendBootstrapToken(c) ==
    LET t == calls[c].token
        spent == Spendable(t, calls[c].org)
    IN  /\ calls[c].pc = "spend"
        /\ spent => tokenLock[t] = 0
        /\ tokenLock' = IF spent THEN [tokenLock EXCEPT ![t] = c] ELSE tokenLock
        /\ Becomes(c, IF spent THEN "insert" ELSE "explain")
        /\ UNCHANGED <<tokens, admitted, registrations, letIn>>

\* explainUnspendableToken, for the log; the caller is told nothing.
ExplainUnspendableToken(c) ==
    /\ calls[c].pc = "explain"
    /\ Becomes(c, "refused")
    /\ UNCHANGED <<tokens, tokenLock, admitted, registrations, letIn>>

\* insertRegistration and the commit, and the response that carries the
\* credential; the response may be lost.
InsertRegistration(c) ==
    LET call == calls[c]
    IN  /\ call.pc = "insert"
        /\ tokens' = [tokens EXCEPT ![call.token].consumed = TRUE]
        /\ tokenLock' = [tokenLock EXCEPT ![call.token] = 0]
        /\ registrations' = registrations \cup
            {[id |-> c, credential |-> c, org |-> call.org, token |-> call.token,
              revoked |-> FALSE]}
        /\ \E pc \in {"enrolled", "unanswered"} : Becomes(c, pc)
        /\ UNCHANGED <<admitted, letIn>>

\* A statement fails, or the process dies: the transaction is rolled back.
RollBackEnrolment(c) ==
    /\ calls[c].pc \in {"spend", "insert", "explain"}
    /\ tokenLock' = [t \in Tokens |-> IF tokenLock[t] = c THEN 0 ELSE tokenLock[t]]
    /\ Becomes(c, "unavailable")
    /\ UNCHANGED <<tokens, admitted, registrations, letIn>>

\* VerifyRelayCredential looks for the registration in the Organization, and
\* compares the credential with the one it was given.
VerifyRelayCredential(id, o, credential) ==
    \E r \in registrations : r.id = id /\ r.org = o /\ ~r.revoked /\ r.credential = credential

\* authenticate: a Relay that was answered shows its credential, and names any
\* registration and any Organization.
Authenticate(c, id, o) ==
    /\ calls[c].pc = "enrolled"
    /\ VerifyRelayCredential(id, o, c)
    /\ letIn' = letIn \cup {<<id, o, c>>}
    /\ UNCHANGED <<tokens, tokenLock, calls, admitted, registrations>>

EnrolmentNext ==
    \/ \E t \in Tokens : Expire(t) \/ RevokeToken(t) \/ \E o \in Organizations : IssueBootstrapToken(t, o)
    \/ \E r \in registrations : RevokeRegistration(r)
    \/ \E c \in Calls :
        \/ \E o \in Organizations, t \in Tokens : Register(c, o, t)
        \/ \E id \in Calls, o \in Organizations : Authenticate(c, id, o)
        \/ SpendBootstrapToken(c) \/ ExplainUnspendableToken(c) \/ InsertRegistration(c) \/ RollBackEnrolment(c)
    \/ FloodWindowPasses

EnrolmentSpec == EnrolmentInit /\ [][EnrolmentNext]_enrolmentVars

-----------------------------------------------------------------------------
(* Properties. *)

EnrolmentTypeOK ==
    /\ tokens \in [Tokens -> Token]
    /\ tokenLock \in [Tokens -> Calls \cup {0}]
    /\ registrations \subseteq Registration
    /\ letIn \subseteq Calls \X Organizations \X Calls

\* "It enrols exactly one Relay and is spent when it does": however many calls
\* present a token at once, it has at most one registration, in the Organization
\* it was issued for, and it is spent if and only if it has one.  A session is
\* let in only as the registration its credential was made for, and under the
\* Organization of its token (EnrolRelay, spendBootstrapToken,
\* VerifyRelayCredential).
TokensEnrolOnce ==
    /\ EnrolmentTypeOK
    /\ \A t \in Tokens :
        LET enrolled == {r \in registrations : r.token = t}
        IN  /\ Cardinality(enrolled) = IF tokens[t].consumed THEN 1 ELSE 0
            /\ \A r \in enrolled : r.org = tokens[t].org
    /\ \A s \in letIn : \E r \in registrations : <<r.id, r.org, r.credential>> = s

=============================================================================
