--------------------------- MODULE SurfaceProofs ---------------------------
(***************************************************************************)
(* Whatever Users, requests, passwords, sessions, sign-in flows, rows and   *)
(* pages there are: the theorems of Access and of Listings and their        *)
(* proofs.                                                                  *)
(***************************************************************************)
EXTENDS Access, Listings, FiniteSetTheorems, SequenceTheorems, TLAPS

-----------------------------------------------------------------------------
(* Sign-in, sessions and passwords. *)

AccountsAreWhole ==
    /\ \A u \in Local : account[u] # "absent" <=> verifier[u] # NoVerifier
    /\ \A u \in Users : role[u] # None => account[u] # "absent"
    /\ \A s \in SessionIds : session[s].state # "unissued" =>
            session[s].user \in Users /\ account[session[s].user] # "absent"

\* A verifier that was stored: a password is replaced less often than verifiers
\* are made, so its era stays below its salt.
Stored(h) == h.word \in Words /\ h.era < h.salt /\ h.salt <= hashes

VerifiersAreSound ==
    /\ \A u \in Local : verifier[u] # NoVerifier => Stored(verifier[u])
    /\ \A u, v \in Local : u # v /\ verifier[u] # NoVerifier => verifier[u].salt # verifier[v].salt

PasswordOps == {"signin", "rehashed", "verified"}
OIDCOps == {"redeemed", "asserted", "identified"}

\* What a request remembers is of the right kind, though what it read may have
\* changed since.
Remembers(q) ==
    /\ q.op \in PasswordOps => q.user \in Local /\ Stored(q.hash)
    /\ q.op \in OIDCOps => q.via \in Flows
    /\ q.via \in Flows => q.op \in OIDCOps
    /\ q.op \in {"asserted", "identified"} => q.user \in Federated
    /\ q.op = "identified" => account[q.user] # "absent"
    /\ q.op = "signout" => q.via \in SessionIds /\ session[q.via].state # "unissued"
    /\ q.op = "locked" =>
        q.user \in Users /\ account[q.user] # "absent" /\ q.wanted \in Roles \cup {None}

RequestsRemember == \A r \in Requests : Remembers(request[r])

SlotsAreKept == Cardinality(Checking) <= MaxPasswordChecks

\* An open session is of the password its User has now.
ErasAgree ==
    \A s \in SessionIds :
        session[s].state \in {"live", "expired"} /\ session[s].user \in Local =>
            session[s].era = verifier[session[s].user].era

\* A flow has one holder, a request or a session, and only once its row is gone.
FlowsAreSpent ==
    /\ \A f \in Flows :
        (\E r \in Requests : request[r].via = f) \/ (\E s \in SessionIds : session[s].via = f)
            => flow[f] = "gone"
    /\ \A q, r \in Requests : request[q].via = request[r].via /\ request[q].via \in Flows => q = r
    /\ \A s, t \in SessionIds : session[s].via = session[t].via /\ session[s].via \in Flows => s = t
    /\ \A r \in Requests, s \in SessionIds : request[r].via \in Flows => session[s].via # request[r].via

AccessInv ==
    /\ TypeOK /\ AccountsAreWhole /\ VerifiersAreSound /\ RequestsRemember
    /\ SlotsAreKept /\ ErasAgree /\ FlowsAreSpent

-----------------------------------------------------------------------------
(* The parts of a step. *)

\* What a request remembers stays right as accounts and sessions come to be and
\* verifiers are made: none of these is undone.
LEMMA RememberedStays ==
    ASSUME NEW q, Remembers(q), q.hash \in Verifiers, hashes \in Nat, hashes' \in Nat, hashes <= hashes',
           \A u \in Users : account[u] # "absent" => account'[u] # "absent",
           \A s \in SessionIds : session[s].state # "unissued" => session'[s].state # "unissued"
    PROVE  Remembers(q)'
<1>1. Stored(q.hash) => Stored(q.hash)'
  <2>1. q.hash.salt \in Nat
    BY AccessAssumption DEF Verifiers
  <2> QED
    BY <2>1 DEF Stored
<1> QED
  BY <1>1 DEF Remembers, Users

\* A request takes a slot for a password check only if there is one.
LEMMA SlotsStep ==
    ASSUME SlotsAreKept, NEW r \in Requests,
           \A x \in Requests \ {r} : request'[x] = request[x],
           request'[r].op \in PasswordOps =>
                request[r].op \in PasswordOps \/ Cardinality(Checking) < MaxPasswordChecks
    PROVE  SlotsAreKept'
<1>1. IsFiniteSet(Checking)
  BY AccessAssumption, FS_Subset DEF Checking
<1>2. Cardinality(Checking) \in Nat /\ MaxPasswordChecks \in Nat
  BY <1>1, FS_CardinalityType, AccessAssumption
<1>3. CASE request'[r].op \in PasswordOps => request[r].op \in PasswordOps
  <2>1. Checking' \subseteq Checking
    BY <1>3 DEF Checking, PasswordOps
  <2>2. Cardinality(Checking') <= Cardinality(Checking) /\ Cardinality(Checking') \in Nat
    BY <1>1, <2>1, FS_Subset, FS_CardinalityType
  <2> QED
    BY <1>2, <2>2 DEF SlotsAreKept
<1>4. CASE Cardinality(Checking) < MaxPasswordChecks
  <2>1. Checking' \subseteq Checking \cup {r}
    BY DEF Checking
  <2>2. /\ IsFiniteSet(Checking \cup {r})
        /\ Cardinality(Checking \cup {r}) <= Cardinality(Checking) + 1
    BY <1>1, <1>2, FS_AddElement, SMTT(40)
  <2>3. /\ Cardinality(Checking') <= Cardinality(Checking \cup {r})
        /\ Cardinality(Checking') \in Nat /\ Cardinality(Checking \cup {r}) \in Nat
    BY <2>1, <2>2, FS_Subset, FS_CardinalityType
  <2> QED
    BY <1>2, <1>4, <2>2, <2>3 DEF SlotsAreKept
<1> QED
  BY <1>3, <1>4

\* A step of one request that only takes note of something.
LEMMA RequestStep ==
    ASSUME AccessInv, NEW r \in Requests, NEW q \in Memories, request' = [request EXCEPT ![r] = q],
           UNCHANGED <<account, role, verifier, hashes, session, flow>>, Remembers(q),
           q.op \in PasswordOps =>
                request[r].op \in PasswordOps \/ Cardinality(Checking) < MaxPasswordChecks,
           q.via \in Flows => q.via = request[r].via
    PROVE  AccessInv'
<1>1. /\ TypeOK /\ RequestsRemember /\ SlotsAreKept /\ FlowsAreSpent
      /\ request \in [Requests -> Memories]
      /\ request'[r] = q /\ \A x \in Requests \ {r} : request'[x] = request[x]
  BY DEF AccessInv, TypeOK
<1>2. TypeOK'
  BY <1>1 DEF TypeOK
<1>3. RequestsRemember'
  BY <1>1 DEF RequestsRemember, Remembers, Stored
<1>4. SlotsAreKept'
  BY <1>1, SlotsStep
<1>5. FlowsAreSpent'
  BY <1>1 DEF FlowsAreSpent
<1>6. AccountsAreWhole' /\ VerifiersAreSound' /\ ErasAgree'
  BY DEF AccessInv, AccountsAreWhole, VerifiersAreSound, ErasAgree, Stored
<1> QED
  BY <1>2, <1>3, <1>4, <1>5, <1>6 DEF AccessInv

LEMMA IdleIsSound == Idle \in Memories /\ Remembers(Idle) /\ Idle.op \notin PasswordOps /\ Idle.via \notin Flows
BY AccessAssumption DEF Idle, Memories, Verifiers, Eras, NoVerifier, Remembers, PasswordOps, OIDCOps

\* No request takes note of anything new: each goes on or ends.
RequestsRest ==
    \/ UNCHANGED request
    \/ \E r \in Requests : request' = [request EXCEPT ![r] = Idle]

\* Nothing that exists is undone.
NothingUnmade ==
    /\ hashes \in Nat /\ hashes' \in Nat /\ hashes <= hashes'
    /\ \A u \in Users : account[u] # "absent" => account'[u] # "absent"
    /\ \A s \in SessionIds : session[s].state # "unissued" => session'[s].state # "unissued"

LEMMA Resting ==
    ASSUME AccessInv, RequestsRest, NothingUnmade
    PROVE  /\ request' \in [Requests -> Memories] /\ RequestsRemember' /\ SlotsAreKept'
           /\ \A x \in Requests : request'[x].via \in Flows => request'[x].via = request[x].via
<1>1. /\ request \in [Requests -> Memories] /\ RequestsRemember /\ SlotsAreKept
  BY DEF AccessInv, TypeOK
<1>2. /\ request' \in [Requests -> Memories]
      /\ \A x \in Requests : request'[x] = request[x] \/ request'[x] = Idle
  BY <1>1, IdleIsSound DEF RequestsRest
<1>3. RequestsRemember'
  <2> SUFFICES ASSUME NEW x \in Requests PROVE Remembers(request[x])'
    BY DEF RequestsRemember
  <2>1. Remembers(request'[x]) /\ request'[x].hash \in Verifiers
    BY <1>1, <1>2, IdleIsSound DEF RequestsRemember, Memories
  <2>2. request'[x].hash.salt \in Nat
    BY <2>1, AccessAssumption DEF Verifiers
  <2>3. Stored(request'[x].hash) => Stored(request[x].hash)'
    BY <2>2 DEF NothingUnmade, Stored
  <2> QED
    BY <2>1, <2>3 DEF NothingUnmade, Remembers, Users
<1>4. SlotsAreKept'
  <2>1. CASE UNCHANGED request
    BY <1>1, <2>1 DEF SlotsAreKept, Checking
  <2>2. ASSUME NEW r \in Requests, request' = [request EXCEPT ![r] = Idle] PROVE SlotsAreKept'
    BY <1>1, <2>2, IdleIsSound, SlotsStep
  <2> QED
    BY <2>1, <2>2 DEF RequestsRest
<1> QED
  BY <1>2, <1>3, <1>4, IdleIsSound

LEMMA FlowsStay ==
    ASSUME FlowsAreSpent,
           \A x \in Requests : request'[x].via \in Flows => request'[x].via = request[x].via,
           \A s \in SessionIds : session'[s].via = session[s].via \/ session'[s].via \notin Flows,
           \A f \in Flows : flow[f] = "gone" => flow'[f] = "gone"
    PROVE  FlowsAreSpent'
BY DEF FlowsAreSpent

\* The open sessions of u that the step leaves are of era e.
SessionsOfEra(u, e) ==
    /\ session' \in [SessionIds -> SessionRows]
    /\ \A s \in SessionIds :
        /\ session'[s].via = session[s].via \/ session'[s].via \notin Flows
        /\ session[s].state # "unissued" => session'[s].state # "unissued"
        /\ \/ session'[s].state = "unissued"
           \/ /\ session[s].user # u /\ session'[s].user = session[s].user
              /\ session'[s].era = session[s].era /\ session'[s].state = session[s].state
           \/ session'[s].user = u /\ (session'[s].era = e \/ session'[s].state = "gone")

\* A verifier is made for a User and the sessions of an earlier era end.
LEMMA VerifierMade ==
    ASSUME AccessInv, RequestsRest, UNCHANGED flow,
           NEW u \in Local, NEW h \in Verifiers, h # NoVerifier, h.word \in Words,
           h.salt = hashes + 1, h.era <= hashes,
           hashes' = hashes + 1, hashes < MaxHashes,
           verifier' = [verifier EXCEPT ![u] = h],
           account' \in [Users -> {"absent", "enabled", "disabled"}], account'[u] # "absent",
           \A v \in Users \ {u} : account'[v] = account[v],
           role' \in [Users -> Roles \cup {"admin", None}],
           \A v \in Users : role'[v] # None => account'[v] # "absent",
           SessionsOfEra(u, h.era)
    PROVE  AccessInv'
<1>1. /\ TypeOK /\ AccountsAreWhole /\ VerifiersAreSound /\ ErasAgree /\ FlowsAreSpent
      /\ verifier \in [Local -> Verifiers] /\ u \in Users /\ Local \subseteq Users
      /\ hashes \in Nat /\ MaxHashes \in Nat /\ hashes \in 0 .. MaxHashes
  BY AccessAssumption DEF AccessInv, TypeOK, Users
<1>2. NothingUnmade
  BY <1>1 DEF NothingUnmade, SessionsOfEra
<1>3. RequestsRemember' /\ SlotsAreKept' /\ request' \in [Requests -> Memories] /\ FlowsAreSpent'
  BY <1>1, <1>2, Resting, FlowsStay DEF SessionsOfEra
<1>4. TypeOK'
  BY <1>1, <1>3 DEF TypeOK, SessionsOfEra
<1>5. AccountsAreWhole'
  BY <1>1 DEF AccountsAreWhole, SessionsOfEra
<1>6. VerifiersAreSound'
  <2>1. verifier'[u] = h /\ \A v \in Local \ {u} : verifier'[v] = verifier[v]
    BY <1>1
  <2>2. h.era \in Nat /\ \A v \in Local : verifier[v].salt \in Nat /\ verifier[v].era \in Nat
    BY <1>1 DEF Verifiers, Eras
  <2>3. Stored(h)'
    BY <1>1, <2>2 DEF Stored
  <2>4. \A v \in Local \ {u} : /\ verifier[v] # NoVerifier => Stored(verifier[v])'
                               /\ verifier[v].salt <= hashes
    BY <1>1, <2>1, <2>2 DEF VerifiersAreSound, Stored, NoVerifier
  <2>5. \A v \in Local \ {u} : verifier'[v].salt # h.salt
    BY <1>1, <2>1, <2>2, <2>4
  <2>6. \A v \in Local : verifier'[v] # NoVerifier => Stored(verifier[v])'
    BY <2>1, <2>3, <2>4
  <2>7. \A v, x \in Local : v # x /\ verifier'[v] # NoVerifier => verifier'[v].salt # verifier'[x].salt
    BY <1>1, <2>1, <2>5 DEF VerifiersAreSound
  <2> QED
    BY <2>6, <2>7 DEF VerifiersAreSound
<1>7. ErasAgree'
  BY <1>1 DEF ErasAgree, SessionsOfEra
<1> QED
  BY <1>3, <1>4, <1>5, <1>6, <1>7 DEF AccessInv

\* Sessions end and memberships change, of whomever, and none begins.
LEMMA OthersStep ==
    ASSUME AccessInv, RequestsRest, UNCHANGED <<verifier, hashes>>,
           account' \in [Users -> {"absent", "enabled", "disabled"}],
           \A u \in Users : account[u] # "absent" => account'[u] # "absent",
           \A u \in Local : account'[u] # "absent" => account[u] # "absent",
           role' \in [Users -> Roles \cup {"admin", None}],
           \A u \in Users : role'[u] # None => account'[u] # "absent",
           flow' \in [Flows -> {"unminted", "open", "expired", "gone"}],
           \A f \in Flows : flow[f] = "gone" => flow'[f] = "gone",
           session' \in [SessionIds -> SessionRows],
           \A s \in SessionIds :
                \/ session'[s] = session[s]
                \/ /\ session[s].state # "unissued"
                   /\ session'[s].user = session[s].user /\ session'[s].era = session[s].era
                   /\ session'[s].via = session[s].via
                   /\ \/ session'[s].state = "gone"
                      \/ session[s].state = "live" /\ session'[s].state = "expired"
    PROVE  AccessInv'
<1>1. /\ TypeOK /\ AccountsAreWhole /\ VerifiersAreSound /\ ErasAgree /\ FlowsAreSpent
      /\ hashes \in Nat /\ Local \subseteq Users
  BY AccessAssumption DEF AccessInv, TypeOK, Users
<1>2. NothingUnmade
  BY <1>1 DEF NothingUnmade
<1>3. RequestsRemember' /\ SlotsAreKept' /\ request' \in [Requests -> Memories] /\ FlowsAreSpent'
  <2>1. \A s \in SessionIds : session'[s].via = session[s].via
    OBVIOUS
  <2> QED
    BY <1>1, <1>2, <2>1, Resting, FlowsStay
<1>4. TypeOK'
  BY <1>1, <1>3 DEF TypeOK
<1>5. AccountsAreWhole' /\ ErasAgree'
  BY <1>1 DEF AccountsAreWhole, ErasAgree
<1>6. VerifiersAreSound'
  BY <1>1 DEF VerifiersAreSound, Stored
<1> QED
  BY <1>3, <1>4, <1>5, <1>6 DEF AccessInv

-----------------------------------------------------------------------------
(* Each action. *)

LEMMA AccessInvInit == Init => AccessInv
<1> SUFFICES ASSUME Init PROVE AccessInv
  OBVIOUS
<1> USE AccessAssumption DEF Init
<1>1. /\ NoVerifier \in Verifiers /\ NoSession \in SessionRows
      /\ Idle \in Memories /\ Remembers(Idle) /\ Idle.via = None /\ Idle.op \notin PasswordOps
  BY IdleIsSound DEF NoVerifier, Verifiers, NoSession, SessionRows, Eras, Idle
<1>2. TypeOK
  BY <1>1 DEF TypeOK
<1>3. AccountsAreWhole /\ VerifiersAreSound /\ RequestsRemember /\ ErasAgree /\ FlowsAreSpent
  BY <1>1 DEF AccountsAreWhole, VerifiersAreSound, RequestsRemember, ErasAgree, FlowsAreSpent,
              NoSession, Users
<1>4. SlotsAreKept
  <2>1. Checking = {}
    BY DEF Checking, Idle
  <2> QED
    BY <2>1, FS_EmptySet DEF SlotsAreKept
<1> QED
  BY <1>2, <1>3, <1>4 DEF AccessInv

\* What a handler learns before it writes.
LEMMA RequestsKeepInv ==
    ASSUME AccessInv, NEW r \in Requests,
           \/ \E s \in SessionIds : SignOut(r, s) \/ \E op \in DOMAIN Routes : Protect(r, s, op)
           \/ \E u \in Local, w \in Words : LocalSignIn(r, u, w)
           \/ \E w \in Words : CheckLocalPassword(r, w)
           \/ \E u \in Federated \cup {None} : Exchange(r, u)
           \/ OIDCIdentity(r)
           \/ \E u \in Users, wanted \in Roles \cup {None} : LockMembership(r, u, wanted)
           \/ Abandon(r)
    PROVE  AccessInv'
<1>0. /\ TypeOK /\ AccountsAreWhole /\ VerifiersAreSound /\ RequestsRemember
      /\ request[r] \in Memories /\ Remembers(request[r])
      /\ \A u \in Users : Member(u) => role[u] # None
      /\ Local \subseteq Users /\ Federated \subseteq Users
      /\ Idle \in Memories /\ NoVerifier \in Verifiers
  BY AccessAssumption, IdleIsSound
     DEF AccessInv, TypeOK, RequestsRemember, Member, Users, Idle, Memories
<1>1. ASSUME NEW s \in SessionIds, SignOut(r, s) PROVE AccessInv'
  <2> DEFINE q == [Idle EXCEPT !.op = "signout", !.via = s]
  <2>1. q \in Memories /\ q.via \notin Flows /\ q.op \notin PasswordOps
    BY <1>0, AccessAssumption DEF Memories, Idle, PasswordOps
  <2>2. Remembers(q)
    BY <1>1, <2>1 DEF Remembers, OIDCOps, PasswordOps, Idle, SignOut, SignedIn
  <2> QED
    BY <1>1, <2>1, <2>2, RequestStep DEF SignOut
<1>2. ASSUME NEW s \in SessionIds, NEW op \in DOMAIN Routes, Protect(r, s, op) PROVE AccessInv'
  <2> DEFINE q == [Idle EXCEPT !.op = op, !.who = Principal(s).who, !.via = s]
  <2>1. op \in {"password", "manage"} /\ session[s].user \in Users \cup {None}
    BY <1>0 DEF Routes, TypeOK, SessionRows
  <2>2. q \in Memories /\ q.via \notin Flows /\ q.op \notin PasswordOps
    BY <1>0, <2>1, AccessAssumption DEF Memories, Idle, PasswordOps, Principal
  <2>3. Remembers(q)
    BY <2>1, <2>2 DEF Remembers, OIDCOps, PasswordOps, Idle
  <2> QED
    BY <1>2, <2>2, <2>3, RequestStep DEF Protect
<1>3. ASSUME NEW u \in Local, NEW w \in Words, LocalSignIn(r, u, w) PROVE AccessInv'
  <2> DEFINE q == [Idle EXCEPT !.op = "signin", !.user = u, !.hash = verifier[u]]
  <2>1. verifier[u] \in Verifiers /\ Stored(verifier[u])
    BY <1>0, <1>3 DEF TypeOK, VerifiersAreSound, LocalSignIn, LocalIdentity
  <2>2. q \in Memories /\ q.via \notin Flows
    BY <1>0, <2>1, AccessAssumption DEF Memories, Idle
  <2>3. Remembers(q)
    BY <2>1, <2>2 DEF Remembers, OIDCOps, PasswordOps, Idle
  <2> QED
    BY <1>3, <2>2, <2>3, RequestStep DEF LocalSignIn
<1>4. ASSUME NEW w \in Words, CheckLocalPassword(r, w) PROVE AccessInv'
  <2> DEFINE u == request[r].who
             q == [Idle EXCEPT !.op = "verified", !.user = u, !.hash = verifier[u]]
  <2>1. u \in Local /\ account[u] = "enabled"
    BY <1>4 DEF CheckLocalPassword, LocalPasswordHash
  <2>2. verifier[u] \in Verifiers /\ Stored(verifier[u])
    BY <1>0, <2>1 DEF TypeOK, VerifiersAreSound, AccountsAreWhole
  <2>3. q \in Memories /\ q.via \notin Flows
    BY <1>0, <2>1, <2>2, AccessAssumption DEF Memories, Idle
  <2>4. Remembers(q)
    BY <2>1, <2>2, <2>3 DEF Remembers, OIDCOps, PasswordOps, Idle
  <2> QED
    BY <1>4, <2>3, <2>4, RequestStep DEF CheckLocalPassword
<1>5. ASSUME NEW u \in Federated \cup {None}, Exchange(r, u) PROVE AccessInv'
  <2> DEFINE asserted == [request[r] EXCEPT !.op = "asserted", !.user = u]
             q == IF u = None THEN Idle ELSE asserted
  <2>1. request' = [request EXCEPT ![r] = q]
        /\ UNCHANGED <<account, role, verifier, hashes, session, flow>>
    BY <1>5 DEF Exchange
  <2>2. u \in Federated => /\ asserted \in Memories /\ Remembers(asserted)
                           /\ asserted.op \notin PasswordOps /\ asserted.via = request[r].via
    BY <1>0, <1>5 DEF Exchange, Remembers, OIDCOps, PasswordOps, Memories
  <2> QED
    BY <2>1, <2>2, RequestStep, IdleIsSound
<1>6. ASSUME OIDCIdentity(r) PROVE AccessInv'
  <2> DEFINE u == request[r].user
             identified == [request[r] EXCEPT !.op = "identified"]
             q == IF account[u] = "enabled" /\ Member(u) THEN identified ELSE Idle
  <2>1. request' = [request EXCEPT ![r] = q]
        /\ UNCHANGED <<account, role, verifier, hashes, session, flow>>
    BY <1>6 DEF OIDCIdentity
  <2>2. account[u] = "enabled" =>
            /\ identified \in Memories /\ Remembers(identified)
            /\ identified.op \notin PasswordOps /\ identified.via = request[r].via
    BY <1>0, <1>6 DEF OIDCIdentity, Remembers, OIDCOps, PasswordOps, Memories
  <2> QED
    BY <2>1, <2>2, RequestStep, IdleIsSound
<1>7. ASSUME NEW u \in Users, NEW wanted \in Roles \cup {None}, LockMembership(r, u, wanted)
      PROVE  AccessInv'
  <2> DEFINE locked == [Idle EXCEPT !.op = "locked", !.user = u, !.wanted = wanted]
  <2>1. PICK q \in {Idle, locked} : /\ request' = [request EXCEPT ![r] = q]
                                    /\ q = locked => role[u] # None
    BY <1>7 DEF LockMembership, Idle
  <2>2. role[u] # None => /\ locked \in Memories /\ Remembers(locked)
                          /\ locked.op \notin PasswordOps /\ locked.via \notin Flows
    BY <1>0, AccessAssumption
       DEF Remembers, OIDCOps, PasswordOps, Memories, Idle, AccountsAreWhole
  <2> QED
    BY <1>7, <2>1, <2>2, RequestStep, IdleIsSound DEF LockMembership
<1>8. ASSUME Abandon(r) PROVE AccessInv'
  BY <1>8, RequestStep, IdleIsSound DEF Abandon, Done
<1> QED
  BY <1>1, <1>2, <1>3, <1>4, <1>5, <1>6, <1>7, <1>8

\* What members and operators write of accounts, memberships and sessions.
LEMMA OthersKeepInv ==
    ASSUME AccessInv,
           \/ \E r \in Requests : CommitMembership(r) \/ DeleteCurrentSession(r)
           \/ \E f \in Flows : StartOIDCSignIn(f)
           \/ PruneSessions
           \/ Expire
           \/ \E u \in Federated, granted \in Roles : Provision(u, granted)
           \/ \E u \in Users : Disable(u)
    PROVE  AccessInv'
<1>0. /\ TypeOK /\ AccountsAreWhole /\ RequestsRemember
      /\ session \in [SessionIds -> SessionRows]
      /\ flow \in [Flows -> {"unminted", "open", "expired", "gone"}]
      /\ account \in [Users -> {"absent", "enabled", "disabled"}]
      /\ role \in [Users -> Roles \cup {"admin", None}]
      /\ Local \subseteq Users /\ Federated \subseteq Users \ Local
  BY AccessAssumption DEF AccessInv, TypeOK, Users
<1>a. \A u \in Users : role[u] # None => account[u] # "absent"
  BY <1>0 DEF AccountsAreWhole
<1>1. ASSUME NEW r \in Requests, CommitMembership(r) PROVE AccessInv'
  <2>1. /\ request[r].user \in Users /\ account[request[r].user] # "absent"
        /\ request[r].wanted \in Roles \cup {None}
    BY <1>0, <1>1 DEF CommitMembership, RequestsRemember, Remembers
  <2>2. /\ role' = [role EXCEPT ![request[r].user] = request[r].wanted] /\ RequestsRest
        /\ UNCHANGED <<account, verifier, hashes, session, flow>>
    BY <1>1 DEF CommitMembership, Done, RequestsRest
  <2> QED
    BY <1>0, <1>a, <2>1, <2>2, OthersStep
<1>2. ASSUME NEW r \in Requests, DeleteCurrentSession(r) PROVE AccessInv'
  <2>1. request[r].via \in SessionIds /\ session[request[r].via].state # "unissued"
    BY <1>0, <1>2 DEF DeleteCurrentSession, RequestsRemember, Remembers
  <2>2. /\ session' = [session EXCEPT ![request[r].via] =
                            [session[request[r].via] EXCEPT !.state = "gone"]]
        /\ RequestsRest /\ UNCHANGED <<account, role, verifier, hashes, flow>>
    BY <1>2 DEF DeleteCurrentSession, Done, RequestsRest
  <2>3. /\ session' \in [SessionIds -> SessionRows]
        /\ \A s \in SessionIds :
            \/ session'[s] = session[s]
            \/ /\ session[s].state # "unissued" /\ session'[s].state = "gone"
               /\ session'[s].user = session[s].user /\ session'[s].era = session[s].era
               /\ session'[s].via = session[s].via
    BY <1>0, <2>1, <2>2 DEF SessionRows
  <2> QED
    BY <1>0, <1>a, <2>2, <2>3, OthersStep
<1>3. ASSUME NEW f \in Flows, StartOIDCSignIn(f) PROVE AccessInv'
  <2>1. /\ flow' \in [Flows -> {"unminted", "open", "expired", "gone"}]
        /\ \A g \in Flows : flow[g] = "gone" => flow'[g] = "gone"
        /\ RequestsRest /\ UNCHANGED <<account, role, verifier, hashes, session>>
    BY <1>0, <1>3 DEF StartOIDCSignIn, StartDeploymentSignIn, RequestsRest
  <2> QED
    BY <1>0, <1>a, <2>1, OthersStep
<1>4. ASSUME PruneSessions PROVE AccessInv'
  <2>1. PICK S \in SUBSET {s \in SessionIds : session[s].state = "expired"} :
            session' = [s \in SessionIds |->
                IF s \in S THEN [session[s] EXCEPT !.state = "gone"] ELSE session[s]]
    BY <1>4 DEF PruneSessions
  <2>2. /\ session' \in [SessionIds -> SessionRows]
        /\ \A s \in SessionIds :
            \/ session'[s] = session[s]
            \/ /\ session[s].state # "unissued" /\ session'[s].state = "gone"
               /\ session'[s].user = session[s].user /\ session'[s].era = session[s].era
               /\ session'[s].via = session[s].via
    BY <1>0, <2>1 DEF SessionRows
  <2>3. RequestsRest /\ UNCHANGED <<account, role, verifier, hashes, flow>>
    BY <1>4 DEF PruneSessions, RequestsRest
  <2> QED
    BY <1>0, <1>a, <2>2, <2>3, OthersStep
<1>5. ASSUME Expire PROVE AccessInv'
  <2>1. RequestsRest /\ UNCHANGED <<account, role, verifier, hashes>>
    BY <1>5 DEF Expire, RequestsRest
  <2>2. ASSUME NEW s \in SessionIds, session[s].state = "live", UNCHANGED flow,
               session' = [session EXCEPT ![s].state = "expired"]
        PROVE  AccessInv'
    <3>1. /\ session' \in [SessionIds -> SessionRows]
          /\ \A t \in SessionIds :
              \/ session'[t] = session[t]
              \/ /\ session[t].state = "live" /\ session'[t].state = "expired"
                 /\ session'[t].user = session[t].user /\ session'[t].era = session[t].era
                 /\ session'[t].via = session[t].via
      BY <1>0, <2>2 DEF SessionRows
    <3> QED
      BY <1>0, <1>a, <2>1, <2>2, <3>1, OthersStep
  <2>3. ASSUME NEW f \in Flows, flow[f] = "open", UNCHANGED session,
               flow' = [flow EXCEPT ![f] = "expired"]
        PROVE  AccessInv'
    BY <1>0, <1>a, <2>1, <2>3, OthersStep
  <2> QED
    BY <1>5, <2>2, <2>3 DEF Expire
<1>6. ASSUME NEW u \in Federated, NEW granted \in Roles, Provision(u, granted) PROVE AccessInv'
  BY <1>0, <1>a, <1>6, OthersStep DEF Provision, RequestsRest
<1>7. ASSUME NEW u \in Users, Disable(u) PROVE AccessInv'
  BY <1>0, <1>a, <1>7, OthersStep DEF Disable, RequestsRest
<1> QED
  BY <1>1, <1>2, <1>3, <1>4, <1>5, <1>6, <1>7

\* A password is stored with its User, replaced, or hashed anew.
LEMMA VerifiersKeepInv ==
    ASSUME AccessInv,
           \/ \E u \in Local, w \in Words :
                \/ \E s \in SessionIds : BootstrapLocalAdmin(u, w, s)
                \/ RecoverLocalPassword(u, w)
                \/ \E r \in Requests, granted \in Roles : CreateMember(r, u, w, granted)
           \/ \E r \in Requests, w \in Words : ChangeLocalPassword(r, w)
    PROVE  AccessInv'
<1>0. /\ TypeOK /\ AccountsAreWhole /\ VerifiersAreSound /\ RequestsRemember
      /\ session \in [SessionIds -> SessionRows] /\ verifier \in [Local -> Verifiers]
      /\ account \in [Users -> {"absent", "enabled", "disabled"}]
      /\ role \in [Users -> Roles \cup {"admin", None}]
      /\ Local \subseteq Users /\ hashes \in 0 .. MaxHashes /\ MaxHashes \in Nat
  BY AccessAssumption DEF AccessInv, TypeOK, Users
\* Insert, with or without a first session.
<1>1. ASSUME NEW u \in Local, NEW w \in Words, NEW granted \in Roles \cup {"admin"},
             account[u] = "absent", Insert(u, w, granted), RequestsRest, UNCHANGED flow,
             \/ UNCHANGED session
             \/ \E s \in SessionIds : NewSession(s, u, 0, None)
      PROVE  AccessInv'
  <2>1. PICK dated \in BOOLEAN :
            verifier' = [verifier EXCEPT ![u] = [HashPassword(w, 0) EXCEPT !.dated = dated]]
    BY <1>1 DEF Insert
  <2> DEFINE h == [HashPassword(w, 0) EXCEPT !.dated = dated]
  <2>2. /\ hashes < MaxHashes /\ hashes' = hashes + 1
        /\ account' = [account EXCEPT ![u] = "enabled"]
        /\ role' = [role EXCEPT ![u] = granted]
    BY <1>1 DEF Insert
  <2>3. /\ h \in Verifiers /\ h.word = w /\ h.salt = hashes + 1 /\ h.era = 0
        /\ h # NoVerifier
    BY <1>0, <2>2 DEF HashPassword, Verifiers, Eras, NoVerifier
  <2>4. \A v \in Users : role'[v] # None => account'[v] # "absent"
    BY <1>0, <2>2 DEF AccountsAreWhole
  <2>5. \A s \in SessionIds : session[s].user = u => session[s].state = "unissued"
    BY <1>0, <1>1 DEF AccountsAreWhole
  <2>6. SessionsOfEra(u, 0)
    <3>1. CASE UNCHANGED session
      BY <1>0, <2>5, <3>1 DEF SessionsOfEra
    <3>2. ASSUME NEW s \in SessionIds, NewSession(s, u, 0, None)
          PROVE  SessionsOfEra(u, 0)
      <4> DEFINE row == [state |-> "live", user |-> u, era |-> 0, via |-> None]
      <4>1. row \in SessionRows /\ row.user = u /\ row.era = 0 /\ row.via \notin Flows
            /\ row.state # "unissued"
        BY <1>0, AccessAssumption DEF SessionRows, Eras
      <4>2. session' = [session EXCEPT ![s] = row]
        BY <3>2 DEF NewSession
      <4> HIDE DEF row
      <4> QED
        BY <1>0, <2>5, <4>1, <4>2 DEF SessionsOfEra
    <3> QED
      BY <1>1, <3>1, <3>2
  <2> HIDE DEF h
  <2>7. verifier' = [verifier EXCEPT ![u] = h]
    BY <2>1 DEF h
  <2>8. account' \in [Users -> {"absent", "enabled", "disabled"}] /\ account'[u] # "absent"
        /\ (\A v \in Users \ {u} : account'[v] = account[v])
        /\ role' \in [Users -> Roles \cup {"admin", None}]
    BY <1>0, <2>2
  <2>9. SessionsOfEra(u, h.era) /\ h.era <= hashes /\ h.word \in Words
    BY <1>0, <2>3, <2>6
  <2> QED
    BY <1>0, <1>1, <2>2, <2>3, <2>4, <2>7, <2>8, <2>9, VerifierMade
<1>2. ASSUME NEW u \in Local, NEW w \in Words, NEW s \in SessionIds, BootstrapLocalAdmin(u, w, s)
      PROVE  AccessInv'
  BY <1>0, <1>1, <1>2 DEF BootstrapLocalAdmin, BootstrapLocalUser, RequestsRest
<1>3. ASSUME NEW u \in Local, NEW w \in Words, NEW r \in Requests, NEW granted \in Roles,
             CreateMember(r, u, w, granted)
      PROVE  AccessInv'
  BY <1>1, <1>3 DEF CreateMember, CreateLocalMember, Done, RequestsRest
\* replaceLocalPassword, by a change or by a recovery.
<1>4. ASSUME NEW u \in Local, NEW w \in Words, ReplaceLocalPassword(u, w),
             verifier[u] # NoVerifier, RequestsRest, UNCHANGED <<account, role, flow>>
      PROVE  AccessInv'
  <2> DEFINE h == HashPassword(w, verifier[u].era + 1)
  <2>1. /\ hashes < MaxHashes /\ hashes' = hashes + 1
        /\ verifier' = [verifier EXCEPT ![u] = h]
        /\ session' = [s \in SessionIds |-> IF session[s].user = u
                                            THEN [session[s] EXCEPT !.state = "gone"]
                                            ELSE session[s]]
        /\ account[u] = "enabled"
    BY <1>4 DEF ReplaceLocalPassword
  <2>2. /\ verifier[u].era \in Nat /\ verifier[u].salt \in Nat
        /\ verifier[u].era < verifier[u].salt /\ verifier[u].salt <= hashes
    BY <1>0, <1>4 DEF Verifiers, Eras, VerifiersAreSound, Stored
  <2>3. /\ h \in Verifiers /\ h.word = w /\ h.salt = hashes + 1 /\ h.era <= hashes
        /\ h # NoVerifier
    BY <1>0, <2>1, <2>2 DEF HashPassword, Verifiers, Eras, NoVerifier
  <2>4. \A s \in SessionIds : session[s].user = u =>
            session[s].state = "unissued" \/ session'[s].state = "gone"
    BY <2>1, <1>0 DEF SessionRows
  <2>5. SessionsOfEra(u, h.era)
    BY <1>0, <2>1, <2>4 DEF SessionsOfEra, SessionRows
  <2>6. \A v \in Users : role'[v] # None => account'[v] # "absent"
    BY <1>0, <1>4 DEF AccountsAreWhole
  <2> HIDE DEF h
  <2> QED
    BY <1>0, <1>4, <2>1, <2>3, <2>5, <2>6, VerifierMade
<1>5. ASSUME NEW u \in Local, NEW w \in Words, RecoverLocalPassword(u, w) PROVE AccessInv'
  BY <1>4, <1>5 DEF RecoverLocalPassword, RequestsRest
<1>6. ASSUME NEW r \in Requests, NEW w \in Words, ChangeLocalPassword(r, w) PROVE AccessInv'
  <2>1. request[r].user \in Local /\ Stored(request[r].hash) /\ request[r].hash \in Verifiers
    BY <1>0, <1>6
       DEF ChangeLocalPassword, RequestsRemember, Remembers, PasswordOps, TypeOK, Memories
  <2>2. request[r].hash # NoVerifier
    BY <2>1 DEF Stored, NoVerifier, Verifiers, Eras
  <2>3. RequestsRest /\ UNCHANGED <<account, role, flow>>
    BY <1>6 DEF ChangeLocalPassword, Done, RequestsRest
  <2>4. CASE verifier[request[r].user] = request[r].hash /\ ReplaceLocalPassword(request[r].user, w)
    BY <1>4, <2>1, <2>2, <2>3, <2>4
  <2>5. CASE UNCHANGED <<verifier, hashes, session>>
    BY <1>0, <2>3, <2>5, OthersStep DEF AccountsAreWhole, TypeOK
  <2> QED
    BY <1>6, <2>4, <2>5 DEF ChangeLocalPassword
<1> QED
  BY <1>2, <1>3, <1>5, <1>6

\* A sign-in goes on with a verifier of its own, and ends with a session.
LEMMA SignInsKeepInv ==
    ASSUME AccessInv, NEW r \in Requests,
           \/ RehashLocalPassword(r)
           \/ \E s \in SessionIds : IssueLocalSession(r, s) \/ IssueSession(r, s)
           \/ \E f \in Flows : RedeemDeploymentSignIn(r, f)
    PROVE  AccessInv'
<1>0. /\ TypeOK /\ AccountsAreWhole /\ VerifiersAreSound /\ RequestsRemember
      /\ SlotsAreKept /\ ErasAgree /\ FlowsAreSpent
      /\ session \in [SessionIds -> SessionRows] /\ verifier \in [Local -> Verifiers]
      /\ request \in [Requests -> Memories] /\ Remembers(request[r])
      /\ flow \in [Flows -> {"unminted", "open", "expired", "gone"}]
      /\ Local \subseteq Users /\ Federated \subseteq Users \ Local
      /\ hashes \in Nat /\ hashes \in 0 .. MaxHashes /\ MaxHashes \in Nat
  BY AccessAssumption DEF AccessInv, TypeOK, Users, RequestsRemember
<1>1. ASSUME RehashLocalPassword(r) PROVE AccessInv'
  <2> DEFINE u == request[r].user
             hash == request[r].hash
  <2>a. PICK h : h = HashPassword(hash.word, hash.era)
    OBVIOUS
  <2>b. PICK q : q = [request[r] EXCEPT !.op = "rehashed", !.hash = h]
    OBVIOUS
  <2>1. /\ request[r].op = "signin" /\ hashes < MaxHashes /\ hashes' = hashes + 1
        /\ verifier' = IF verifier[u] = hash /\ role[u] # None
                       THEN [verifier EXCEPT ![u] = h] ELSE verifier
        /\ request' = [request EXCEPT ![r] = q]
        /\ UNCHANGED <<account, role, session, flow>>
    BY <1>1, <2>a, <2>b DEF RehashLocalPassword
  <2>2. /\ u \in Local /\ hash \in Verifiers /\ hash.word \in Words
        /\ hash.era \in Nat /\ hash.salt \in Nat /\ hash.era < hash.salt /\ hash.salt <= hashes
    BY <1>0, <2>1 DEF Remembers, PasswordOps, Stored, Memories, Verifiers, Eras
  <2>3. /\ h \in Verifiers /\ h.word = hash.word /\ h.salt = hashes + 1 /\ h.era = hash.era
        /\ h # NoVerifier
    BY <1>0, <2>a, <2>1, <2>2 DEF HashPassword, Verifiers, Eras, NoVerifier
  <2>4. /\ q \in Memories /\ q.op = "rehashed" /\ q.user = u /\ q.hash = h
        /\ q.via = request[r].via
    BY <1>0, <2>b, <2>3, ZenonT(40) DEF Memories
  <2>5. Stored(h)'
    BY <1>0, <2>1, <2>2, <2>3 DEF Stored
  <2>6. Remembers(q)'
    <3>1. request[r].via \notin Flows
      BY <1>0, <2>1 DEF Remembers, OIDCOps
    <3>2. q.via \notin Flows /\ q.op \notin OIDCOps
      BY <2>4, <3>1 DEF OIDCOps
    <3> QED
      BY <2>2, <2>4, <2>5, <3>2 DEF Remembers
  <2>7. /\ verifier' \in [Local -> Verifiers]
        /\ \A v \in Local : verifier'[v] # verifier[v] =>
                v = u /\ verifier[u] = hash /\ verifier'[v] = h
    BY <1>0, <2>1, <2>3
  <2>8. hash # NoVerifier
    BY <2>2 DEF NoVerifier
  <2>9. TypeOK'
    BY <1>0, <2>1, <2>4, <2>7 DEF TypeOK
  <2>10. AccountsAreWhole' /\ ErasAgree'
    BY <1>0, <2>1, <2>3, <2>7, <2>8 DEF AccountsAreWhole, ErasAgree
  <2>11. VerifiersAreSound'
    <3>1. \A v \in Local : verifier[v].salt \in Nat /\ verifier[v].salt <= hashes
      BY <1>0 DEF VerifiersAreSound, Stored, Verifiers, NoVerifier
    <3>2. \A v \in Local : verifier'[v] # NoVerifier => Stored(verifier[v])'
      <4> SUFFICES ASSUME NEW v \in Local, verifier'[v] # NoVerifier PROVE Stored(verifier[v])'
        OBVIOUS
      <4>1. CASE verifier'[v] = verifier[v]
        BY <1>0, <2>1, <3>1, <4>1 DEF VerifiersAreSound, Stored
      <4>2. CASE verifier'[v] # verifier[v]
        BY <2>5, <2>7, <4>2 DEF Stored
      <4> QED
        BY <4>1, <4>2
    <3>3. ASSUME NEW v \in Local, NEW x \in Local, v # x, verifier'[v] # NoVerifier
          PROVE  verifier'[v].salt # verifier'[x].salt
      BY <1>0, <2>3, <2>7, <2>8, <3>1, <3>3 DEF VerifiersAreSound
    <3> QED
      BY <3>2, <3>3 DEF VerifiersAreSound
  <2>12. RequestsRemember'
    <3> SUFFICES ASSUME NEW x \in Requests PROVE Remembers(request[x])'
      BY DEF RequestsRemember
    <3>1. CASE x = r
      <4>1. request'[x] = q
        BY <1>0, <2>1, <3>1
      <4> QED
        BY <2>6, <4>1 DEF Remembers, Stored
    <3>2. CASE x # r
      <4>1. request'[x] = request[x] /\ Remembers(request[x]) /\ request[x].hash.salt \in Nat
        BY <1>0, <2>1, <3>2 DEF RequestsRemember, Memories, Verifiers
      <4> QED
        BY <1>0, <2>1, <4>1 DEF Remembers, Stored
    <3> QED
      BY <3>1, <3>2
  <2>13. SlotsAreKept'
    BY <1>0, <2>1, <2>4, SlotsStep DEF PasswordOps
  <2>14. FlowsAreSpent'
    <3>1. \A x \in Requests : request'[x].via = request[x].via
      BY <1>0, <2>1, <2>4
    <3> QED
      BY <1>0, <2>1, <3>1, FlowsStay
  <2> QED
    BY <2>9, <2>10, <2>11, <2>12, <2>13, <2>14 DEF AccessInv
\* A session begins, or does not, and the request ends.
<1>2. ASSUME NEW s \in SessionIds, NEW u \in Users, NEW e \in Eras, NEW via \in Flows \cup {None},
             NewSession(s, u, e, via), request' = [request EXCEPT ![r] = Idle],
             account[u] # "absent", u \in Local => verifier[u].era = e,
             via \in Flows => request[r].via = via,
             UNCHANGED <<account, role, verifier, hashes, flow>>
      PROVE  AccessInv'
  <2> DEFINE row == [state |-> "live", user |-> u, era |-> e, via |-> via]
  <2>1. /\ row \in SessionRows /\ row.user = u /\ row.era = e /\ row.via = via
        /\ row.state = "live"
    BY DEF SessionRows
  <2>2. /\ session[s].state = "unissued" /\ session' = [session EXCEPT ![s] = row]
    BY <1>2 DEF NewSession, NoSession
  <2> HIDE DEF row
  <2>3. /\ session' \in [SessionIds -> SessionRows] /\ session'[s] = row
        /\ \A t \in SessionIds \ {s} : session'[t] = session[t]
    BY <1>0, <2>1, <2>2
  <2>4. NothingUnmade /\ RequestsRest
    <3>1. row.state # "unissued"
      BY <2>1
    <3>2. \A t \in SessionIds : session[t].state # "unissued" => session'[t].state # "unissued"
      BY <2>3, <3>1
    <3> QED
      <4>1. RequestsRest
        BY <1>2 DEF RequestsRest
      <4>2. hashes' = hashes /\ account' = account
        BY <1>2
      <4> QED
        BY <1>0, <3>2, <4>1, <4>2 DEF NothingUnmade
  <2>5. /\ RequestsRemember' /\ SlotsAreKept' /\ request' \in [Requests -> Memories]
    BY <2>4, Resting
  <2>6. TypeOK'
    BY <1>0, <1>2, <2>3, <2>5 DEF TypeOK
  <2>7. AccountsAreWhole' /\ VerifiersAreSound' /\ ErasAgree'
    BY <1>0, <1>2, <2>1, <2>3 DEF AccountsAreWhole, VerifiersAreSound, ErasAgree, Stored
  <2>8. FlowsAreSpent'
    <3>1. /\ \A x \in Requests \ {r} : request'[x] = request[x]
          /\ request'[r].via \notin Flows
      BY <1>0, <1>2, IdleIsSound
    <3>2. \A t \in SessionIds \ {s} : via \in Flows => session[t].via # via
      BY <1>0, <1>2 DEF FlowsAreSpent
    <3>3. \A x \in Requests \ {r} : via \in Flows => request[x].via # via
      BY <1>0, <1>2 DEF FlowsAreSpent
    <3> QED
      BY <1>0, <1>2, <2>1, <2>3, <3>1, <3>2, <3>3 DEF FlowsAreSpent
  <2> QED
    BY <2>5, <2>6, <2>7, <2>8 DEF AccessInv
<1>3. ASSUME NEW s \in SessionIds, IssueLocalSession(r, s) PROVE AccessInv'
  <2> DEFINE u == request[r].user
  <2>1. /\ request[r].op \in PasswordOps /\ request' = [request EXCEPT ![r] = Idle]
        /\ UNCHANGED <<account, role, verifier, hashes, flow>>
    BY <1>3 DEF IssueLocalSession, Done, PasswordOps
  <2>2. u \in Local /\ u \in Users /\ request[r].hash.era \in Eras
    BY <1>0, <2>1 DEF Remembers, Memories, Verifiers
  <2>3. CASE account[u] = "enabled" /\ verifier[u] = request[r].hash
                /\ NewSession(s, u, request[r].hash.era, None)
    BY <1>2, <2>1, <2>2, <2>3, AccessAssumption
  <2>4. CASE UNCHANGED session
    <3>1. RequestsRest
      BY <2>1 DEF RequestsRest
    <3> QED
      BY <1>0, <2>1, <2>4, <3>1, OthersStep DEF AccountsAreWhole, TypeOK
  <2> QED
    BY <1>3, <2>3, <2>4 DEF IssueLocalSession
<1>4. ASSUME NEW s \in SessionIds, IssueSession(r, s) PROVE AccessInv'
  <2>1. /\ request[r].user \in Users \ Local /\ account[request[r].user] # "absent"
        /\ request[r].via \in Flows /\ 0 \in Eras
    BY <1>0, <1>4 DEF IssueSession, Remembers, OIDCOps, Eras
  <2>2. /\ NewSession(s, request[r].user, 0, request[r].via)
        /\ request' = [request EXCEPT ![r] = Idle]
        /\ UNCHANGED <<account, role, verifier, hashes, flow>>
    BY <1>4 DEF IssueSession, Done
  <2> QED
    BY <1>2, <2>1, <2>2
<1>5. ASSUME NEW f \in Flows, RedeemDeploymentSignIn(r, f) PROVE AccessInv'
  <2> DEFINE q == [Idle EXCEPT !.op = "redeemed", !.via = f]
  <2>1. /\ request[r] = Idle /\ flow[f] = "open" /\ flow' = [flow EXCEPT ![f] = "gone"]
        /\ request' = [request EXCEPT ![r] = q]
        /\ UNCHANGED <<account, role, verifier, hashes, session>>
    BY <1>5 DEF RedeemDeploymentSignIn
  <2>2. /\ q \in Memories /\ q.op \notin PasswordOps /\ q.via = f /\ Remembers(q)
    BY IdleIsSound DEF Idle, Memories, PasswordOps, OIDCOps, Remembers
  <2> HIDE DEF q
  <2>3. /\ request'[r] = q /\ \A x \in Requests \ {r} : request'[x] = request[x]
    BY <1>0, <2>1
  <2>4. TypeOK'
    BY <1>0, <2>1, <2>2 DEF TypeOK
  <2>5. AccountsAreWhole' /\ VerifiersAreSound' /\ ErasAgree'
    BY <1>0, <2>1 DEF AccountsAreWhole, VerifiersAreSound, ErasAgree, Stored
  <2>6. RequestsRemember'
    BY <1>0, <2>1, <2>2, <2>3 DEF RequestsRemember, Remembers, Stored
  <2>7. SlotsAreKept'
    BY <1>0, <2>2, <2>3, SlotsStep
  <2>8. FlowsAreSpent'
    <3>1. /\ \A x \in Requests : request[x].via # f
          /\ \A s \in SessionIds : session[s].via # f
      BY <1>0, <2>1 DEF FlowsAreSpent
    <3> QED
      BY <1>0, <2>1, <2>2, <2>3, <3>1 DEF FlowsAreSpent
  <2> QED
    BY <2>4, <2>5, <2>6, <2>7, <2>8 DEF AccessInv
<1> QED
  BY <1>1, <1>3, <1>4, <1>5

LEMMA AccessInvNext == AccessInv /\ [Next]_vars => AccessInv'
<1> SUFFICES ASSUME AccessInv, [Next]_vars PROVE AccessInv'
  OBVIOUS
<1>1. CASE UNCHANGED vars
  BY <1>1 DEF vars, AccessInv, TypeOK, AccountsAreWhole, VerifiersAreSound, Stored, RequestsRemember,
              Remembers, SlotsAreKept, Checking, ErasAgree, FlowsAreSpent
<1>2. ASSUME NEW r \in Requests, CompleteOIDCSignIn(r) PROVE AccessInv'
  BY <1>2, RequestsKeepInv, SignInsKeepInv DEF CompleteOIDCSignIn
<1>3. CASE Next
  BY <1>2, <1>3, RequestsKeepInv, SignInsKeepInv, VerifiersKeepInv, OthersKeepInv
     DEF Next, RemoveMembership, UpdateMembership
<1> QED
  BY <1>1, <1>3

-----------------------------------------------------------------------------
(* The theorems. *)

\* No session, of however many Users, requests and replicas, outlives the password
\* it was opened with, and accounts, verifiers and slots for password checks are
\* whole (IssueLocalSession against replaceLocalPassword, RehashLocalPassword).
THEOREM SessionsAlwaysFollow == Spec => []SessionsFollowThePassword
<1>1. AccessInv => SessionsFollowThePassword
  BY DEF AccessInv, SessionsFollowThePassword, Consistent, AccountsAreWhole, VerifiersAreSound,
         SlotsAreKept, ErasAgree
<1> QED
  BY AccessInvInit, AccessInvNext, <1>1, PTL DEF Spec

\* A sign-in flow is redeemed once, however often its callback is replayed
\* (RedeemDeploymentSignIn, CompleteOIDCSignIn).
THEOREM FlowsAreAlwaysRedeemedOnce == Spec => []FlowsAreRedeemedOnce
<1>1. ASSUME AccessInv, NEW f \in Flows
      PROVE  LET held == {r \in Requests : request[r].via = f}
                 opened == {s \in SessionIds : session[s].via = f}
             IN  /\ Cardinality(held) + Cardinality(opened) <= 1
                 /\ held \cup opened # {} => flow[f] = "gone"
  <2> DEFINE held == {r \in Requests : request[r].via = f}
             opened == {s \in SessionIds : session[s].via = f}
  <2>1. FlowsAreSpent
    BY <1>1 DEF AccessInv
  <2>2. held \cup opened # {} => flow[f] = "gone"
    BY <2>1 DEF FlowsAreSpent
  <2>3. /\ held = {} \/ \E r \in Requests : held = {r}
        /\ opened = {} \/ \E s \in SessionIds : opened = {s}
        /\ held = {} \/ opened = {}
    BY <2>1 DEF FlowsAreSpent
  <2>4. /\ Cardinality({}) = 0 /\ \A x : Cardinality({x}) = 1
    BY FS_EmptySet, FS_Singleton
  <2>5. Cardinality(held) + Cardinality(opened) <= 1
    <3> HIDE DEF held, opened
    <3>1. CASE held = {} /\ opened = {}
      BY <2>4, <3>1
    <3>2. ASSUME NEW r \in Requests, held = {r}, opened = {}
          PROVE  Cardinality(held) + Cardinality(opened) <= 1
      <4>1. Cardinality(held) = 1 /\ Cardinality(opened) = 0
        BY <2>4, <3>2, Zenon
      <4> QED
        BY <4>1
    <3>3. ASSUME NEW s \in SessionIds, held = {}, opened = {s}
          PROVE  Cardinality(held) + Cardinality(opened) <= 1
      <4>1. Cardinality(held) = 0 /\ Cardinality(opened) = 1
        BY <2>4, <3>3, Zenon
      <4> QED
        BY <4>1
    <3> QED
      BY <2>3, <3>1, <3>2, <3>3
  <2> QED
    BY <2>2, <2>5
<1>2. AccessInv => FlowsAreRedeemedOnce
  BY <1>1 DEF FlowsAreRedeemedOnce
<1> QED
  BY AccessInvInit, AccessInvNext, <1>2, PTL DEF Spec

\* Only a change or a recovery replaces a password, one era after the other, and
\* what a late rehash of a sign-in stores accepts the password that is there
\* (replaceLocalPassword, RehashLocalPassword).
THEOREM PasswordsNeverComeBack == Spec => PasswordsDoNotComeBack
<1> DEFINE Kept == \A u \in Local :
            verifier[u] # NoVerifier /\ verifier'[u] # verifier[u] =>
                \/ verifier'[u].era = verifier[u].era + 1
                \/ verifier'[u].era = verifier[u].era /\ verifier'[u].word = verifier[u].word
<1>1. AccessInv /\ [Next]_vars => Kept
  <2> SUFFICES ASSUME AccessInv, [Next]_vars PROVE Kept
    OBVIOUS
  <2>0. /\ verifier \in [Local -> Verifiers] /\ AccountsAreWhole /\ Local \subseteq Users
    BY DEF AccessInv, TypeOK, Users
  <2>1. ASSUME NEW u \in Local, NEW w \in Words, NEW granted, Insert(u, w, granted),
               account[u] = "absent"
        PROVE  Kept
    <3>1. verifier[u] = NoVerifier /\ \A v \in Local \ {u} : verifier'[v] = verifier[v]
      BY <2>0, <2>1 DEF AccountsAreWhole, Insert
    <3> QED
      BY <3>1
  <2>2. ASSUME NEW u \in Users, NEW w \in Words, ReplaceLocalPassword(u, w) PROVE Kept
    BY <2>0, <2>2 DEF ReplaceLocalPassword, HashPassword
  <2>3. ASSUME NEW r \in Requests, RehashLocalPassword(r) PROVE Kept
    <3>1. CASE verifier[request[r].user] = request[r].hash /\ role[request[r].user] # None
      BY <2>0, <2>3, <3>1 DEF RehashLocalPassword, HashPassword
    <3>2. CASE ~(verifier[request[r].user] = request[r].hash /\ role[request[r].user] # None)
      BY <2>3, <3>2 DEF RehashLocalPassword
    <3> QED
      BY <3>1, <3>2
  <2>4. ASSUME NEW r \in Requests, NEW w \in Words, ChangeLocalPassword(r, w) PROVE Kept
    <3>1. request[r].user \in Users
      BY <2>4 DEF ChangeLocalPassword, AccessInv, RequestsRemember, Remembers, PasswordOps, Users
    <3> QED
      BY <2>2, <2>4, <3>1 DEF ChangeLocalPassword
  <2>5. CASE UNCHANGED verifier
    BY <2>5
  <2>6. ASSUME NEW u \in Local, NEW w \in Words, RecoverLocalPassword(u, w) PROVE Kept
    BY <2>0, <2>2, <2>6 DEF RecoverLocalPassword
  <2>7. ASSUME NEW u \in Local, NEW w \in Words, NEW s \in SessionIds, BootstrapLocalAdmin(u, w, s)
        PROVE  Kept
    BY <2>0, <2>1, <2>7 DEF BootstrapLocalAdmin, BootstrapLocalUser
  <2>8. ASSUME NEW r \in Requests, NEW u \in Local, NEW w \in Words, NEW granted \in Roles,
               CreateMember(r, u, w, granted)
        PROVE  Kept
    BY <2>1, <2>8 DEF CreateMember, CreateLocalMember
  <2> HIDE DEF Kept
  <2>9. ASSUME NEW r \in Requests, CompleteOIDCSignIn(r) PROVE UNCHANGED verifier
    BY <2>9 DEF CompleteOIDCSignIn, RedeemDeploymentSignIn, Exchange, OIDCIdentity, IssueSession
  <2>10. ASSUME NEW r \in Requests, NEW s \in SessionIds,
                \/ \E op \in DOMAIN Routes : Protect(r, s, op)
                \/ SignOut(r, s) \/ IssueLocalSession(r, s)
         PROVE  UNCHANGED verifier
    BY <2>10 DEF Protect, SignOut, IssueLocalSession
  <2>11. ASSUME NEW r \in Requests, NEW w \in Words,
                CheckLocalPassword(r, w) \/ \E u \in Local : LocalSignIn(r, u, w)
         PROVE  UNCHANGED verifier
    BY <2>11 DEF CheckLocalPassword, LocalSignIn
  <2>12. ASSUME NEW r \in Requests,
                \/ \E u \in Users : RemoveMembership(r, u)
                \/ \E u \in Users, wanted \in Roles : UpdateMembership(r, u, wanted)
                \/ CommitMembership(r) \/ DeleteCurrentSession(r) \/ Abandon(r)
         PROVE  UNCHANGED verifier
    BY <2>12 DEF RemoveMembership, UpdateMembership, LockMembership, CommitMembership,
                 DeleteCurrentSession, Abandon
  <2>13. ASSUME \/ \E f \in Flows : StartOIDCSignIn(f)
                \/ PruneSessions
                \/ Expire
                \/ \E u \in Federated, granted \in Roles : Provision(u, granted)
                \/ \E u \in Users : Disable(u)
         PROVE  UNCHANGED verifier
    BY <2>13 DEF StartOIDCSignIn, StartDeploymentSignIn, PruneSessions, Expire, Provision, Disable
  <2>14. CASE UNCHANGED vars
    BY <2>5, <2>14 DEF vars
  <2> QED
    BY <2>3, <2>4, <2>5, <2>6, <2>7, <2>8, <2>9, <2>10, <2>11, <2>12, <2>13, <2>14 DEF Next
<1> QED
  BY AccessInvInit, AccessInvNext, <1>1, PTL DEF Spec, PasswordsDoNotComeBack

-----------------------------------------------------------------------------
(* Listings. *)

Precedes(i, j, order) == Before(Value(i, order), i, Value(j, order), j, order)

\* Row i comes after the position of the cursor.
Past(cursor, i, order) == Before(cursor.value, cursor.id, Value(i, order), i, order)

Holds(s, i) == \E n \in DOMAIN s : s[n] = i
HoldsOnce(s, i) == \A m, n \in DOMAIN s : s[m] = i /\ s[n] = i => m = n

\* Positions are in a strict and total order.
LEMMA BeforeFacts ==
    ASSUME NEW a \in Nat, NEW b \in Nat, NEW c \in Nat, NEW i \in Nat, NEW j \in Nat, NEW k \in Nat, NEW order
    PROVE  /\ ~Before(a, i, a, i, order)
           /\ i # j => Before(a, i, b, j, order) \/ Before(b, j, a, i, order)
           /\ ~(Before(a, i, b, j, order) /\ Before(b, j, a, i, order))
           /\ Before(a, i, b, j, order) /\ Before(b, j, c, k, order) => Before(a, i, c, k, order)
           /\ ~Before(a, i, b, j, order) /\ Before(a, i, c, k, order) => Before(b, j, c, k, order)
BY DEF Before

LEMMA GreatestFacts == Greatest \in Nat /\ Greatest # 0 /\ Least \in Nat
<1>1. \E v \in Values : \A w \in Values : w <= v
  BY ListingAssumption
<1>2. (CHOOSE v \in Values : \A w \in Values : w <= v) \in Values
  BY <1>1
<1>3. \A v \in Values : v \in Nat
  BY ListingAssumption
<1> HIDE DEF Greatest
<1> DEFINE g == CHOOSE v \in Values : \A w \in Values : w <= v
<1>4. Greatest = 1 + g
  BY DEF Greatest
<1> HIDE DEF g
<1>5. g \in Nat
  BY <1>2, <1>3 DEF g
<1> QED
  BY <1>4, <1>5 DEF Least

\* Every row there is has a place, in every order.
LEMMA ValueFacts ==
    ASSUME table \in [Ids -> Row \cup {Absent}], NEW i \in Present, NEW order \in Orders
    PROVE  /\ i \in Nat /\ Value(i, order) \in Nat
           /\ order = Order("made", FALSE) => Value(i, order) # 0
<1>1. i \in Ids /\ i \in Nat
  BY ListingAssumption DEF Present
<1>2. table[i] \in Row
  BY <1>1 DEF Present
<1>3. order.column \in Columns
  BY DEF Orders
<1>5. /\ table[i].made \in Values /\ table[i].moved \in Values \cup {Never}
  BY <1>2 DEF Row
<1>6. \A v \in Values : v \in Nat /\ v # 0
  BY ListingAssumption
<1>7. CASE order.column = "made"
  <2>1. table[i][order.column] = table[i].made
    BY <1>7
  <2>2. table[i].made \in Nat /\ table[i].made # 0 /\ table[i].made # Never
    BY <1>5, <1>6 DEF Never
  <2>3. Value(i, order) = table[i].made
    BY <2>1, <2>2 DEF Value
  <2> QED
    BY <1>1, <2>2, <2>3
<1>8. CASE order.column = "moved"
  <2>1. table[i][order.column] = table[i].moved
    BY <1>8
  <2>2. Value(i, order) \in {table[i].moved, Least, Greatest} /\ (table[i].moved = Never => Value(i, order) # table[i].moved)
    BY <2>1, GreatestFacts DEF Value, Never
  <2>3. Value(i, order) \in Nat
    BY <1>5, <1>6, <2>2, GreatestFacts
  <2>4. order # Order("made", FALSE)
    BY <1>8 DEF Order
  <2> QED
    BY <1>1, <2>3, <2>4
<1> QED
  BY <1>3, <1>7, <1>8 DEF Columns

\* ORDER BY and LIMIT give the first rows, in order and without a gap.
LEMMA PageFacts ==
    ASSUME table \in [Ids -> Row \cup {Absent}], NEW rows \in SUBSET Present,
           NEW order \in Orders, NEW limit \in Nat \ {0}
    PROVE  LET p == Page(rows, order, limit)
           IN  /\ p \in Seq(rows) /\ Len(p) <= limit
               /\ \A m, n \in DOMAIN p : p[m] = p[n] => m = n
               /\ \A i \in rows : \A n \in DOMAIN p :
                    ~Precedes(p[n], i, order) <=> \E m \in 1 .. n : p[m] = i
               /\ Len(p) < limit => \A i \in rows : Holds(p, i)
<1> DEFINE Upto(i) == {j \in rows : Precedes(j, i, order)}
           Place(i) == 1 + Cardinality(Upto(i))
           C == Cardinality(rows)
           M == IF C < limit THEN C ELSE limit
           p == Page(rows, order, limit)
<1>1. IsFiniteSet(rows) /\ C \in Nat
  <2>1. Present \in SUBSET Ids /\ IsFiniteSet(Ids)
    BY ListingAssumption DEF Present
  <2>2. IsFiniteSet(rows)
    BY <2>1, FS_Subset
  <2> QED
    BY <2>2, FS_CardinalityType
<1>3. \A i \in rows : i \in Nat /\ Value(i, order) \in Nat
  BY ValueFacts
<1>a. \A i, j, k \in rows : /\ ~Precedes(i, i, order)
                            /\ i # j => Precedes(i, j, order) \/ Precedes(j, i, order)
                            /\ ~(Precedes(i, j, order) /\ Precedes(j, i, order))
                            /\ Precedes(i, j, order) /\ Precedes(j, k, order) => Precedes(i, k, order)
  BY <1>3, BeforeFacts, ZenonT(40) DEF Precedes
<1>2. \A i \in rows : IsFiniteSet(Upto(i)) /\ Cardinality(Upto(i)) \in Nat /\ Upto(i) \in SUBSET rows
  <2> SUFFICES ASSUME NEW i \in rows
               PROVE IsFiniteSet(Upto(i)) /\ Cardinality(Upto(i)) \in Nat /\ Upto(i) \in SUBSET rows
    OBVIOUS
  <2>1. Upto(i) \in SUBSET rows
    OBVIOUS
  <2> HIDE DEF Upto
  <2>2. IsFiniteSet(Upto(i))
    BY <1>1, <2>1, FS_Subset, Zenon
  <2> QED
    BY <2>1, <2>2, FS_CardinalityType
<1>4. ASSUME NEW i \in rows, NEW j \in rows, Precedes(i, j, order) PROVE Place(i) < Place(j)
  <2>1. i \in Upto(j) /\ i \notin Upto(i) /\ Upto(i) \in SUBSET Upto(j)
    BY <1>a, <1>4
  <2> HIDE DEF Upto
  <2>2. /\ Cardinality(Upto(i)) <= Cardinality(Upto(j))
        /\ Cardinality(Upto(j)) = Cardinality(Upto(i)) => Upto(j) = Upto(i)
    BY <1>2, <2>1, FS_Subset
  <2>3. Cardinality(Upto(i)) # Cardinality(Upto(j))
    BY <2>1, <2>2
  <2> QED
    BY <1>2, <2>2, <2>3
<1>5. \A i \in rows : Place(i) \in 1 .. C
  <2> SUFFICES ASSUME NEW i \in rows PROVE Place(i) \in 1 .. C
    OBVIOUS
  <2>1. i \notin Upto(i)
    BY <1>a
  <2> HIDE DEF Upto
  <2>2. Cardinality(Upto(i)) <= C /\ (Cardinality(Upto(i)) = C => Upto(i) = rows)
    BY <1>1, <1>2, FS_Subset
  <2> QED
    BY <1>1, <1>2, <2>1, <2>2
<1>b. \A i \in rows : Place(i) \in Nat
  BY <1>1, <1>5
<1>6. \A i, j \in rows : Place(i) = Place(j) => i = j
  <2> SUFFICES ASSUME NEW i \in rows, NEW j \in rows, Place(i) = Place(j), i # j PROVE FALSE
    OBVIOUS
  <2>1. Precedes(i, j, order) \/ Precedes(j, i, order)
    BY <1>a
  <2> HIDE DEF Place
  <2>3. Place(i) < Place(j) \/ Place(j) < Place(i)
    BY <1>4, <2>1
  <2> QED
    BY <1>b, <2>3
<1>8. p = [k \in 1 .. M |-> CHOOSE i \in rows : Place(i) = k]
  BY DEF Page, Precedes
<1> HIDE DEF Place
<1>7. \A k \in 1 .. C : \E i \in rows : Place(i) = k
  <2> DEFINE f == [i \in rows |-> Place(i)]
  <2>1. f \in Injection(rows, 1 .. C)
    BY <1>5, <1>6 DEF Injection, IsInjective
  <2>2. IsFiniteSet(1 .. C) /\ Cardinality(1 .. C) = C
    BY <1>1, FS_Interval
  <2>3. f \in Surjection(rows, 1 .. C)
    BY <2>1, <2>2, FS_Injection, Zenon
  <2> QED
    BY <2>3 DEF Surjection
<1>9. M \in Nat /\ M <= limit /\ M <= C /\ (M < limit => M = C) /\ \A k \in 1 .. M : k \in 1 .. C
  BY <1>1
<1> HIDE DEF M, p, C
<1>10. \A k \in 1 .. M : p[k] \in rows /\ Place(p[k]) = k
  <2>1. \A k \in 1 .. M : p[k] = CHOOSE i \in rows : Place(i) = k
    BY <1>8
  <2> QED
    BY <1>7, <1>9, <2>1
<1>11. p \in Seq(rows) /\ Len(p) = M /\ DOMAIN p = 1 .. M
  <2>1. p \in [1 .. M -> rows]
    BY <1>8, <1>10
  <2> QED
    BY <1>9, <2>1
<1>12. \A m, n \in DOMAIN p : p[m] = p[n] => m = n
  BY <1>10, <1>11
<1>13. \A i \in rows : \A n \in DOMAIN p : ~Precedes(p[n], i, order) <=> \E m \in 1 .. n : p[m] = i
  <2> SUFFICES ASSUME NEW i \in rows, NEW n \in 1 .. M
               PROVE  ~Precedes(p[n], i, order) <=> \E m \in 1 .. n : p[m] = i
    BY <1>11
  <2>1. p[n] \in rows /\ Place(p[n]) = n /\ n \in Nat /\ n <= M
    BY <1>9, <1>10
  <2>2. ASSUME ~Precedes(p[n], i, order) PROVE \E m \in 1 .. n : p[m] = i
    <3>1. p[n] = i \/ Precedes(i, p[n], order)
      BY <1>a, <2>1, <2>2
    <3>2. Place(i) <= n
      <4>1. Precedes(i, p[n], order) => Place(i) < n
        BY <1>4, <2>1
      <4> QED
        BY <1>b, <2>1, <3>1, <4>1
    <3>3. Place(i) \in 1 .. n /\ Place(i) \in 1 .. M
      BY <1>5, <1>9, <1>b, <2>1, <3>2
    <3>4. p[Place(i)] = i
      BY <1>6, <1>10, <3>3
    <3> QED
      BY <3>3, <3>4
  <2>3. ASSUME NEW m \in 1 .. n, p[m] = i, Precedes(p[n], i, order) PROVE FALSE
    <3>1. m \in 1 .. M
      BY <1>9, <2>1
    <3>2. Place(i) = m
      BY <1>10, <2>3, <3>1
    <3>3. n < m
      BY <1>4, <2>1, <2>3, <3>2
    <3> QED
      BY <2>1, <3>3
  <2> QED
    BY <2>2, <2>3
<1>14. ASSUME Len(p) < limit, NEW i \in rows PROVE Holds(p, i)
  <2>1. Place(i) \in 1 .. M
    BY <1>5, <1>9, <1>11, <1>14
  <2>2. p[Place(i)] = i
    BY <1>6, <1>10, <2>1
  <2> QED
    BY <1>11, <2>1, <2>2 DEF Holds
<1>15. Len(p) <= limit
  BY <1>9, <1>11
<1> QED
  BY <1>11, <1>12, <1>13, <1>14, <1>15 DEF p

\* What a reader holds after another page.
LEMMA ConcatHolds ==
    ASSUME NEW S, NEW q \in Seq(S), NEW s \in Seq(S), NEW i
    PROVE  /\ Holds(q \o s, i) <=> Holds(q, i) \/ Holds(s, i)
           /\ HoldsOnce(q, i) /\ HoldsOnce(s, i) /\ ~(Holds(q, i) /\ Holds(s, i)) => HoldsOnce(q \o s, i)
<1> DEFINE t == q \o s
<1>1. /\ Len(q) \in Nat /\ Len(s) \in Nat /\ DOMAIN q = 1 .. Len(q) /\ DOMAIN s = 1 .. Len(s)
      /\ DOMAIN t = 1 .. Len(q) + Len(s)
      /\ \A n \in 1 .. Len(q) : t[n] = q[n]
      /\ \A n \in 1 .. Len(s) : t[Len(q) + n] = s[n]
  <2>1. t \in Seq(S) /\ Len(t) = Len(q) + Len(s)
    OBVIOUS
  <2> QED
    BY <2>1
<1> HIDE DEF t
<1>2. \A n \in 1 .. Len(q) + Len(s) : n \in 1 .. Len(q) \/ (n - Len(q) \in 1 .. Len(s) /\ t[n] = s[n - Len(q)])
  <2> SUFFICES ASSUME NEW n \in 1 .. Len(q) + Len(s), n \notin 1 .. Len(q)
               PROVE  n - Len(q) \in 1 .. Len(s) /\ t[n] = s[n - Len(q)]
    OBVIOUS
  <2>1. n - Len(q) \in 1 .. Len(s) /\ Len(q) + (n - Len(q)) = n
    BY <1>1
  <2> QED
    BY <1>1, <2>1
<1>3. Holds(t, i) <=> Holds(q, i) \/ Holds(s, i)
  <2>1. Holds(t, i) => Holds(q, i) \/ Holds(s, i)
    BY <1>1, <1>2 DEF Holds
  <2>2. Holds(q, i) => Holds(t, i)
    BY <1>1 DEF Holds
  <2>3. Holds(s, i) => Holds(t, i)
    <3> SUFFICES ASSUME NEW n \in 1 .. Len(s), s[n] = i PROVE Holds(t, i)
      BY <1>1 DEF Holds
    <3>1. Len(q) + n \in DOMAIN t /\ t[Len(q) + n] = i
      BY <1>1
    <3> QED
      BY <3>1 DEF Holds
  <2> QED
    BY <2>1, <2>2, <2>3
<1>4. ASSUME HoldsOnce(q, i), HoldsOnce(s, i), ~(Holds(q, i) /\ Holds(s, i)) PROVE HoldsOnce(t, i)
  <2> SUFFICES ASSUME NEW m \in 1 .. Len(q) + Len(s), NEW n \in 1 .. Len(q) + Len(s), t[m] = i, t[n] = i
               PROVE  m = n
    BY <1>1 DEF HoldsOnce
  <2>1. CASE m \in 1 .. Len(q) /\ n \in 1 .. Len(q)
    BY <1>1, <1>4, <2>1 DEF HoldsOnce
  <2>2. CASE m \notin 1 .. Len(q) /\ n \notin 1 .. Len(q)
    <3>1. m - Len(q) = n - Len(q)
      BY <1>1, <1>2, <1>4, <2>2, SMTT(40) DEF HoldsOnce
    <3> QED
      BY <1>1, <3>1
  <2>3. ASSUME NEW x \in 1 .. Len(q), t[x] = i, NEW y \in 1 .. Len(q) + Len(s), t[y] = i, y \notin 1 .. Len(q)
        PROVE  FALSE
    <3>1. Holds(q, i)
      BY <1>1, <2>3 DEF Holds
    <3>2. Holds(s, i)
      BY <1>1, <1>2, <2>3 DEF Holds
    <3> QED
      BY <1>4, <3>1, <3>2
  <2> QED
    BY <2>1, <2>2, <2>3
<1> QED
  BY <1>3, <1>4 DEF t

-----------------------------------------------------------------------------

Walks == [pc : {"idle", "reading", "done"}, cursor : [scope : Orders, value : Nat, id : Nat],
          shown : Seq(Ids), settled : SUBSET Ids]

\* A settled row is with the reader exactly when it does not come after the cursor.
SettledIsShown(i, w) ==
    /\ HoldsOnce(w.shown, i)
    /\ Holds(w.shown, i) => table[i].org
    /\ table[i].org /\ w.pc = "reading" => (Holds(w.shown, i) <=> ~Past(w.cursor, i, w.cursor.scope))
    /\ table[i].org /\ w.pc = "done" => Holds(w.shown, i)

WalkIsOpen(w) ==
    /\ w.pc = "idle" => w.shown = <<>> /\ w.settled = {} /\ w.cursor = Start
    /\ w.pc = "reading" => w.cursor # Start

ListingInv ==
    /\ table \in [Ids -> Row \cup {Absent}]
    /\ walk \in Walks
    /\ walk.settled \subseteq Present
    /\ WalkIsOpen(walk)
    /\ \A i \in walk.settled : SettledIsShown(i, walk)

\* A row that is added, moved or removed is not among the settled ones.
LEMMA OthersStaySettled ==
    ASSUME ListingInv, NEW i \in Ids, NEW row \in Row \cup {Absent},
           table' = [table EXCEPT ![i] = row],
           walk' \in Walks, walk'.pc = walk.pc, walk'.cursor = walk.cursor, walk'.shown = walk.shown,
           walk'.settled = walk.settled \ {i}
    PROVE  ListingInv'
<1>1. table' \in [Ids -> Row \cup {Absent}] /\ \A j \in Ids \ {i} : table'[j] = table[j]
  BY DEF ListingInv
<1>2. ASSUME NEW j \in walk'.settled
      PROVE  /\ j \in walk.settled /\ j \in Ids /\ table'[j] = table[j] /\ j \in Present'
             /\ SettledIsShown(j, walk)'
  <2>1. j \in walk.settled /\ j \in Ids /\ j # i /\ j \in Present
    BY <1>2 DEF ListingInv, Present
  <2>2. table'[j] = table[j]
    BY <1>1, <2>1
  <2>3. j \in Present'
    BY <2>1, <2>2 DEF Present
  <2>4. SettledIsShown(j, walk)
    BY <2>1 DEF ListingInv
  <2>5. Past(walk.cursor, j, walk.cursor.scope)' <=> Past(walk.cursor, j, walk.cursor.scope)
    BY <2>2 DEF Past, Value
  <2> QED
    BY <2>1, <2>2, <2>3, <2>4, <2>5 DEF SettledIsShown
<1>3. WalkIsOpen(walk)'
  BY DEF ListingInv, WalkIsOpen
<1> QED
  BY <1>1, <1>2, <1>3 DEF ListingInv

LEMMA InsertStep ==
    ASSUME ListingInv, NEW i \in Ids, InsertRow(i)
    PROVE  ListingInv'
<1>1. PICK row \in Row : table' = [table EXCEPT ![i] = row]
  BY DEF InsertRow
<1>2. i \notin walk.settled /\ walk' = walk /\ walk \in Walks
  BY DEF InsertRow, ListingInv, Present
<1>3. walk'.settled = walk.settled \ {i}
  BY <1>2
<1> QED
  BY <1>1, <1>2, <1>3, OthersStaySettled

LEMMA MoveStep ==
    ASSUME ListingInv, NEW i \in Ids, MoveRow(i)
    PROVE  ListingInv'
<1>1. walk \in Walks /\ walk' = [walk EXCEPT !.settled = walk.settled \ {i}]
  BY DEF MoveRow, ListingInv
<1>2. /\ walk' \in Walks /\ walk'.pc = walk.pc /\ walk'.cursor = walk.cursor
      /\ walk'.shown = walk.shown /\ walk'.settled = walk.settled \ {i}
  BY <1>1 DEF Walks
<1>3. table[i] \in Row /\ table \in [Ids -> Row \cup {Absent}]
  BY DEF MoveRow, ListingInv
<1>4. PICK value \in Values : table' = [table EXCEPT ![i].moved = value]
  BY DEF MoveRow
<1>5. table' = [table EXCEPT ![i] = [table[i] EXCEPT !.moved = value]]
  BY <1>3, <1>4
<1>6. [table[i] EXCEPT !.moved = value] \in Row
  BY <1>3 DEF Row
<1> QED
  BY <1>2, <1>5, <1>6, OthersStaySettled

LEMMA DeleteStep ==
    ASSUME ListingInv, NEW i \in Ids, DeleteRow(i)
    PROVE  ListingInv'
<1>1. walk \in Walks /\ walk' = [walk EXCEPT !.settled = walk.settled \ {i}]
  BY DEF DeleteRow, ListingInv
<1>2. /\ walk' \in Walks /\ walk'.pc = walk.pc /\ walk'.cursor = walk.cursor
      /\ walk'.shown = walk.shown /\ walk'.settled = walk.settled \ {i}
  BY <1>1 DEF Walks
<1>3. table' = [table EXCEPT ![i] = Absent]
  BY DEF DeleteRow
<1> QED
  BY <1>2, <1>3, OthersStaySettled

\* The rows of a page, and where the next one begins.
LEMMA PageStep ==
    ASSUME ListingInv, NEW order \in Orders, InScope(walk.cursor, order)
    PROVE  LET R == RowsAfter(order, walk.cursor)
               rows == Page(R, order, PageLimit + 1)
               more == Len(rows) > PageLimit
               s == IF more THEN SubSeq(rows, 1, PageLimit) ELSE rows
           IN  /\ s \in Seq(Ids) /\ \A i : HoldsOnce(s, i)
               /\ \A i : Holds(s, i) => i \in R
               /\ more => /\ rows[PageLimit] \in R /\ rows[PageLimit] \in Present
                          /\ \A i \in R : Holds(s, i) <=> ~Precedes(rows[PageLimit], i, order)
               /\ ~more => \A i \in R : Holds(s, i)
<1> DEFINE R == RowsAfter(order, walk.cursor)
           rows == Page(R, order, PageLimit + 1)
           more == Len(rows) > PageLimit
           s == IF more THEN SubSeq(rows, 1, PageLimit) ELSE rows
<1>1. R \in SUBSET Present /\ Present \in SUBSET Ids
  BY DEF RowsAfter, Present
<1>2. PageLimit \in Nat \ {0} /\ PageLimit + 1 \in Nat \ {0}
  BY ListingAssumption
<1>3. table \in [Ids -> Row \cup {Absent}]
  BY DEF ListingInv
<1> HIDE DEF R
<1>4. /\ rows \in Seq(R) /\ Len(rows) <= PageLimit + 1
      /\ \A m, n \in DOMAIN rows : rows[m] = rows[n] => m = n
      /\ \A i \in R : \A n \in DOMAIN rows :
           ~Precedes(rows[n], i, order) <=> \E m \in 1 .. n : rows[m] = i
      /\ Len(rows) < PageLimit + 1 => \A i \in R : Holds(rows, i)
  BY <1>1, <1>2, <1>3, PageFacts
<1> HIDE DEF rows
<1>5. Len(rows) \in Nat /\ DOMAIN rows = 1 .. Len(rows) /\ \A n \in DOMAIN rows : rows[n] \in R
  BY <1>4
<1>6. CASE more
  <2>0. Len(rows) > PageLimit /\ Len(rows) <= PageLimit + 1 /\ Len(rows) \in Nat /\ PageLimit \in Nat \ {0}
    BY <1>2, <1>4, <1>5, <1>6
  <2>9. Len(rows) = PageLimit + 1 /\ PageLimit \in 1 .. Len(rows)
    BY <2>0
  <2>1. Len(rows) = PageLimit + 1 /\ PageLimit \in DOMAIN rows
    BY <1>5, <2>9
  <2>2. /\ s \in Seq(R) /\ DOMAIN s = 1 .. PageLimit /\ \A n \in 1 .. PageLimit : s[n] = rows[n]
    BY <1>2, <1>4, <1>6, <2>1, SubSeqProperties
  <2> HIDE DEF s
  <2>3. \A n \in 1 .. PageLimit : n \in DOMAIN rows
    BY <1>2, <1>5, <2>1
  <2>4. \A i : HoldsOnce(s, i)
    BY <1>4, <2>2, <2>3 DEF HoldsOnce
  <2>5. \A i : Holds(s, i) => i \in R
    BY <1>5, <2>2, <2>3 DEF Holds
  <2>6. rows[PageLimit] \in R /\ rows[PageLimit] \in Present
    BY <1>1, <1>5, <2>1
  <2>7. \A i \in R : Holds(s, i) <=> ~Precedes(rows[PageLimit], i, order)
    BY <1>4, <2>1, <2>2, SMTT(40) DEF Holds
  <2>8. s \in Seq(Ids)
    <3>1. s \in [1 .. PageLimit -> Ids] /\ PageLimit \in Nat
      <4>1. \A n \in 1 .. PageLimit : s[n] \in Ids
        BY <1>1, <1>5, <2>2, <2>3
      <4>2. s = [n \in 1 .. PageLimit |-> s[n]]
        BY <2>2
      <4> QED
        BY <1>2, <4>1, <4>2
    <3> QED
      BY <3>1, SeqDef
  <2> QED
    BY <1>6, <2>4, <2>5, <2>6, <2>7, <2>8 DEF s, rows, R
<1>7. CASE ~more
  <2>1. s = rows /\ Len(rows) < PageLimit + 1
    BY <1>2, <1>5, <1>7
  <2>2. \A i : HoldsOnce(rows, i)
    BY <1>4 DEF HoldsOnce
  <2>3. \A i : Holds(rows, i) => i \in R
    BY <1>5 DEF Holds
  <2>4. rows \in Seq(Ids)
    <3>1. rows \in [1 .. Len(rows) -> R]
      BY <1>4, LenProperties
    <3>2. rows \in [1 .. Len(rows) -> Ids]
      BY <1>1, <3>1
    <3> QED
      BY <1>5, <3>2, SeqDef
  <2> QED
    BY <1>4, <1>7, <2>1, <2>2, <2>3, <2>4 DEF rows, R
<1> QED
  BY <1>6, <1>7

LEMMA ReadStep ==
    ASSUME ListingInv, NEW order \in Orders, ReadPage(order)
    PROVE  ListingInv'
<1> DEFINE R == RowsAfter(order, walk.cursor)
           rows == Page(R, order, PageLimit + 1)
           more == Len(rows) > PageLimit
           s == IF more THEN SubSeq(rows, 1, PageLimit) ELSE rows
           next == IF more THEN NextCursor(rows, order) ELSE walk.cursor
           settled == IF walk.pc = "idle" THEN Present ELSE walk.settled
<1>1. CASE ~InScope(walk.cursor, order)
  BY <1>1 DEF ReadPage, ListingInv, SettledIsShown, Past, Value, Present, WalkIsOpen
<1>2. CASE InScope(walk.cursor, order)
  <2>1. /\ walk.pc \in {"idle", "reading"} /\ table' = table
        /\ walk' = [pc |-> IF more THEN "reading" ELSE "done", cursor |-> next,
                    shown |-> walk.shown \o s, settled |-> settled]
    BY <1>2 DEF ReadPage
  <2>2. /\ s \in Seq(Ids) /\ \A i : HoldsOnce(s, i)
        /\ \A i : Holds(s, i) => i \in R
        /\ more => /\ rows[PageLimit] \in R /\ rows[PageLimit] \in Present
                   /\ \A i \in R : Holds(s, i) <=> ~Precedes(rows[PageLimit], i, order)
        /\ ~more => \A i \in R : Holds(s, i)
    BY <1>2, PageStep
  <2>3. /\ table \in [Ids -> Row \cup {Absent}] /\ walk \in Walks
        /\ walk.settled \subseteq Present /\ WalkIsOpen(walk)
        /\ \A i \in walk.settled : SettledIsShown(i, walk)
    BY DEF ListingInv
  <2>4. /\ walk.shown \in Seq(Ids) /\ walk.cursor \in [scope : Orders, value : Nat, id : Nat]
        /\ walk.cursor.value \in Nat /\ walk.cursor.id \in Nat
    BY <2>3 DEF Walks
  <2>5. \A i \in R : i \in Present /\ table[i].org /\ (walk.cursor # Start => Past(walk.cursor, i, order))
    BY DEF RowsAfter, Past
  <2>6. \A i \in Present : /\ table[i].org /\ i \notin R
                           => walk.cursor # Start /\ ~Past(walk.cursor, i, order)
    <3> SUFFICES ASSUME NEW i \in Present, table[i].org, i \notin R
                 PROVE  walk.cursor # Start /\ ~Past(walk.cursor, i, order)
      OBVIOUS
    <3>1. Value(i, order) \in Nat
      BY <2>3, ValueFacts
    <3>2. Never \notin {walk.cursor.value, Value(i, order)}
      BY <2>4, <3>1 DEF Never
    <3> QED
      BY <3>2 DEF RowsAfter, Past
  <2> HIDE DEF R, rows, more, s
  <2>7. next \in [scope : Orders, value : Nat, id : Nat] /\ (more => next # Start)
    <3>1. CASE more
      <4> DEFINE l == rows[PageLimit]
      <4>1. l \in Nat /\ Value(l, order) \in Nat /\ (order = Order("made", FALSE) => Value(l, order) # 0)
        BY <2>2, <2>3, <3>1, ValueFacts
      <4>2. next = [scope |-> order, value |-> Value(l, order), id |-> l]
        BY <3>1 DEF NextCursor
      <4> HIDE DEF l, next
      <4>3. next \in [scope : Orders, value : Nat, id : Nat]
        BY <4>1, <4>2
      <4>4. next.scope = order /\ next.value = Value(l, order) /\ Start.scope = Order("made", FALSE) /\ Start.value = 0
        BY <4>2 DEF Start
      <4> QED
        BY <4>1, <4>3, <4>4
    <3>2. CASE ~more
      BY <2>4, <3>2
    <3> QED
      BY <3>1, <3>2
  <2>8. settled \in SUBSET Ids /\ settled \subseteq Present
    BY <2>3 DEF Present
  <2>9. walk.shown \o s \in Seq(Ids)
    BY <2>2, <2>4
  <2>10. walk' \in Walks
    <3> HIDE DEF next, settled
    <3> QED
      BY <2>1, <2>7, <2>8, <2>9 DEF Walks
  <2>11. /\ walk'.pc = (IF more THEN "reading" ELSE "done") /\ walk'.cursor = next
         /\ walk'.shown = walk.shown \o s /\ walk'.settled = settled
    BY <2>1
  <2>12. ASSUME NEW i \in settled
         PROVE  /\ i \in Present /\ HoldsOnce(walk.shown, i) /\ (Holds(walk.shown, i) => table[i].org)
                /\ ~(Holds(walk.shown, i) /\ Holds(s, i))
                /\ table[i].org => (i \in R <=> ~Holds(walk.shown, i))
                /\ table[i].org /\ i \notin R => walk.cursor # Start /\ ~Past(walk.cursor, i, order)
    <3>1. i \in Present
      BY <2>8
    <3>2. CASE walk.pc = "idle"
      <4>1. walk.shown = <<>> /\ DOMAIN walk.shown = {} /\ walk.cursor = Start
        BY <2>3, <3>2 DEF WalkIsOpen
      <4>2. ~Holds(walk.shown, i) /\ HoldsOnce(walk.shown, i)
        BY <4>1 DEF Holds, HoldsOnce
      <4> QED
        BY <2>6, <3>1, <4>1, <4>2
    <3>3. CASE walk.pc = "reading"
      <4>1. i \in walk.settled /\ walk.cursor # Start /\ walk.cursor.scope = order
        BY <1>2, <2>3, <2>12, <3>3 DEF WalkIsOpen, InScope
      <4>2. SettledIsShown(i, walk)
        BY <2>3, <4>1
      <4>3. /\ HoldsOnce(walk.shown, i) /\ (Holds(walk.shown, i) => table[i].org)
            /\ table[i].org => (Holds(walk.shown, i) <=> ~Past(walk.cursor, i, order))
        BY <3>3, <4>1, <4>2 DEF SettledIsShown
      <4>4. table[i].org => (i \in R <=> ~Holds(walk.shown, i))
        BY <2>5, <2>6, <3>1, <4>1, <4>3
      <4> QED
        BY <2>2, <2>6, <3>1, <4>3, <4>4
    <3> QED
      BY <2>1, <3>2, <3>3
  <2>13. ASSUME NEW i \in settled
         PROVE  SettledIsShown(i, walk')
    <3> HIDE DEF settled
    <3>1. /\ Holds(walk'.shown, i) <=> Holds(walk.shown, i) \/ Holds(s, i)
          /\ HoldsOnce(walk'.shown, i)
      BY <2>2, <2>4, <2>11, <2>12, <2>13, ConcatHolds
    <3>2. Holds(walk'.shown, i) => table[i].org
      BY <2>2, <2>5, <2>12, <2>13, <3>1
    <3>3. ASSUME table[i].org, ~more PROVE Holds(walk'.shown, i)
      BY <2>2, <2>12, <2>13, <3>1, <3>3
    <3>4. ASSUME table[i].org, more PROVE Holds(walk'.shown, i) <=> ~Past(next, i, order) /\ next.scope = order
      <4> DEFINE l == rows[PageLimit]
      <4>1. next.scope = order /\ next.value = Value(l, order) /\ next.id = l
        BY <3>4 DEF NextCursor
      <4>2. Past(next, i, order) <=> Precedes(l, i, order)
        BY <4>1 DEF Past, Precedes
      <4>3. CASE i \in R
        BY <2>2, <2>12, <2>13, <3>1, <3>4, <4>1, <4>2, <4>3
      <4>4. CASE i \notin R
        <5>1. Holds(walk'.shown, i) /\ walk.cursor # Start /\ ~Past(walk.cursor, i, order)
          BY <2>12, <2>13, <3>1, <3>4, <4>4
        <5>2. l \in R /\ l \in Present
          BY <2>2, <3>4
        <5>3. Past(walk.cursor, l, order)
          BY <2>5, <5>1, <5>2
        <5>4. /\ i \in Nat /\ l \in Nat /\ Value(i, order) \in Nat /\ Value(l, order) \in Nat
          BY <2>3, <2>12, <2>13, <5>2, ValueFacts
        <5>5. ~Precedes(l, i, order)
          <6> HIDE DEF l
          <6> QED
            BY <2>4, <5>1, <5>3, <5>4 DEF Past, Precedes, Before
        <5> QED
          BY <4>1, <4>2, <5>1, <5>5
      <4> QED
        BY <4>3, <4>4
    <3>5. more => walk'.cursor.scope = order
      BY <2>11 DEF NextCursor
    <3> HIDE DEF next
    <3> QED
      BY <2>11, <3>1, <3>2, <3>3, <3>4, <3>5 DEF SettledIsShown
  <2>14. WalkIsOpen(walk')
    BY <2>7, <2>11 DEF WalkIsOpen
  <2>15. /\ Present' = Present
         /\ \A i : SettledIsShown(i, walk)' <=> SettledIsShown(i, walk')
    BY <2>1 DEF Present, SettledIsShown, Past, Value
  <2> HIDE DEF settled, next
  <2> QED
    BY <2>1, <2>3, <2>8, <2>10, <2>11, <2>13, <2>14, <2>15 DEF ListingInv, WalkIsOpen
<1> QED
  BY <1>1, <1>2

LEMMA ListingsStart == ListingInit => ListingInv
<1> SUFFICES ASSUME ListingInit PROVE ListingInv
  OBVIOUS
<1>1. table \in [Ids -> Row \cup {Absent}]
  BY DEF ListingInit
<1>2. /\ walk.pc = "idle" /\ walk.shown = <<>> /\ walk.settled = {} /\ walk.cursor = Start
  BY DEF ListingInit, NoWalk
<1>3. Start \in [scope : Orders, value : Nat, id : Nat]
  <2>1. Order("made", FALSE) \in Orders
    BY DEF Orders, Order, Columns
  <2> QED
    BY <2>1 DEF Start
<1>4. walk \in Walks
  <2>1. <<>> \in Seq(Ids) /\ {} \in SUBSET Ids
    OBVIOUS
  <2> QED
    BY <1>3, <2>1 DEF ListingInit, NoWalk, Walks
<1> QED
  BY <1>1, <1>2, <1>4 DEF ListingInv, WalkIsOpen

LEMMA ListingsStay == ListingInv /\ [ListingNext]_listingVars => ListingInv'
<1> SUFFICES ASSUME ListingInv, [ListingNext]_listingVars PROVE ListingInv'
  OBVIOUS
<1>1. ASSUME NEW i \in Ids, InsertRow(i) \/ MoveRow(i) \/ DeleteRow(i) PROVE ListingInv'
  BY <1>1, InsertStep, MoveStep, DeleteStep
<1>2. ASSUME NEW order \in Orders, ReadPage(order) PROVE ListingInv'
  BY <1>2, ReadStep
<1>3. CASE UNCHANGED listingVars
  BY <1>3 DEF listingVars, ListingInv, SettledIsShown, Past, Value, Present, WalkIsOpen
<1> QED
  BY <1>1, <1>2, <1>3 DEF ListingNext, Orders

LEMMA SettledAreComplete == ListingInv => ListingsAreComplete
<1> SUFFICES ASSUME ListingInv PROVE ListingsAreComplete
  OBVIOUS
<1> DEFINE At(i) == {n \in DOMAIN walk.shown : walk.shown[n] = i}
<1>1. ListingTypeOK
  BY DEF ListingInv, ListingTypeOK, Walks
<1>2. ASSUME NEW i \in walk.settled
      PROVE  /\ Cardinality(At(i)) <= IF table[i].org THEN 1 ELSE 0
             /\ walk.pc = "done" /\ table[i].org => Cardinality(At(i)) = 1
  <2>1. SettledIsShown(i, walk)
    BY <1>2 DEF ListingInv
  <2>2. CASE Holds(walk.shown, i)
    <3>1. PICK n \in DOMAIN walk.shown : walk.shown[n] = i
      BY <2>2 DEF Holds
    <3>2. At(i) = {n}
      BY <2>1, <3>1 DEF SettledIsShown, HoldsOnce
    <3>3. Cardinality(At(i)) = 1
      BY <3>2, FS_Singleton
    <3>4. table[i].org
      BY <2>1, <2>2 DEF SettledIsShown
    <3> QED
      BY <3>3, <3>4
  <2>3. CASE ~Holds(walk.shown, i)
    <3>1. At(i) = {}
      BY <2>3 DEF Holds
    <3>2. Cardinality(At(i)) = 0
      BY <3>1, FS_EmptySet
    <3>3. ~(walk.pc = "done" /\ table[i].org)
      BY <2>1, <2>3 DEF SettledIsShown
    <3> HIDE DEF At
    <3> QED
      BY <3>2, <3>3
  <2> QED
    BY <2>2, <2>3
<1> QED
  BY <1>1, <1>2 DEF ListingsAreComplete

\* Whatever rows, values and sizes of a page there are, and whatever is added,
\* moved and removed between pages: a reader who follows the cursor sees every
\* settled row of the Organization once, and none of another's (AuditEvents,
\* ListRelays and the other listings, decodeCursor, decodeSortCursor).
THEOREM ListingsAreAlwaysComplete == ListingSpec => []ListingsAreComplete
<1> QED
  BY ListingsStart, ListingsStay, SettledAreComplete, PTL DEF ListingSpec

=============================================================================
