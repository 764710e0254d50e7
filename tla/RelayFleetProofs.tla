-------------------------- MODULE RelayFleetProofs --------------------------
(***************************************************************************)
(* Proofs about the Relays of a fleet for every value of the constants: the *)
(* presence of sessions in one process (RelayPresence), enrolment with a    *)
(* bootstrap token (RelayEnrolment), the inventory Relays report            *)
(* (Inventory) and the watch on contested identities (RelayChurn).          *)
(***************************************************************************)
EXTENDS RelayPresence, RelayEnrolment, RelayChurn, Inventory,
        FiniteSetTheorems, SequenceTheorems, WellFoundedInduction, TLAPS

-----------------------------------------------------------------------------
(* Presence. *)

\* What a session remembers of the one it displaced fits the step it is at, and
\* one that is being taken out of the table has ended.
StepsAreOrdered ==
    /\ \A s \in Connects : at[s] = "unused" => replaced[s] = Nobody
    /\ \A s \in Connects : at[s] = "supersede" => replaced[s] # Nobody
    /\ \A s \in Connects : at[s] \in {"remove", "release"} => s \in ended

\* Every session that goes on is in the table or about to be ended.
GoesOnOnce ==
    \A t \in Connects : at[t] \notin Over /\ t \notin ended =>
        installed = t \/ \E s \in Connects : replaced[s] = t

\* An opening in doubt is of a session that tried to record itself, and whose release
\* does not end it for good.
DoubtIsKept ==
    \A s \in Connects : <<s, "opening">> \in doubtful => at[s] \in {"run", "remove", "release", "lost"}

\* The row names a session that has recorded itself, and says so if it was closed.
RowFollows ==
    /\ presence.seen # "never" => presence.session \in Connects
    /\ presence.session \in Connects /\ ~presence.ended =>
            at[presence.session] \in {"run", "remove", "release", "lost"}
    /\ presence.session \in Connects =>
            at[presence.session] \in {"run", "remove", "release", "lost", "closed"}

PresenceInv == PresenceTypeOK /\ StepsAreOrdered /\ GoesOnOnce /\ DoubtIsKept /\ RowFollows

LEMMA PresenceInvInit == PresenceInit => PresenceInv
BY PresenceAssumption
   DEF PresenceInit, PresenceInv, PresenceTypeOK, StepsAreOrdered, GoesOnOnce, DoubtIsKept,
       RowFollows,
       Connects, Steps, Over, NeverSeen

\* Every step of a session, of the clock and of the process keeps the invariant.
LEMMA PresenceInvNext == PresenceInv /\ [PresenceNext]_presenceVars => PresenceInv'
<1> SUFFICES ASSUME PresenceInv, [PresenceNext]_presenceVars PROVE PresenceInv'
  OBVIOUS
<1> USE PresenceAssumption DEF Connects
<1>0. /\ at \in [Connects -> Steps] /\ ended \subseteq Connects
      /\ replaced \in [Connects -> Connects \cup {Nobody}]
      /\ installed \in Connects \cup {Nobody}
      /\ presence \in [session : Connects \cup {Nobody}, ended : BOOLEAN,
                       seen : {"never", "fresh", "stale"}]
      /\ doubtful \subseteq Writes
      /\ Nobody \notin Connects
  BY DEF PresenceInv, PresenceTypeOK
<1>1. ASSUME NEW s \in Connects, Install(s) PROVE PresenceInv'
  <2>1. /\ at[s] = "unused" /\ replaced[s] = Nobody /\ installed' = s
        /\ replaced' = [replaced EXCEPT ![s] = installed]
        /\ at' = [at EXCEPT ![s] = IF installed = Nobody THEN "accept" ELSE "supersede"]
        /\ UNCHANGED <<ended, presence, doubtful, restarts>>
    BY <1>1 DEF Install, Goes, PresenceInv, StepsAreOrdered
  <2>2. PresenceTypeOK'
    BY <1>0, <2>1 DEF PresenceTypeOK, Steps
  <2>3. StepsAreOrdered'
    BY <1>0, <2>1 DEF PresenceInv, StepsAreOrdered
  <2>4. GoesOnOnce'
    BY <1>0, <2>1 DEF PresenceInv, GoesOnOnce, Over
  <2>5. DoubtIsKept' /\ RowFollows'
    BY <1>0, <2>1 DEF PresenceInv, DoubtIsKept, RowFollows
  <2> QED
    BY <2>2, <2>3, <2>4, <2>5 DEF PresenceInv
<1>2. ASSUME NEW s \in Connects, Supersede(s) PROVE PresenceInv'
  <2>1. /\ at[s] = "supersede" /\ replaced[s] \in Connects
        /\ ended' = ended \cup {replaced[s]}
        /\ replaced' = [replaced EXCEPT ![s] = Nobody]
        /\ at' = [at EXCEPT ![s] = "accept"]
        /\ UNCHANGED <<installed, presence, doubtful, restarts>>
    BY <1>0, <1>2 DEF Supersede, Goes, PresenceInv, StepsAreOrdered
  <2>2. PresenceTypeOK'
    BY <1>0, <2>1 DEF PresenceTypeOK, Steps
  <2>3. StepsAreOrdered'
    BY <1>0, <2>1 DEF PresenceInv, StepsAreOrdered
  <2>4. GoesOnOnce'
    BY <1>0, <2>1 DEF PresenceInv, GoesOnOnce, Over
  <2>5. DoubtIsKept' /\ RowFollows'
    BY <1>0, <2>1 DEF PresenceInv, DoubtIsKept, RowFollows
  <2> QED
    BY <2>2, <2>3, <2>4, <2>5 DEF PresenceInv
<1>3. ASSUME NEW s \in Connects,
             Accept(s) \/ EndRun(s) \/ Remove(s) \/ EndIdle(s)
      PROVE  PresenceInv'
  <2>1. PresenceTypeOK'
    BY <1>0, <1>3 DEF Accept, EndRun, Remove, EndIdle, Goes, PresenceTypeOK, Steps
  <2>2. StepsAreOrdered'
    BY <1>0, <1>3 DEF Accept, EndRun, Remove, EndIdle, Goes, PresenceInv, StepsAreOrdered
  <2>3. GoesOnOnce'
    BY <1>0, <1>3 DEF Accept, EndRun, Remove, EndIdle, Goes, PresenceInv, StepsAreOrdered,
                      GoesOnOnce, Over
  <2>4. DoubtIsKept' /\ RowFollows'
    BY <1>0, <1>3 DEF Accept, EndRun, Remove, EndIdle, Goes, PresenceInv, DoubtIsKept, RowFollows
  <2> QED
    BY <2>1, <2>2, <2>3, <2>4 DEF PresenceInv
<1>4. ASSUME NEW s \in Connects,
             \/ RecordPresence(s) \/ WatchPresence(s) \/ ReleasePresence(s)
             \/ \E write \in {"opening", "closing"} : CommitLate(s, write)
      PROVE  PresenceInv'
  <2>0. \/ /\ at[s] = "record" /\ at' = [at EXCEPT ![s] = "run"]
           /\ presence' = RelaySessionOpened(s) /\ UNCHANGED doubtful
        \/ /\ at[s] = "record" /\ at' = [at EXCEPT ![s] = "run"] /\ UNCHANGED presence
           /\ doubtful' \in {doubtful, doubtful \cup {<<s, "opening">>}}
        \/ /\ at[s] = "run" /\ UNCHANGED at
           /\ presence' = RelaySessionHeard(s) /\ UNCHANGED doubtful
        \/ /\ at[s] = "release" /\ at' = [at EXCEPT ![s] = "lost"]
           /\ presence' = RelaySessionClosed(s) /\ UNCHANGED doubtful
        \/ /\ at[s] = "release" /\ at' = [at EXCEPT ![s] = "closed"]
           /\ <<s, "opening">> \notin doubtful
           /\ presence' = RelaySessionClosed(s) /\ UNCHANGED doubtful
        \/ /\ at[s] = "release" /\ at' = [at EXCEPT ![s] = "lost"] /\ UNCHANGED presence
           /\ doubtful' \in {doubtful, doubtful \cup {<<s, "closing">>}}
        \/ /\ <<s, "opening">> \in doubtful /\ doubtful' = doubtful \ {<<s, "opening">>}
           /\ presence' = RelaySessionOpened(s) /\ UNCHANGED at
        \/ /\ doubtful' = doubtful \ {<<s, "closing">>}
           /\ presence' = RelaySessionClosed(s) /\ UNCHANGED at
    BY <1>4 DEF RecordPresence, WatchPresence, ReleasePresence, CommitLate, WriteFails, Goes
  <2>01. UNCHANGED <<ended, replaced, installed>>
    BY <1>4 DEF RecordPresence, WatchPresence, ReleasePresence, CommitLate
  <2> DEFINE Row == [session : Connects \cup {Nobody}, ended : BOOLEAN,
                     seen : {"never", "fresh", "stale"}]
  <2>1. /\ RelaySessionOpened(s) \in Row
        /\ RelaySessionOpened(s).session = s
    BY <1>0 DEF RelaySessionOpened
  <2>11. /\ RelaySessionHeard(s) \in Row
         /\ RelaySessionHeard(s).session = presence.session
         /\ RelaySessionHeard(s).ended = presence.ended
         /\ RelaySessionHeard(s).seen = IF presence.session = s THEN "fresh" ELSE presence.seen
    BY <1>0 DEF RelaySessionHeard
  <2>12. /\ RelaySessionClosed(s) \in Row
         /\ RelaySessionClosed(s).session = presence.session
         /\ RelaySessionClosed(s).seen = presence.seen
         /\ presence.session = s => RelaySessionClosed(s).ended = TRUE
         /\ presence.session # s => RelaySessionClosed(s) = presence
    BY <1>0 DEF RelaySessionClosed
  <2>2. at' \in [Connects -> Steps] /\ presence' \in Row
    BY <1>0, <2>0, <2>1, <2>11, <2>12 DEF Steps
  <2>21. doubtful' \subseteq Writes
    BY <1>0, <2>0 DEF Writes
  <2>3. PresenceTypeOK'
    BY <1>0, <2>01, <2>2, <2>21 DEF PresenceTypeOK
  <2>31. StepsAreOrdered'
    BY <1>0, <2>0, <2>01 DEF PresenceInv, StepsAreOrdered
  <2>4. GoesOnOnce'
    BY <1>0, <2>0, <2>01 DEF PresenceInv, GoesOnOnce, Over
  <2>41. DoubtIsKept'
    BY <1>0, <2>0 DEF PresenceInv, DoubtIsKept
  <2>5. RowFollows'
    <3>1. CASE presence' = RelaySessionOpened(s) /\ at' = [at EXCEPT ![s] = "run"]
      BY <1>0, <2>1, <3>1 DEF RowFollows
    <3>2. CASE UNCHANGED at /\ presence' = RelaySessionHeard(s)
      BY <1>0, <2>11, <3>2 DEF PresenceInv, RowFollows
    <3>3. CASE /\ presence' = RelaySessionClosed(s)
               /\ \/ UNCHANGED at
                  \/ at[s] = "release" /\ \E step \in {"closed", "lost"} : at' = [at EXCEPT ![s] = step]
      BY <1>0, <2>12, <3>3 DEF PresenceInv, RowFollows
    <3>4. CASE /\ UNCHANGED presence
               /\ \/ at[s] = "record" /\ at' = [at EXCEPT ![s] = "run"]
                  \/ at[s] = "release" /\ at' = [at EXCEPT ![s] = "lost"]
      BY <1>0, <3>4 DEF PresenceInv, RowFollows
    <3>5. CASE /\ presence' = RelaySessionOpened(s) /\ UNCHANGED at
               /\ <<s, "opening">> \in doubtful
      BY <1>0, <2>1, <3>5 DEF PresenceInv, DoubtIsKept, RowFollows
    <3> QED
      BY <2>0, <3>1, <3>2, <3>3, <3>4, <3>5
  <2> QED
    BY <2>3, <2>31, <2>4, <2>41, <2>5 DEF PresenceInv
<1>5. CASE LastSeenLapses
  BY <1>0, <1>5 DEF LastSeenLapses, PresenceInv, PresenceTypeOK, StepsAreOrdered, GoesOnOnce,
                    DoubtIsKept, RowFollows
<1>6. CASE Restart
  <2>1. /\ at' = [s \in Connects |-> IF at[s] \notin Over THEN "lost" ELSE at[s]]
        /\ ended \subseteq ended' /\ ended' \subseteq Connects
        /\ \A s \in Connects : at[s] \notin Over => s \in ended'
        /\ replaced' = [s \in Connects |-> Nobody]
        /\ installed' = Nobody /\ UNCHANGED <<presence, doubtful>>
    BY <1>0, <1>6 DEF Restart
  <2> QED
    BY <1>0, <2>1 DEF PresenceInv, PresenceTypeOK, StepsAreOrdered, GoesOnOnce, DoubtIsKept,
                      RowFollows, Steps, Over
<1>7. CASE UNCHANGED presenceVars
  BY <1>7 DEF presenceVars, PresenceInv, PresenceTypeOK, StepsAreOrdered, GoesOnOnce, DoubtIsKept,
              RowFollows
<1> QED
  BY <1>1, <1>2, <1>3, <1>4, <1>5, <1>6, <1>7 DEF PresenceNext

\* However sessions of one identity displace each other, end and are lost with the
\* process, at most one goes on that nobody is about to end, and a row that shows
\* the Relay connected names a session that recorded itself and was not closed
\* (install, supersede, remove, recordPresence, releasePresence).
THEOREM OneSession == PresenceSpec => []OneSessionGoesOn
<1>1. PresenceInv => OneSessionGoesOn
  BY DEF PresenceInv, PresenceTypeOK, GoesOnOnce, RowFollows, OneSessionGoesOn, ShownConnected
<1> QED
  BY PresenceInvInit, PresenceInvNext, <1>1, PTL DEF PresenceSpec

-----------------------------------------------------------------------------
(* Enrolment. *)

CallsTypeOK ==
    calls \in [Calls -> [pc : {"unused", "refused", "shed", "spend", "explain", "insert",
                              "enrolled", "unanswered", "unavailable"},
                         org : Organizations \cup {NoOrganization},
                         token : Tokens \cup {NoToken}]]

\* A call that has spent a token and not yet committed holds its row, the row is
\* still unspent, and nobody else holds a row.
SpendersHoldTheRow ==
    /\ \A c \in Calls : calls[c].pc \in {"spend", "insert", "explain"} =>
            calls[c].token \in Tokens /\ calls[c].org \in Organizations
    /\ \A c \in Calls : calls[c].pc = "insert" =>
            /\ tokenLock[calls[c].token] = c
            /\ tokens[calls[c].token].org = calls[c].org
            /\ ~tokens[calls[c].token].consumed
    /\ \A t \in Tokens : tokenLock[t] # 0 =>
            calls[tokenLock[t]].pc = "insert" /\ calls[tokenLock[t]].token = t

\* A spent token has the one registration it bought, an unspent one has none.
SpentOnce ==
    /\ \A r \in registrations : tokens[r.token].consumed /\ r.org = tokens[r.token].org
    /\ \A q, r \in registrations : q.token = r.token => q = r
    /\ \A t \in Tokens : tokens[t].consumed => \E r \in registrations : r.token = t

\* A session was let in as a registration of its Organization, on its credential.
LetInByRegistration ==
    \A s \in letIn : \E r \in registrations : <<r.id, r.org, r.credential>> = s

EnrolmentInv ==
    EnrolmentTypeOK /\ CallsTypeOK /\ SpendersHoldTheRow /\ SpentOnce /\ LetInByRegistration

LEMMA EnrolmentInvInit == EnrolmentInit => EnrolmentInv
BY EnrolmentAssumption
   DEF EnrolmentInit, EnrolmentInv, EnrolmentTypeOK, CallsTypeOK, SpendersHoldTheRow, SpentOnce,
       LetInByRegistration, Calls, Token, Registration, NoCall

\* Every step of an operator, of a Register call and of the clock keeps the
\* invariant.
LEMMA EnrolmentInvNext == EnrolmentInv /\ [EnrolmentNext]_enrolmentVars => EnrolmentInv'
<1> SUFFICES ASSUME EnrolmentInv, [EnrolmentNext]_enrolmentVars PROVE EnrolmentInv'
  OBVIOUS
<1> USE EnrolmentAssumption
<1>0. /\ tokens \in [Tokens -> Token]
      /\ tokenLock \in [Tokens -> Calls \cup {0}]
      /\ registrations \subseteq Registration
      /\ letIn \subseteq Calls \X Organizations \X Calls
      /\ 0 \notin Calls
      /\ CallsTypeOK /\ SpendersHoldTheRow /\ SpentOnce /\ LetInByRegistration
  BY DEF EnrolmentInv, EnrolmentTypeOK, Calls
\* What disturbs neither tokens nor registrations.
<1>1. ASSUME UNCHANGED <<tokens, tokenLock, registrations>>, CallsTypeOK',
             letIn' \subseteq Calls \X Organizations \X Calls, LetInByRegistration',
             NEW c \in Calls, \A d \in Calls \ {c} : calls'[d] = calls[d],
             calls[c].pc # "insert", calls'[c].pc # "insert",
             calls'[c].pc \in {"spend", "explain"} =>
                calls'[c].token \in Tokens /\ calls'[c].org \in Organizations
      PROVE  EnrolmentInv'
  <2>1. SpendersHoldTheRow'
    BY <1>0, <1>1 DEF SpendersHoldTheRow
  <2>2. SpentOnce'
    BY <1>0, <1>1 DEF SpentOnce
  <2> QED
    BY <1>0, <1>1, <2>1, <2>2 DEF EnrolmentInv, EnrolmentTypeOK
\* What changes no row but a token's, and of that neither Organization nor use.
<1>2. ASSUME NEW t \in Tokens, UNCHANGED <<tokenLock, calls, registrations, letIn>>,
             tokens' \in [Tokens -> Token], tokens'[t].consumed = tokens[t].consumed,
             \/ tokens'[t].org = tokens[t].org
             \/ tokens[t].org \notin Organizations,
             \A u \in Tokens \ {t} : tokens'[u] = tokens[u]
      PROVE  EnrolmentInv'
  <2>1. ASSUME NEW u \in Tokens
        PROVE  tokens'[u].consumed = tokens[u].consumed
    BY <1>2
  <2>2. ASSUME NEW u \in Tokens, tokens[u].org \in Organizations
        PROVE  tokens'[u].org = tokens[u].org
    BY <1>2, <2>2
  <2>3. SpendersHoldTheRow'
    BY <1>0, <1>2, <2>1, <2>2 DEF SpendersHoldTheRow
  <2>4. SpentOnce'
    BY <1>0, <1>2, <2>1, <2>2 DEF SpentOnce, Registration
  <2> QED
    BY <1>0, <1>2, <2>3, <2>4 DEF EnrolmentInv, EnrolmentTypeOK, CallsTypeOK, LetInByRegistration
<1>3. ASSUME NEW t \in Tokens, NEW o \in Organizations, IssueBootstrapToken(t, o)
      PROVE  EnrolmentInv'
  BY <1>0, <1>2, <1>3 DEF IssueBootstrapToken, Token
<1>4. ASSUME NEW t \in Tokens, Expire(t) \/ RevokeToken(t) PROVE EnrolmentInv'
  <2>1. UNCHANGED <<tokenLock, calls, registrations, letIn>>
    BY <1>4 DEF Expire, RevokeToken
  <2>2. PICK field \in {"expired", "revoked"} :
            tokens' = [u \in Tokens |-> IF u = t THEN [tokens[t] EXCEPT ![field] = TRUE]
                                                ELSE tokens[u]]
    BY <1>0, <1>4 DEF Expire, RevokeToken
  <2>3. /\ tokens' \in [Tokens -> Token]
        /\ tokens'[t].consumed = tokens[t].consumed /\ tokens'[t].org = tokens[t].org
        /\ \A u \in Tokens \ {t} : tokens'[u] = tokens[u]
    BY <1>0, <2>2 DEF Token
  <2> QED
    BY <1>2, <2>1, <2>3
<1>5. ASSUME NEW r \in registrations, RevokeRegistration(r) PROVE EnrolmentInv'
  <2> DEFINE revoked == [r EXCEPT !.revoked = TRUE]
  <2>1. /\ registrations' = (registrations \ {r}) \cup {revoked}
        /\ UNCHANGED <<tokens, tokenLock, calls, letIn>>
    BY <1>5 DEF RevokeRegistration
  <2>2. /\ revoked \in Registration /\ revoked.id = r.id /\ revoked.org = r.org
        /\ revoked.token = r.token /\ revoked.credential = r.credential
    BY <1>0 DEF Registration
  <2> HIDE DEF revoked
  <2>3. EnrolmentTypeOK' /\ CallsTypeOK' /\ SpendersHoldTheRow'
    BY <1>0, <2>1, <2>2 DEF EnrolmentTypeOK, CallsTypeOK, SpendersHoldTheRow
  <2>4. SpentOnce'
    BY <1>0, <2>1, <2>2 DEF SpentOnce
  <2>5. LetInByRegistration'
    BY <1>0, <2>1, <2>2 DEF LetInByRegistration
  <2> QED
    BY <2>3, <2>4, <2>5 DEF EnrolmentInv
<1>6. ASSUME NEW c \in Calls, NEW o \in Organizations, NEW t \in Tokens, Register(c, o, t)
      PROVE  EnrolmentInv'
  <2>1. /\ calls[c].pc = "unused"
        /\ \/ \E pc \in {"refused", "spend"} :
                calls' = [calls EXCEPT ![c] = [pc |-> pc, org |-> o, token |-> t]]
           \/ calls' = [calls EXCEPT ![c].pc = "shed"]
        /\ UNCHANGED <<tokens, tokenLock, registrations, letIn>>
    BY <1>6 DEF Register
  <2>2. CallsTypeOK' /\ LetInByRegistration'
    BY <1>0, <2>1 DEF CallsTypeOK, LetInByRegistration
  <2> QED
    BY <1>0, <1>1, <2>1, <2>2 DEF CallsTypeOK
<1>7. ASSUME NEW c \in Calls, NEW id \in Calls, NEW o \in Organizations, Authenticate(c, id, o)
      PROVE  EnrolmentInv'
  <2>1. PICK r \in registrations : r.id = id /\ r.org = o /\ r.credential = c
    BY <1>7 DEF Authenticate, VerifyRelayCredential
  <2>2. /\ letIn' = letIn \cup {<<id, o, c>>} /\ calls[c].pc = "enrolled"
        /\ UNCHANGED <<tokens, tokenLock, calls, registrations>>
    BY <1>7 DEF Authenticate
  <2>3. LetInByRegistration'
    BY <1>0, <2>1, <2>2 DEF LetInByRegistration
  <2> QED
    BY <1>0, <1>1, <2>2, <2>3 DEF CallsTypeOK
<1>8. ASSUME NEW c \in Calls, ExplainUnspendableToken(c) PROVE EnrolmentInv'
  <2>1. CallsTypeOK' /\ LetInByRegistration'
    BY <1>0, <1>8 DEF ExplainUnspendableToken, Becomes, CallsTypeOK, LetInByRegistration
  <2> QED
    BY <1>0, <1>1, <1>8, <2>1 DEF ExplainUnspendableToken, Becomes, CallsTypeOK
<1>9. ASSUME NEW c \in Calls, SpendBootstrapToken(c) PROVE EnrolmentInv'
  <2> DEFINE t == calls[c].token
  <2>1. t \in Tokens /\ calls[c].org \in Organizations /\ calls[c].pc = "spend"
    BY <1>0, <1>9 DEF SpendBootstrapToken, SpendersHoldTheRow
  <2>2. CASE ~Spendable(t, calls[c].org)
    <3>1. calls' = [calls EXCEPT ![c].pc = "explain"]
          /\ UNCHANGED <<tokens, tokenLock, registrations, letIn>>
      BY <1>9, <2>2 DEF SpendBootstrapToken, Becomes
    <3>2. CallsTypeOK' /\ LetInByRegistration'
      BY <1>0, <3>1 DEF CallsTypeOK, LetInByRegistration
    <3> QED
      BY <1>0, <1>1, <2>1, <3>1, <3>2 DEF CallsTypeOK
  <2>3. CASE Spendable(t, calls[c].org)
    <3>1. /\ calls' = [calls EXCEPT ![c].pc = "insert"]
          /\ tokenLock[t] = 0 /\ tokenLock' = [tokenLock EXCEPT ![t] = c]
          /\ tokens[t].org = calls[c].org /\ ~tokens[t].consumed
          /\ UNCHANGED <<tokens, registrations, letIn>>
      BY <1>9, <2>3 DEF SpendBootstrapToken, Becomes, Spendable
    <3>2. CallsTypeOK' /\ LetInByRegistration' /\ SpentOnce'
      BY <1>0, <3>1 DEF CallsTypeOK, LetInByRegistration, SpentOnce
    <3>3. SpendersHoldTheRow'
      BY <1>0, <2>1, <3>1 DEF CallsTypeOK, SpendersHoldTheRow
    <3> QED
      BY <1>0, <3>1, <3>2, <3>3 DEF EnrolmentInv, EnrolmentTypeOK
  <2> QED
    BY <2>2, <2>3
<1>10. ASSUME NEW c \in Calls, InsertRegistration(c) PROVE EnrolmentInv'
  <2> DEFINE t == calls[c].token
             new == [id |-> c, credential |-> c, org |-> calls[c].org, token |-> t, revoked |-> FALSE]
  <2>1. /\ t \in Tokens /\ calls[c].org \in Organizations /\ calls[c].pc = "insert"
        /\ tokenLock[t] = c /\ tokens[t].org = calls[c].org /\ ~tokens[t].consumed
    BY <1>0, <1>10 DEF InsertRegistration, SpendersHoldTheRow
  <2>2. /\ tokens' = [tokens EXCEPT ![t].consumed = TRUE]
        /\ tokenLock' = [tokenLock EXCEPT ![t] = 0]
        /\ registrations' = registrations \cup {new}
        /\ UNCHANGED letIn
    BY <1>10 DEF InsertRegistration
  <2>3. PICK pc \in {"enrolled", "unanswered"} : calls' = [calls EXCEPT ![c].pc = pc]
    BY <1>10 DEF InsertRegistration, Becomes
  <2>4. new \in Registration /\ new.token = t /\ new.org = calls[c].org
    BY <2>1 DEF Registration
  <2> HIDE DEF new
  <2>5. EnrolmentTypeOK'
    BY <1>0, <2>2, <2>4 DEF EnrolmentTypeOK, Token
  <2>6. CallsTypeOK' /\ LetInByRegistration'
    BY <1>0, <2>2, <2>3 DEF CallsTypeOK, LetInByRegistration
  <2>7. SpendersHoldTheRow'
    BY <1>0, <2>1, <2>2, <2>3 DEF CallsTypeOK, SpendersHoldTheRow, Token
  <2>8. SpentOnce'
    BY <1>0, <2>1, <2>2, <2>4 DEF SpentOnce, Token, Registration
  <2> QED
    BY <2>5, <2>6, <2>7, <2>8 DEF EnrolmentInv
<1>11. ASSUME NEW c \in Calls, RollBackEnrolment(c) PROVE EnrolmentInv'
  <2>1. /\ calls[c].pc \in {"spend", "insert", "explain"}
        /\ calls' = [calls EXCEPT ![c].pc = "unavailable"]
        /\ tokenLock' = [t \in Tokens |-> IF tokenLock[t] = c THEN 0 ELSE tokenLock[t]]
        /\ UNCHANGED <<tokens, registrations, letIn>>
    BY <1>11 DEF RollBackEnrolment, Becomes
  <2>2. EnrolmentTypeOK'
    BY <1>0, <2>1 DEF EnrolmentTypeOK
  <2>3. CallsTypeOK' /\ LetInByRegistration' /\ SpentOnce'
    BY <1>0, <2>1 DEF CallsTypeOK, LetInByRegistration, SpentOnce
  <2>4. SpendersHoldTheRow'
    BY <1>0, <2>1 DEF CallsTypeOK, SpendersHoldTheRow
  <2> QED
    BY <2>2, <2>3, <2>4 DEF EnrolmentInv
<1>12. CASE FloodWindowPasses \/ UNCHANGED enrolmentVars
  BY <1>0, <1>12 DEF FloodWindowPasses, enrolmentVars, EnrolmentInv, EnrolmentTypeOK, CallsTypeOK,
                     SpendersHoldTheRow, SpentOnce, LetInByRegistration
<1> QED
  BY <1>3, <1>4, <1>5, <1>6, <1>7, <1>8, <1>9, <1>10, <1>11, <1>12 DEF EnrolmentNext

\* However many calls present a token at once, fail half-way or are never answered,
\* it has exactly one registration once it is spent and none before, in the
\* Organization it was issued for, and a session is let in only as the registration
\* its credential was made for, under that Organization (EnrolRelay, spendBootstrapToken, VerifyRelayCredential).
THEOREM TokensAreSpentOnce == EnrolmentSpec => []TokensEnrolOnce
<1>1. EnrolmentInv => TokensEnrolOnce
  <2> SUFFICES ASSUME EnrolmentInv PROVE TokensEnrolOnce
    OBVIOUS
  <2>1. SpentOnce
    BY DEF EnrolmentInv
  <2>2. ASSUME NEW t \in Tokens
        PROVE  LET enrolled == {r \in registrations : r.token = t}
               IN  /\ Cardinality(enrolled) = IF tokens[t].consumed THEN 1 ELSE 0
                   /\ \A r \in enrolled : r.org = tokens[t].org
    <3> DEFINE enrolled == {r \in registrations : r.token = t}
    <3>1. \A r \in enrolled : r.org = tokens[t].org
      BY <2>1 DEF SpentOnce
    <3>2. CASE tokens[t].consumed
      <4>1. PICK r \in registrations : r.token = t
        BY <2>1, <3>2 DEF SpentOnce
      <4>2. enrolled = {r}
        BY <2>1, <4>1 DEF SpentOnce
      <4> QED
        BY <3>1, <3>2, <4>2, FS_Singleton, Zenon
    <3>3. CASE ~tokens[t].consumed
      <4>1. enrolled = {}
        BY <2>1, <3>3 DEF SpentOnce
      <4> QED
        BY <3>1, <3>3, <4>1, FS_EmptySet, Zenon
    <3> QED
      BY <3>2, <3>3
  <2> QED
    BY <2>2 DEF EnrolmentInv, LetInByRegistration, TokensEnrolOnce
<1> QED
  BY EnrolmentInvInit, EnrolmentInvNext, <1>1, PTL DEF EnrolmentSpec

-----------------------------------------------------------------------------
(* The inventory. *)

\* An observation is of the cluster as it is: one change of an object, one object of a
\* name, and a first observation reports no deletion.
DeltaIsSound(d) ==
    /\ d \in Delta
    /\ \A b, c \in d.changes : b.uid = c.uid => b = c
    /\ \A b, c \in d.changes :
          b.name = c.name /\ b.kind # "deleted" /\ c.kind # "deleted" => b = c
    /\ \A c \in d.changes : (c.kind = "deleted") <=> (c.revision = 0)
    /\ \A c \in d.changes : d.baseline => c.kind # "deleted"

\* What deltas say of the objects: each has one name and is deleted at most once, and
\* an object that was there before another of its name was deleted does not come back.
HistoryIsSound(S, objects, known) ==
    /\ \A d, e \in S : d.at = e.at => d = e
    /\ \A d \in S : \A c \in d.changes :
          /\ c.uid \in known
          /\ objects[c.uid] # Gone => c.kind # "deleted" /\ objects[c.uid].name = c.name
    /\ \A d, e \in S : \A b \in d.changes, c \in e.changes : b.uid = c.uid =>
          /\ b.name = c.name
          /\ b.kind = "deleted" /\ c.kind = "deleted" => d = e
    /\ \A d, e \in S : \A b \in d.changes, c \in e.changes :
          b.kind # "deleted" /\ c.kind = "deleted" /\ b.name = c.name /\ d.at < e.at =>
             /\ objects[b.uid] = Gone
             /\ \A f \in S : \A a \in f.changes :
                   a.uid = b.uid /\ a.kind # "deleted" => f.at < e.at

ClusterIsSound ==
    /\ cluster \in [Uids -> Object \cup {Gone}]
    /\ \A u, v \in Uids : u # v /\ cluster[u] # Gone => cluster[u].name # cluster[v].name
    /\ \A u \in Uids : cluster[u] # Gone => u \in seen
    /\ observations \in Moments /\ policy \in {Unset} \cup (0 .. MaxPolicies)
    /\ watching \in BOOLEAN

Scope == [open : BOOLEAN, interval : Nat, policy : 0 .. MaxPolicies, covered : Moments \cup {Unset},
          baseline : Moments \cup {Unset}, confirmed : Moments \cup {Unset}]

ScopeIsSound == scope \in Scope /\ scope.covered <= scope.confirmed

\* An event is of a delta that was committed ...
Of(event, d, c) ==
    /\ event.name = c.name /\ event.uid = c.uid /\ event.revision = c.revision
    /\ event.at = d.at /\ event.kind \in Kinds
    /\ (event.kind = "deleted") <=> (c.kind = "deleted")

EventRow == [name : Names, uid : Uids, revision : 0 .. MaxRevision, kind : Kinds, at : 1 .. MaxObservations]

\* ... and every change of one has its event until retention removes it.
EventsAreSound ==
    /\ events \in Seq(EventRow)
    /\ \A k \in DOMAIN events : \E d \in applied : \E c \in d.changes : Of(events[k], d, c)
    /\ \A d \in applied : \A c \in d.changes : c.name \notin pruned =>
          \E k \in DOMAIN events : events[k].uid = c.uid /\ events[k].revision = c.revision

InventoryInv ==
    /\ ClusterIsSound /\ ScopeIsSound /\ EventsAreSound
    /\ \A d \in outbox \cup applied : DeltaIsSound(d) /\ d.at <= observations
    /\ HistoryIsSound(outbox \cup applied, cluster, seen)
\* Fewer deltas say less.
LEMMA FewerDeltas ==
    ASSUME NEW S, NEW T, T \subseteq S, NEW objects, NEW known, HistoryIsSound(S, objects, known)
    PROVE  HistoryIsSound(T, objects, known)
BY DEF HistoryIsSound

LEMMA InventoryInvInit == InventoryInit => InventoryInv
<1> SUFFICES ASSUME InventoryInit PROVE InventoryInv
  OBVIOUS
<1> USE InventoryAssumption
<1>1. ClusterIsSound
  <2>1. MaxObservations \in Nat
    BY Zenon
  <2>2. cluster = [u \in Uids |-> Gone] /\ observations = 0 /\ policy = Unset /\ watching = FALSE
    BY DEF InventoryInit
  <2>3. 0 \in Moments
    BY <2>1 DEF Moments
  <2> QED
    BY <2>2, <2>3 DEF ClusterIsSound
<1>2. ScopeIsSound
  BY DEF InventoryInit, ScopeIsSound, Scope, NoScope, Unset
<1>3. EventsAreSound
  BY DEF InventoryInit, EventsAreSound
<1> QED
  BY <1>1, <1>2, <1>3 DEF InventoryInit, InventoryInv, HistoryIsSound

-----------------------------------------------------------------------------
(* An observation. *)

\* What an observation reports of an object.
LEMMA DifferencesFacts ==
    ASSUME ClusterIsSound, NEW next \in [Uids -> Object \cup {Gone}], NEW c \in Differences(next)
    PROVE  /\ c \in Change
           /\ c.revision = next[c.uid].revision
           /\ next[c.uid] = Gone =>
                 c.kind = "deleted" /\ watching /\ cluster[c.uid] # Gone /\ c.name = cluster[c.uid].name
           /\ next[c.uid] # Gone => c.kind # "deleted" /\ c.name = next[c.uid].name
           /\ \A b \in Differences(next) : b.uid = c.uid => b = c
<1> USE InventoryAssumption
<1> DEFINE before == IF watching THEN cluster ELSE [u \in Uids |-> Gone]
           Named(u) == IF next[u] = Gone THEN before[u].name ELSE next[u].name
           Kind(u) == CASE next[u] = Gone -> "deleted" [] before[u] = Gone -> "created" [] OTHER -> "modified"
           Made(u) == [name |-> Named(u), uid |-> u, revision |-> next[u].revision, kind |-> Kind(u)]
<1>1. Differences(next) = {Made(u) : u \in {v \in Uids : next[v] # before[v]}}
  BY DEF Differences
<1>2. PICK u \in Uids : next[u] # before[u] /\ c = Made(u)
  BY <1>1
<1>3. /\ Made(u).name = Named(u) /\ Made(u).uid = u /\ Made(u).revision = next[u].revision
      /\ Made(u).kind = Kind(u)
  OBVIOUS
<1>4. \A b \in Differences(next) : b.uid = c.uid => b = c
  BY <1>1, <1>2
<1>5. next[u] \in Object \cup {Gone} /\ before[u] \in Object \cup {Gone}
  BY DEF ClusterIsSound
<1>6. next[u] = Gone => watching /\ before[u] # Gone /\ before[u] = cluster[u] /\ Kind(u) = "deleted"
                        /\ Named(u) = cluster[u].name
  BY <1>2, <1>5
<1>7. next[u] # Gone => Kind(u) \in {"created", "modified"} /\ Named(u) = next[u].name
  OBVIOUS
<1>8. Gone.revision = 0 /\ (\A o \in Object : o.name \in Names /\ o.revision \in 1 .. MaxRevision)
  BY DEF Gone, Object
<1>9. next[u].revision \in 0 .. MaxRevision
  BY <1>5, <1>8
<1>10. Named(u) \in Names /\ Kind(u) \in Kinds
  BY <1>5, <1>6, <1>7, <1>8 DEF Kinds
<1>11. Made(u) \in Change
  BY <1>9, <1>10 DEF Change
<1> HIDE DEF Made, Named, Kind, before
<1> QED
  BY <1>2, <1>3, <1>4, <1>6, <1>7, <1>11
LEMMA ObserveKeepsInventory ==
    ASSUME InventoryInv, NEW next \in [Uids -> Object \cup {Gone}], Observe(next)
    PROVE  InventoryInv'
<1> USE InventoryAssumption
<1> DEFINE S == outbox \cup applied
           new == [at |-> observations + 1, baseline |-> ~watching, policy |-> policy,
                   changes |-> Differences(next)]
           now == observations + 1
<1>1. /\ ClusterIsSound /\ HistoryIsSound(S, cluster, seen) /\ Became(next)
      /\ \A d \in S : DeltaIsSound(d) /\ d.at <= observations
  BY DEF InventoryInv, Observe
<1>2. /\ observations < MaxObservations /\ policy # Unset /\ observations' = now
      /\ outbox' = outbox \cup {new} /\ cluster' = next /\ watching' = TRUE
      /\ seen' = seen \cup {u \in Uids : next[u] # Gone}
      /\ UNCHANGED <<policy, scope, events, applied, pruned>>
  BY DEF Observe
<1>3. observations \in Nat /\ now \in 1 .. MaxObservations /\ now \in Moments /\ MaxObservations \in Nat
  BY <1>1, <1>2 DEF ClusterIsSound, Moments
<1>4. /\ new.at = now /\ new.baseline = ~watching /\ new.policy = policy
      /\ new.changes = Differences(next)
  OBVIOUS
<1>5. ASSUME NEW c \in Differences(next)
      PROVE  /\ c \in Change /\ c.uid \in Uids
             /\ c.revision = next[c.uid].revision
             /\ next[c.uid] = Gone =>
                   c.kind = "deleted" /\ watching /\ cluster[c.uid] # Gone /\ c.name = cluster[c.uid].name
             /\ next[c.uid] # Gone => c.kind # "deleted" /\ c.name = next[c.uid].name
             /\ \A b \in Differences(next) : b.uid = c.uid => b = c
  BY <1>1, DifferencesFacts DEF Change
<1>6. Gone.revision = 0 /\ \A u \in Uids : next[u] # Gone => next[u].revision # 0
  <2>1. Gone.revision = 0 /\ \A o \in Object : o.revision # 0
    BY DEF Gone, Object
  <2>2. \A u \in Uids : next[u] \in Object \cup {Gone}
    OBVIOUS
  <2> QED
    BY <2>1, <2>2
<1>7. new \in Delta
  <2>0. policy \in 0 .. MaxPolicies
    BY <1>1, <1>2 DEF ClusterIsSound
  <2>1. (~watching) \in BOOLEAN
    BY Zenon
  <2>2. Differences(next) \in SUBSET Change
    BY <1>5
  <2> QED
    BY <1>3, <2>0, <2>1, <2>2 DEF Delta
<1> HIDE DEF new
<1>8. DeltaIsSound(new)
  <2>1. \A b, c \in new.changes : b.uid = c.uid => b = c
    BY <1>4, <1>5
  <2>2. \A b, c \in new.changes :
           b.name = c.name /\ b.kind # "deleted" /\ c.kind # "deleted" => b = c
    <3> SUFFICES ASSUME NEW b \in new.changes, NEW c \in new.changes, b.name = c.name,
                        b.kind # "deleted", c.kind # "deleted", b.uid # c.uid
                 PROVE  FALSE
      BY <2>1
    <3>1. /\ next[b.uid] # Gone /\ b.name = next[b.uid].name /\ b.uid \in Uids
          /\ next[c.uid] # Gone /\ c.name = next[c.uid].name /\ c.uid \in Uids
      BY <1>4, <1>5
    <3> QED
      BY <1>1, <3>1 DEF Became
  <2>3. \A c \in new.changes : (c.kind = "deleted") <=> (c.revision = 0)
    <3> SUFFICES ASSUME NEW c \in Differences(next) PROVE (c.kind = "deleted") <=> (c.revision = 0)
      BY <1>4
    <3>1. CASE next[c.uid] = Gone
      BY <1>5, <1>6, <3>1
    <3>2. CASE next[c.uid] # Gone
      <4>1. c.uid \in Uids /\ c.revision = next[c.uid].revision /\ c.kind # "deleted"
        BY <1>5, <3>2
      <4> QED
        BY <1>6, <3>2, <4>1
    <3> QED
      BY <3>1, <3>2
  <2>4. \A c \in new.changes : new.baseline => c.kind # "deleted"
    BY <1>4, <1>5
  <2> QED
    BY <1>7, <2>1, <2>2, <2>3, <2>4 DEF DeltaIsSound
<1>9. \A d \in S : d.at < now /\ d # new /\ d.at \in Nat
  BY <1>1, <1>3, <1>4 DEF DeltaIsSound, Delta
<1>10. \A u \in seen \cap Uids : cluster[u] = Gone => next[u] = Gone
  BY <1>1 DEF Became
<1>11. ASSUME NEW d \in S, NEW c \in d.changes
       PROVE  /\ c.uid \in Uids /\ c.uid \in seen /\ c.kind \in Kinds
              /\ cluster[c.uid] # Gone => c.kind # "deleted" /\ cluster[c.uid].name = c.name
              /\ next[c.uid] # Gone => c.kind # "deleted" /\ next[c.uid].name = c.name
                                       /\ cluster[c.uid] # Gone
  <2>1. c.uid \in Uids /\ c.kind \in Kinds
    BY <1>1 DEF DeltaIsSound, Delta, Change
  <2>2. c.uid \in seen /\ (cluster[c.uid] # Gone => c.kind # "deleted" /\ cluster[c.uid].name = c.name)
    BY <1>1 DEF HistoryIsSound
  <2> QED
    BY <1>1, <1>10, <2>1, <2>2 DEF Became
<1> DEFINE T == S \cup {new}
<1>12. HistoryIsSound(T, next, seen')
  <2>1. \A d, e \in T : d.at = e.at => d = e
    BY <1>1, <1>3, <1>4, <1>9 DEF HistoryIsSound
  <2>2. \A d \in T : \A c \in d.changes :
           /\ c.uid \in seen'
           /\ next[c.uid] # Gone => c.kind # "deleted" /\ next[c.uid].name = c.name
    <3> SUFFICES ASSUME NEW d \in T, NEW c \in d.changes
                 PROVE  /\ c.uid \in seen'
                        /\ next[c.uid] # Gone => c.kind # "deleted" /\ next[c.uid].name = c.name
      OBVIOUS
    <3>1. CASE d \in S
      BY <1>2, <1>11, <3>1
    <3>2. CASE d = new
      <4>1. c \in Differences(next)
        BY <1>4, <3>2
      <4>2. c.uid \in seen'
        <5>1. CASE next[c.uid] # Gone
          BY <1>2, <1>5, <4>1, <5>1
        <5>2. CASE next[c.uid] = Gone
          BY <1>1, <1>2, <1>5, <4>1, <5>2 DEF ClusterIsSound
        <5> QED
          BY <5>1, <5>2
      <4> QED
        BY <1>5, <4>1, <4>2
    <3> QED
      BY <3>1, <3>2
  <2>3. ASSUME NEW d \in T, NEW e \in T, NEW b \in d.changes, NEW c \in e.changes, b.uid = c.uid
        PROVE  b.name = c.name /\ (b.kind = "deleted" /\ c.kind = "deleted" => d = e)
    <3>1. ASSUME NEW f \in S, NEW x \in f.changes, NEW y \in new.changes, x.uid = y.uid
          PROVE  x.name = y.name /\ x.kind # "deleted"
      BY <1>4, <1>5, <1>11, <3>1
    <3>2. CASE d \in S /\ e \in S
      BY <1>1, <2>3, <3>2 DEF HistoryIsSound
    <3>3. CASE d = new /\ e = new
      BY <1>4, <1>5, <2>3, <3>3
    <3> QED
      BY <2>3, <3>1, <3>2, <3>3
  <2>4. ASSUME NEW d \in T, NEW e \in T, NEW b \in d.changes, NEW c \in e.changes,
               b.kind # "deleted", c.kind = "deleted", b.name = c.name, d.at < e.at
        PROVE  /\ next[b.uid] = Gone
               /\ \A f \in T : \A a \in f.changes :
                     a.uid = b.uid /\ a.kind # "deleted" => f.at < e.at
    <3>1. d \in S
      BY <1>3, <1>4, <1>9, <2>4
    <3>2. next[b.uid] = Gone
      <4>1. CASE e \in S
        BY <1>1, <1>10, <1>11, <2>4, <3>1, <4>1 DEF HistoryIsSound
      <4>2. CASE e = new
        <5>1. cluster[c.uid] # Gone /\ c.name = cluster[c.uid].name /\ next[c.uid] = Gone
              /\ c.uid \in Uids
          BY <1>4, <1>5, <2>4, <4>2
        <5>2. CASE b.uid = c.uid
          BY <5>1, <5>2
        <5>3. CASE b.uid # c.uid
          <6>1. /\ b.uid \in Uids /\ b.uid \in seen
                /\ cluster[b.uid] # Gone => cluster[b.uid].name = b.name
            BY <1>11, <3>1
          <6>2. cluster[b.uid] = Gone
            BY <1>1, <2>4, <5>1, <5>3, <6>1, Zenon DEF ClusterIsSound
          <6> QED
            BY <1>10, <6>1, <6>2
        <5> QED
          BY <5>2, <5>3
      <4> QED
        BY <4>1, <4>2
    <3>3. ASSUME NEW f \in T, NEW a \in f.changes, a.uid = b.uid, a.kind # "deleted"
          PROVE  f.at < e.at
      <4>1. CASE f = new
        BY <1>4, <1>5, <3>2, <3>3, <4>1
      <4>2. CASE f \in S /\ e = new
        BY <1>4, <1>9, <4>2
      <4>3. CASE f \in S /\ e \in S
        BY <1>1, <2>4, <3>1, <3>3, <4>3 DEF HistoryIsSound
      <4> QED
        BY <4>1, <4>2, <4>3
    <3> QED
      BY <3>2, <3>3
  <2> HIDE DEF T
  <2> QED
    BY <2>1, <2>2, <2>3, <2>4 DEF HistoryIsSound
<1>13. HistoryIsSound(outbox \cup applied, cluster, seen)'
  <2>1. outbox' \cup applied' = T
    BY <1>2
  <2> QED
    BY <1>2, <1>12, <2>1
<1>14. (\A d \in outbox \cup applied : DeltaIsSound(d) /\ d.at <= observations)'
  BY <1>1, <1>2, <1>3, <1>4, <1>8, <1>9
<1>15. ClusterIsSound'
  BY <1>1, <1>2, <1>3 DEF ClusterIsSound, Became
<1>16. ScopeIsSound' /\ EventsAreSound'
  BY <1>2 DEF InventoryInv, ScopeIsSound, EventsAreSound
<1> QED
  BY <1>13, <1>14, <1>15, <1>16 DEF InventoryInv
-----------------------------------------------------------------------------
(* A delta is recorded. *)

\* The changes of a delta that have no event yet.
Fresh(delta) ==
    {c \in ReduceDelta(delta) :
        \A k \in DOMAIN events : events[k].uid # c.uid \/ events[k].revision # c.revision}

RowOf(delta, c) == [name |-> c.name, uid |-> c.uid, revision |-> c.revision,
                    kind |-> IF delta.baseline THEN "baseline" ELSE c.kind, at |-> delta.at]

\* The order in which they are inserted places every one of them, and at its own place.
LEMMA PlacesAreTaken ==
    ASSUME NEW delta, DeltaIsSound(delta)
    PROVE  LET fresh == Fresh(delta)
               Place(c) == 1 + Cardinality({b \in fresh : CompareChanges(b, c)})
           IN  /\ IsFiniteSet(fresh) /\ Cardinality(fresh) \in Nat
               /\ \A k \in 1 .. Cardinality(fresh) : \E c \in fresh : Place(c) = k
               /\ \A c \in fresh : Place(c) \in 1 .. Cardinality(fresh)
               /\ \A b, c \in fresh : Place(b) = Place(c) => b = c
<1> USE InventoryAssumption
<1> DEFINE fresh == Fresh(delta)
           Below(c) == {b \in fresh : CompareChanges(b, c)}
           Place(c) == 1 + Cardinality(Below(c))
           N == Cardinality(fresh)
<1>1. /\ \A c \in fresh : c \in delta.changes /\ c.uid \in Uids /\ c.uid \in Nat /\ c.revision \in Nat
      /\ \A b, c \in fresh : b.uid = c.uid => b = c
  <2>1. fresh \subseteq delta.changes /\ delta.changes \subseteq Change
    BY DEF Fresh, ReduceDelta, DeltaIsSound, Delta
  <2>2. \A c \in Change : c.uid \in Uids /\ c.uid \in Nat /\ c.revision \in Nat
    <3>1. \A c \in Change : c.uid \in Uids /\ c.revision \in 0 .. MaxRevision
      BY DEF Change
    <3>2. Uids \subseteq Nat /\ 0 .. MaxRevision \subseteq Nat
      OBVIOUS
    <3> QED
      BY <3>1, <3>2
  <2>3. \A b, c \in delta.changes : b.uid = c.uid => b = c
    BY DEF DeltaIsSound
  <2> HIDE DEF fresh
  <2> QED
    BY <2>1, <2>2, <2>3
<1>2. IsFiniteSet(fresh) /\ N \in Nat
  <2> DEFINE f == [c \in fresh |-> c.uid]
  <2>1. f \in Injection(fresh, Uids)
    BY <1>1 DEF Injection, IsInjective
  <2>2. IsFiniteSet(fresh)
    BY <2>1, FS_Injection, Zenon
  <2> QED
    BY <2>2, FS_CardinalityType
<1>3. \A c \in fresh : IsFiniteSet(Below(c)) /\ Cardinality(Below(c)) \in Nat
  <2> SUFFICES ASSUME NEW c \in fresh PROVE IsFiniteSet(Below(c)) /\ Cardinality(Below(c)) \in Nat
    OBVIOUS
  <2>1. Below(c) \in SUBSET fresh
    OBVIOUS
  <2>2. IsFiniteSet(Below(c))
    BY <1>2, <2>1, FS_Subset, Zenon
  <2> QED
    BY <2>2, FS_CardinalityType
\* Who comes later has more below.
<1>4. ASSUME NEW b \in fresh, NEW c \in fresh, CompareChanges(b, c) PROVE Place(b) < Place(c)
  <2>1. b \in Below(c) /\ b \notin Below(b)
    BY <1>1, <1>4 DEF CompareChanges
  <2>2. Below(b) \in SUBSET Below(c)
    BY <1>1, <1>4 DEF CompareChanges
  <2>3. /\ Cardinality(Below(b)) <= Cardinality(Below(c))
        /\ Cardinality(Below(c)) = Cardinality(Below(b)) => Below(c) = Below(b)
    <3> HIDE DEF Below
    <3> QED
      BY <1>3, <2>2, FS_Subset
  <2>4. Cardinality(Below(b)) # Cardinality(Below(c))
    BY <2>1, <2>3
  <2> HIDE DEF Below
  <2> QED
    BY <1>3, <2>3, <2>4
<1>5. \A b, c \in fresh : Place(b) = Place(c) => b = c
  <2> SUFFICES ASSUME NEW b \in fresh, NEW c \in fresh, Place(b) = Place(c), b # c PROVE FALSE
    OBVIOUS
  <2>1. CompareChanges(b, c) \/ CompareChanges(c, b)
    BY <1>1 DEF CompareChanges
  <2>2. Place(b) \in Nat /\ Place(c) \in Nat
    <3> HIDE DEF Below
    <3> QED
      BY <1>3
  <2> HIDE DEF Place
  <2> QED
    BY <1>4, <2>1, <2>2
<1>6. \A c \in fresh : Place(c) \in 1 .. N
  <2> SUFFICES ASSUME NEW c \in fresh PROVE Place(c) \in 1 .. N
    OBVIOUS
  <2>1. Below(c) \in SUBSET fresh /\ c \notin Below(c)
    BY <1>1 DEF CompareChanges
  <2>2. Cardinality(Below(c)) <= N /\ (N = Cardinality(Below(c)) => fresh = Below(c))
    <3> HIDE DEF Below, fresh
    <3> QED
      BY <1>2, <2>1, FS_Subset
  <2>3. Cardinality(Below(c)) # N
    BY <2>1, <2>2
  <2> HIDE DEF Below, fresh
  <2> QED
    BY <1>2, <1>3, <2>2, <2>3
<1>7. \A k \in 1 .. N : \E c \in fresh : Place(c) = k
  <2> HIDE DEF Place, fresh
  <2> DEFINE f == [c \in fresh |-> Place(c)]
  <2>1. f \in Injection(fresh, 1 .. N)
    BY <1>5, <1>6 DEF Injection, IsInjective
  <2>2. IsFiniteSet(1 .. N) /\ Cardinality(1 .. N) = N
    BY <1>2, FS_Interval
  <2>3. f \in Surjection(fresh, 1 .. N)
    BY <2>1, <2>2, FS_Injection, Zenon
  <2> QED
    BY <2>3 DEF Surjection
<1> QED
  BY <1>2, <1>5, <1>6, <1>7

\* RecordInventoryDelta inserts an event for every fresh change and no other.
LEMMA RowsFacts ==
    ASSUME NEW delta, DeltaIsSound(delta)
    PROVE  /\ Rows(delta) \in Seq(EventRow)
           /\ \A k \in DOMAIN Rows(delta) : \E c \in Fresh(delta) : Rows(delta)[k] = RowOf(delta, c)
           /\ \A c \in Fresh(delta) : \E k \in DOMAIN Rows(delta) : Rows(delta)[k] = RowOf(delta, c)
<1> DEFINE fresh == Fresh(delta)
           Place(c) == 1 + Cardinality({b \in fresh : CompareChanges(b, c)})
           Row(c) == RowOf(delta, c)
           N == Cardinality(fresh)
<1>1. Rows(delta) = [k \in 1 .. N |-> Row(CHOOSE c \in fresh : Place(c) = k)]
  BY DEF Rows, Fresh, RowOf
<1>2. /\ N \in Nat
      /\ \A k \in 1 .. N : \E c \in fresh : Place(c) = k
      /\ \A c \in fresh : Place(c) \in 1 .. N
      /\ \A b, c \in fresh : Place(b) = Place(c) => b = c
  BY PlacesAreTaken
<1> HIDE DEF Place, fresh, N
<1>3. \A k \in 1 .. N : (CHOOSE c \in fresh : Place(c) = k) \in fresh
                        /\ Place(CHOOSE c \in fresh : Place(c) = k) = k
  BY <1>2
<1>4. \A c \in fresh : (CHOOSE b \in fresh : Place(b) = Place(c)) = c
  BY <1>2
<1>5. \A c \in fresh : Row(c) \in EventRow
  <2> SUFFICES ASSUME NEW c \in fresh PROVE RowOf(delta, c) \in EventRow
    OBVIOUS
  <2>1. c \in Change /\ delta.at \in 1 .. MaxObservations
    BY DEF fresh, Fresh, ReduceDelta, DeltaIsSound, Delta
  <2>2. (IF delta.baseline THEN "baseline" ELSE c.kind) \in Kinds
    BY <2>1 DEF Change, Kinds
  <2> QED
    BY <2>1, <2>2 DEF RowOf, EventRow, Change
<1> HIDE DEF Row
<1>6. Rows(delta) \in [1 .. N -> EventRow]
  BY <1>1, <1>3, <1>5
<1>7. Rows(delta) \in Seq(EventRow) /\ DOMAIN Rows(delta) = 1 .. N
  BY <1>2, <1>6
<1>8. \A k \in DOMAIN Rows(delta) : \E c \in fresh : Rows(delta)[k] = Row(c)
  BY <1>1, <1>3, <1>7
<1>9. \A c \in fresh : \E k \in DOMAIN Rows(delta) : Rows(delta)[k] = Row(c)
  <2> SUFFICES ASSUME NEW c \in fresh PROVE \E k \in DOMAIN Rows(delta) : Rows(delta)[k] = Row(c)
    OBVIOUS
  <2>1. Place(c) \in DOMAIN Rows(delta) /\ Rows(delta)[Place(c)] = Row(c)
    BY <1>1, <1>2, <1>4, <1>7
  <2> QED
    BY <2>1
<1> QED
  BY <1>7, <1>8, <1>9 DEF fresh, Row
-----------------------------------------------------------------------------
(* The scope only advances. *)

Advances(s, t) ==
    /\ t \in Scope /\ s.confirmed <= t.confirmed /\ s.baseline <= t.baseline /\ s.policy <= t.policy
    /\ t.covered <= t.confirmed

LEMMA ScopeAdvances ==
    ASSUME InventoryInv, [InventoryNext]_inventoryVars
    PROVE  Advances(scope, scope')
<1> USE InventoryAssumption
<1>0. /\ ScopeIsSound /\ scope \in Scope /\ scope.open \in BOOLEAN /\ scope.interval \in Nat
      /\ scope.policy \in 0 .. MaxPolicies /\ scope.policy \in Nat
      /\ scope.covered \in Int /\ scope.baseline \in Int /\ scope.confirmed \in Int
      /\ scope.covered \in Moments \cup {Unset} /\ scope.baseline \in Moments \cup {Unset}
      /\ scope.confirmed \in Moments \cup {Unset}
      /\ scope.covered <= scope.confirmed
  BY DEF InventoryInv, ScopeIsSound, Scope, Moments, Unset
<1>1. CASE UNCHANGED scope
  BY <1>0, <1>1 DEF Advances
<1>2. ASSUME NEW t \in Scope, scope' = t, t.confirmed \in Int, t.covered <= t.confirmed,
             scope.confirmed <= t.confirmed, scope.baseline <= t.baseline, scope.policy <= t.policy
      PROVE  Advances(scope, scope')
  BY <1>2 DEF Advances
<1>3. ASSUME NEW a \in Moments \cup {Unset}, NEW b \in Moments \cup {Unset}
      PROVE  /\ Greatest(a, b) \in Moments \cup {Unset} /\ a <= Greatest(a, b) /\ b <= Greatest(a, b)
             /\ Greatest(a, b) \in Int /\ a \in Int /\ b \in Int
  BY DEF Greatest, Moments, Unset
<1>4. ASSUME NEW i \in Intervals, SendInventoryPolicies(i) PROVE Advances(scope, scope')
  <2> DEFINE n == IF scope.open /\ scope.interval # i THEN 1 ELSE 0
             t == [scope EXCEPT !.open = TRUE, !.interval = i, !.policy = scope.policy + n]
  <2>1. scope' = t /\ scope'.policy <= MaxPolicies
    BY <1>4 DEF SendInventoryPolicies, OpenInventoryScopes
  <2>2. n \in {0, 1} /\ i \in Nat
    OBVIOUS
  <2> HIDE DEF n
  <2>3. /\ t.open = TRUE /\ t.interval = i /\ t.policy = scope.policy + n
        /\ t.covered = scope.covered /\ t.baseline = scope.baseline /\ t.confirmed = scope.confirmed
    BY <1>0 DEF Scope
  <2>4. t.policy \in 0 .. MaxPolicies /\ scope.policy <= t.policy
    BY <1>0, <2>1, <2>2, <2>3
  <2>5. t \in Scope
    BY <1>0, <2>2, <2>3, <2>4 DEF Scope
  <2> HIDE DEF t
  <2> QED
    BY <1>0, <1>2, <2>1, <2>3, <2>4, <2>5
<1>5. ASSUME NEW moment \in Moments, Heartbeat(moment) PROVE Advances(scope, scope')
  <2> DEFINE c == Greatest(scope.confirmed, moment)
             t == [scope EXCEPT !.confirmed = c]
  <2>1. scope' = t
    BY <1>5 DEF Heartbeat, RecordInventoryFreshness
  <2>2. c \in Moments \cup {Unset} /\ scope.confirmed <= c /\ c \in Int
    BY <1>0, <1>3
  <2> HIDE DEF c
  <2>3. /\ t.open = scope.open /\ t.interval = scope.interval /\ t.policy = scope.policy
        /\ t.covered = scope.covered /\ t.baseline = scope.baseline /\ t.confirmed = c
    BY <1>0 DEF Scope
  <2>5. t \in Scope
    BY <1>0, <2>2 DEF Scope
  <2> HIDE DEF t
  <2> QED
    BY <1>0, <1>2, <2>1, <2>2, <2>3, <2>5
<1>6. ASSUME NEW d \in outbox, RecordInventoryDelta(d) PROVE Advances(scope, scope')
  <2>1. d.at \in Moments /\ d.policy \in 0 .. MaxPolicies
    BY DEF InventoryInv, DeltaIsSound, Delta, Moments
  <2>2. scope' = AdvanceChangeScope(d, Len(Rows(d)))
    BY <1>6 DEF RecordInventoryDelta
  <2> DEFINE c == Greatest(scope.confirmed, d.at)
             confirmed == [scope EXCEPT !.confirmed = c]
             anew == \/ scope.covered = Unset \/ Len(Rows(d)) > 0 \/ scope.confirmed = Unset
                     \/ d.at - scope.confirmed > 2 * scope.interval
             o == IF anew THEN d.at ELSE scope.covered
             b == Greatest(scope.baseline, d.at)
             p == Greatest(scope.policy, d.policy)
             whole == [confirmed EXCEPT !.covered = o, !.baseline = b, !.policy = p]
  <2>3. /\ c \in Moments \cup {Unset} /\ scope.confirmed <= c /\ d.at <= c /\ c \in Int /\ d.at \in Int
        /\ b \in Moments \cup {Unset} /\ scope.baseline <= b
    BY <1>0, <1>3, <2>1
  <2>4. p \in 0 .. MaxPolicies /\ scope.policy <= p
    BY <1>0, <2>1 DEF Greatest
  <2>5. o \in Moments \cup {Unset} /\ o <= c
    BY <1>0, <2>1, <2>3
  <2>6. /\ confirmed.open = scope.open /\ confirmed.interval = scope.interval
        /\ confirmed.policy = scope.policy /\ confirmed.covered = scope.covered
        /\ confirmed.baseline = scope.baseline /\ confirmed.confirmed = c
    BY <1>0 DEF Scope
  <2>7. scope' \in {scope, confirmed, whole}
    BY <2>2, <2>6 DEF AdvanceChangeScope
  <2> HIDE DEF c, o, b, p
  <2>8. confirmed \in Scope
    BY <1>0, <2>3 DEF Scope
  <2> HIDE DEF confirmed
  <2>9. /\ whole \in Scope
        /\ whole.covered = o /\ whole.baseline = b /\ whole.policy = p /\ whole.confirmed = c
    BY <2>3, <2>4, <2>5, <2>6, <2>8 DEF Scope
  <2> HIDE DEF whole
  <2>10. CASE scope' = confirmed
    BY <1>0, <1>2, <2>3, <2>6, <2>8, <2>10
  <2>11. CASE scope' = whole
    BY <1>2, <2>3, <2>4, <2>5, <2>9, <2>11
  <2> QED
    BY <1>1, <2>7, <2>10, <2>11
<1> QED
  BY <1>1, <1>4, <1>5, <1>6 DEF InventoryNext, Observe, RelayRestarts, RefuseInventoryDelta,
     PruneChangesBefore, inventoryVars
-----------------------------------------------------------------------------
(* The invariant. *)

LEMMA RecordKeepsEvents ==
    ASSUME InventoryInv, NEW delta \in outbox, RecordInventoryDelta(delta)
    PROVE  EventsAreSound'
<1> DEFINE rows == Rows(delta)
<1>1. DeltaIsSound(delta) /\ EventsAreSound /\ events \in Seq(EventRow)
  BY DEF InventoryInv, EventsAreSound
<1>2. events' = events \o rows /\ applied' = applied \cup {delta} /\ pruned' = pruned
  BY DEF RecordInventoryDelta
<1>3. /\ rows \in Seq(EventRow)
      /\ \A k \in DOMAIN rows : \E c \in Fresh(delta) : rows[k] = RowOf(delta, c)
      /\ \A c \in Fresh(delta) : \E k \in DOMAIN rows : rows[k] = RowOf(delta, c)
  BY <1>1, RowsFacts
<1> HIDE DEF rows
<1>4. /\ events' \in Seq(EventRow)
      /\ \A k \in DOMAIN events : k \in DOMAIN events' /\ events'[k] = events[k]
      /\ \A k \in DOMAIN rows : Len(events) + k \in DOMAIN events' /\ events'[Len(events) + k] = rows[k]
      /\ \A k \in DOMAIN events' : k \in DOMAIN events \/ \E j \in DOMAIN rows : k = Len(events) + j
  <2>1. events' \in Seq(EventRow) /\ Len(events') = Len(events) + Len(rows)
    BY <1>1, <1>2, <1>3
  <2>2. DOMAIN events = 1 .. Len(events) /\ DOMAIN rows = 1 .. Len(rows) /\ DOMAIN events' = 1 .. Len(events')
        /\ Len(events) \in Nat /\ Len(rows) \in Nat
    BY <1>1, <1>3, <2>1
  <2>3. \A k \in 1 .. Len(events) : events'[k] = events[k]
    BY <1>1, <1>2, <1>3
  <2>4. \A k \in 1 .. Len(rows) : events'[Len(events) + k] = rows[k]
    BY <1>1, <1>2, <1>3
  <2>5. ASSUME NEW k \in 1 .. Len(events'), k \notin 1 .. Len(events)
        PROVE  \E j \in 1 .. Len(rows) : k = Len(events) + j
    <3>1. k - Len(events) \in 1 .. Len(rows) /\ k = Len(events) + (k - Len(events))
      BY <2>1, <2>2, <2>5
    <3> QED
      BY <3>1
  <2>6. \A k \in DOMAIN events : k \in DOMAIN events' /\ events'[k] = events[k]
    BY <2>1, <2>2, <2>3
  <2>7. \A k \in DOMAIN rows : Len(events) + k \in DOMAIN events' /\ events'[Len(events) + k] = rows[k]
    BY <2>1, <2>2, <2>4
  <2>8. \A k \in DOMAIN events' : k \in DOMAIN events \/ \E j \in DOMAIN rows : k = Len(events) + j
    BY <2>2, <2>5, Zenon
  <2> QED
    BY <2>1, <2>6, <2>7, <2>8
<1>5. \A c \in Fresh(delta) :
         /\ c \in delta.changes /\ Of(RowOf(delta, c), delta, c)
         /\ RowOf(delta, c).uid = c.uid /\ RowOf(delta, c).revision = c.revision
  <2> SUFFICES ASSUME NEW c \in Fresh(delta)
               PROVE  c \in delta.changes /\ Of(RowOf(delta, c), delta, c)
                      /\ RowOf(delta, c).uid = c.uid /\ RowOf(delta, c).revision = c.revision
    OBVIOUS
  <2>1. c \in delta.changes /\ c \in Change /\ (delta.baseline => c.kind # "deleted")
    BY <1>1 DEF Fresh, ReduceDelta, DeltaIsSound, Delta
  <2>2. c.kind \in Kinds /\ "baseline" \in Kinds /\ "baseline" # "deleted"
    BY <2>1 DEF Change, Kinds
  <2> QED
    BY <2>1, <2>2 DEF Of, RowOf
<1>6. ASSUME NEW k \in DOMAIN events' PROVE \E d \in applied' : \E c \in d.changes : Of(events'[k], d, c)
  <2>1. CASE k \in DOMAIN events
    BY <1>1, <1>2, <1>4, <2>1 DEF EventsAreSound
  <2>2. CASE \E j \in DOMAIN rows : k = Len(events) + j
    <3>1. PICK j \in DOMAIN rows : k = Len(events) + j
      BY <2>2
    <3>2. PICK c \in Fresh(delta) : rows[j] = RowOf(delta, c)
      BY <1>3
    <3>3. Of(events'[k], delta, c) /\ c \in delta.changes
      BY <1>4, <1>5, <3>1, <3>2
    <3> QED
      BY <1>2, <3>3
  <2> QED
    BY <1>4, <2>1, <2>2
<1>7. ASSUME NEW d \in applied', NEW c \in d.changes, c.name \notin pruned'
      PROVE  \E k \in DOMAIN events' : events'[k].uid = c.uid /\ events'[k].revision = c.revision
  <2>1. CASE \E k \in DOMAIN events : events[k].uid = c.uid /\ events[k].revision = c.revision
    BY <1>4, <2>1
  <2>2. CASE d = delta /\ ~\E k \in DOMAIN events : events[k].uid = c.uid /\ events[k].revision = c.revision
    <3>1. c \in ReduceDelta(delta)
      BY <1>1, <1>7, <2>2 DEF ReduceDelta, DeltaIsSound
    <3>2. c \in Fresh(delta)
      BY <2>2, <3>1 DEF Fresh
    <3>3. PICK k \in DOMAIN rows : rows[k] = RowOf(delta, c)
      BY <1>3, <3>2
    <3> QED
      BY <1>4, <1>5, <3>2, <3>3
  <2> QED
    BY <1>1, <1>2, <1>7, <2>1, <2>2 DEF EventsAreSound
<1> QED
  BY <1>4, <1>6, <1>7 DEF EventsAreSound

LEMMA PruneKeepsEvents ==
    ASSUME InventoryInv, NEW n \in 1 .. Len(events), PruneChangesBefore(n)
    PROVE  EventsAreSound'
<1>1. /\ EventsAreSound /\ events \in Seq(EventRow) /\ HistoryIsSound(outbox \cup applied, cluster, seen)
  BY DEF InventoryInv, EventsAreSound
<1>2. /\ events' = SubSeq(events, n + 1, Len(events)) /\ applied' = applied
      /\ pruned' = pruned \cup {events[k].name : k \in 1 .. n}
  BY DEF PruneChangesBefore
<1>3. /\ events' \in Seq(EventRow)
      /\ \A k \in DOMAIN events' : n + k \in DOMAIN events /\ events'[k] = events[n + k]
      /\ \A k \in DOMAIN events : k \in 1 .. n \/ (k - n \in DOMAIN events' /\ events'[k - n] = events[k])
  <2>1. Len(events) \in Nat /\ DOMAIN events = 1 .. Len(events) /\ n \in Nat
    BY <1>1
  <2>2. events' \in Seq(EventRow) /\ Len(events') = Len(events) - n
    BY <1>1, <1>2, <2>1
  <2>3. DOMAIN events' = 1 .. Len(events) - n
    BY <2>2
  <2>4. \A k \in 1 .. Len(events) - n : events'[k] = events[n + k]
    BY <1>1, <1>2, <2>1
  <2>5. \A k \in 1 .. Len(events) : k \in 1 .. n \/ (k - n \in 1 .. Len(events) - n /\ n + (k - n) = k)
    BY <2>1
  <2>6. \A k \in 1 .. Len(events) - n : n + k \in 1 .. Len(events)
    BY <2>1
  <2> QED
    BY <2>1, <2>2, <2>3, <2>4, <2>5, <2>6
<1>4. \A k \in DOMAIN events' : \E d \in applied' : \E c \in d.changes : Of(events'[k], d, c)
  BY <1>1, <1>2, <1>3 DEF EventsAreSound
<1>5. ASSUME NEW d \in applied', NEW c \in d.changes, c.name \notin pruned'
      PROVE  \E k \in DOMAIN events' : events'[k].uid = c.uid /\ events'[k].revision = c.revision
  <2>1. PICK k \in DOMAIN events : events[k].uid = c.uid /\ events[k].revision = c.revision
    BY <1>1, <1>2, <1>5 DEF EventsAreSound
  <2>2. events[k].name = c.name
    <3>1. PICK e \in applied : \E b \in e.changes : Of(events[k], e, b)
      BY <1>1 DEF EventsAreSound
    <3>2. PICK b \in e.changes : Of(events[k], e, b)
      BY <3>1
    <3>3. b.uid = c.uid /\ events[k].name = b.name /\ d \in outbox \cup applied
      BY <1>2, <2>1, <3>2 DEF Of
    <3>4. b.name = c.name
      BY <1>1, <3>3 DEF HistoryIsSound
    <3> QED
      BY <3>3, <3>4
  <2>3. k \notin 1 .. n
    BY <1>2, <1>5, <2>2
  <2> QED
    BY <1>3, <2>1, <2>3
<1> QED
  BY <1>3, <1>4, <1>5 DEF EventsAreSound

LEMMA InventoryInvNext == InventoryInv /\ [InventoryNext]_inventoryVars => InventoryInv'
<1> SUFFICES ASSUME InventoryInv, [InventoryNext]_inventoryVars PROVE InventoryInv'
  OBVIOUS
<1> USE InventoryAssumption
<1> DEFINE S == outbox \cup applied
<1>1. ScopeIsSound'
  BY ScopeAdvances DEF Advances, ScopeIsSound
\* Only an observation changes the cluster or adds a delta.
<1>2. ASSUME outbox' \cup applied' \subseteq S, UNCHANGED <<cluster, seen, observations>>, EventsAreSound',
             policy' \in {Unset} \cup (0 .. MaxPolicies), watching' \in BOOLEAN
      PROVE  InventoryInv'
  <2>1. ClusterIsSound'
    BY <1>2 DEF InventoryInv, ClusterIsSound
  <2>2. (\A d \in outbox \cup applied : DeltaIsSound(d) /\ d.at <= observations)'
    BY <1>2 DEF InventoryInv
  <2>3. HistoryIsSound(outbox' \cup applied', cluster, seen)
    BY <1>2, FewerDeltas DEF InventoryInv
  <2>4. HistoryIsSound(outbox \cup applied, cluster, seen)'
    BY <1>2, <2>3
  <2> QED
    BY <1>1, <1>2, <2>1, <2>2, <2>4 DEF InventoryInv
<1>3. policy \in {Unset} \cup (0 .. MaxPolicies) /\ watching \in BOOLEAN /\ EventsAreSound
  BY DEF InventoryInv, ClusterIsSound
<1>4. UNCHANGED <<events, applied, pruned>> => EventsAreSound'
  BY <1>3 DEF EventsAreSound
<1>5. CASE RelayRestarts
  BY <1>2, <1>4, <1>5 DEF RelayRestarts
<1>6. ASSUME NEW i \in Intervals, SendInventoryPolicies(i) PROVE InventoryInv'
  <2>1. scope'.policy \in 0 .. MaxPolicies
    BY <1>1 DEF ScopeIsSound, Scope
  <2> QED
    BY <1>2, <1>3, <1>4, <1>6, <2>1 DEF SendInventoryPolicies
<1>7. ASSUME NEW d \in outbox, RecordInventoryDelta(d) PROVE InventoryInv'
  BY <1>2, <1>3, <1>7, RecordKeepsEvents DEF RecordInventoryDelta
<1>8. ASSUME NEW d \in outbox, RefuseInventoryDelta(d) PROVE InventoryInv'
  BY <1>2, <1>3, <1>4, <1>8 DEF RefuseInventoryDelta
<1>9. ASSUME NEW moment \in Moments, Heartbeat(moment) PROVE InventoryInv'
  BY <1>2, <1>3, <1>4, <1>9 DEF Heartbeat
<1>10. ASSUME NEW n \in 1 .. Len(events), PruneChangesBefore(n) PROVE InventoryInv'
  BY <1>2, <1>3, <1>10, PruneKeepsEvents DEF PruneChangesBefore
<1>11. CASE UNCHANGED inventoryVars
  BY <1>2, <1>3, <1>4, <1>11 DEF inventoryVars
<1> QED
  BY <1>5, <1>6, <1>7, <1>8, <1>9, <1>10, <1>11, ObserveKeepsInventory DEF InventoryNext
-----------------------------------------------------------------------------
(* What is listed. *)

LEMMA BoundedHasMaximum ==
    ASSUME NEW T, T \subseteq Nat, T # {}, NEW B \in Nat, \A x \in T : x <= B
    PROVE  \E m \in T : \A x \in T : x <= m
<1> DEFINE U == {B - x : x \in T}
<1>0. \A x \in T : x \in Nat /\ B - x \in Nat
  OBVIOUS
<1>1. U \subseteq Nat /\ U # {}
  BY <1>0
<1>2. PICK k \in U : \A j \in U : ~(<<j, k>> \in OpToRel(<, Nat))
  <2> HIDE DEF U
  <2> QED
    BY <1>1, NatLessThanWellFounded, WFMin
<1>3. \A j \in U : k <= j
  <2> HIDE DEF U
  <2> SUFFICES ASSUME NEW j \in U, j < k PROVE FALSE
    BY <1>1
  <2>1. <<j, k>> \in Nat \X Nat /\ <<j, k>>[1] < <<j, k>>[2]
    BY <1>1
  <2>2. <<j, k>> \in OpToRel(<, Nat)
    BY <2>1, Zenon DEF OpToRel
  <2> QED
    BY <2>2, <1>2
<1>4. PICK m \in T : k = B - m
  OBVIOUS
<1>5. ASSUME NEW x \in T PROVE x <= m
  <2>1. B - m <= B - x
    BY <1>3, <1>4
  <2>2. x \in Nat /\ m \in Nat
    BY <1>0
  <2> HIDE DEF U
  <2> QED
    BY <2>1, <2>2
<1> QED
  BY <1>5

\* Of the events of a name one comes last.
LEMMA OneComesLast ==
    ASSUME EventsAreSound, NEW K, K \subseteq DOMAIN events, K # {}
    PROVE  \E k \in K : \A j \in K : j = k \/ Later(k, j)
<1> USE InventoryAssumption
<1>1. events \in Seq(EventRow) /\ Len(events) \in Nat /\ DOMAIN events = 1 .. Len(events)
  BY DEF EventsAreSound
<1>2. \A k \in K : k \in Nat /\ k <= Len(events) /\ events[k].at \in Nat /\ events[k].at <= MaxObservations
  <2>1. \A e \in EventRow : e.at \in 1 .. MaxObservations
    BY DEF EventRow
  <2>2. \A k \in K : k \in 1 .. Len(events) /\ events[k] \in EventRow
    BY <1>1
  <2> QED
    BY <1>1, <2>1, <2>2
<1> DEFINE T == {events[k].at : k \in K}
<1>3. PICK t \in T : \A x \in T : x <= t
  <2>1. T \subseteq Nat /\ T # {} /\ MaxObservations \in Nat /\ \A x \in T : x <= MaxObservations
    BY <1>2
  <2> HIDE DEF T
  <2> QED
    BY <2>1, BoundedHasMaximum
<1> DEFINE R == {k \in K : events[k].at = t}
<1>4. PICK k \in R : \A j \in R : j <= k
  <2>1. R \subseteq Nat /\ R # {} /\ \A j \in R : j <= Len(events)
    BY <1>2
  <2> HIDE DEF R
  <2> QED
    BY <1>1, <2>1, BoundedHasMaximum
<1>5. ASSUME NEW j \in K, j # k PROVE Later(k, j)
  <2>1. events[j].at <= t /\ events[k].at = t /\ t \in Nat /\ events[j].at \in Nat /\ k \in Nat /\ j \in Nat
    BY <1>2, <1>3, <1>4
  <2>2. events[j].at = t => j <= k
    BY <1>4
  <2> QED
    BY <1>5, <2>1, <2>2 DEF Later
<1> QED
  BY <1>4, <1>5

LEMMA InventoryFollows == InventoryInv => InventoryIsCurrent
<1> SUFFICES ASSUME InventoryInv PROVE InventoryIsCurrent
  OBVIOUS
<1> USE InventoryAssumption
<1>1. /\ EventsAreSound /\ ScopeIsSound
      /\ HistoryIsSound(outbox \cup applied, cluster, seen)
      /\ \A d \in outbox \cup applied : DeltaIsSound(d) /\ d \in Delta
  BY DEF InventoryInv, DeltaIsSound
<1>2. InventoryTypeOK
  <2>1. scope.policy \in 0 .. MaxPolicies
        /\ {scope.covered, scope.baseline, scope.confirmed} \subseteq Moments \cup {Unset}
    BY <1>1 DEF ScopeIsSound, Scope
  <2>2. \A k \in DOMAIN events : events[k] \in EventRow
    BY <1>1 DEF EventsAreSound
  <2>3. \A e \in EventRow : e.at \in Moments /\ e.kind \in Kinds
    BY DEF EventRow, Moments
  <2> QED
    BY <1>1, <2>1, <2>2, <2>3 DEF InventoryTypeOK
<1>3. ASSUME NEW k \in DOMAIN events
      PROVE  \E d \in applied : \E c \in d.changes :
                Of(events[k], d, c) /\ d \in About(events[k].name) /\ c.name = events[k].name
  BY <1>1 DEF EventsAreSound, About, Of
<1>4. ASSUME NEW n \in Workloads \ pruned
      PROVE  IF ~scope.open \/ About(n) = {} THEN n \notin WorkloadInventory
             ELSE (\A d \in About(n) : ~(Deletes(d, n) /\ Creates(d, n))) =>
                     (n \in WorkloadInventory <=> Creates(Latest(n), n) /\ Before(n) < InventoryLimit)
  <2>1. CASE ~scope.open
    BY <2>1 DEF WorkloadInventory
  <2>2. CASE About(n) = {}
    BY <1>3, <2>2 DEF WorkloadInventory, Existing
  <2>3. CASE scope.open /\ About(n) # {}
    <3> DEFINE L == Latest(n)
               K == {k \in DOMAIN events : events[k].name = n}
    <3>1. L \in About(n) /\ \A d \in About(n) : d.at <= L.at
      <4> DEFINE T == {d.at : d \in About(n)}
      <4>1. \A d \in About(n) : d \in Delta
        BY <1>1 DEF About
      <4>2. \A d \in Delta : d.at \in Nat /\ d.at <= MaxObservations
        BY DEF Delta
      <4>3. T \subseteq Nat /\ T # {} /\ MaxObservations \in Nat /\ \A x \in T : x <= MaxObservations
        BY <2>3, <4>1, <4>2
      <4>4. PICK t \in T : \A x \in T : x <= t
        <5> HIDE DEF T
        <5> QED
          BY <4>3, BoundedHasMaximum
      <4>5. \E d \in About(n) : \A e \in About(n) : e.at <= d.at
        BY <4>4
      <4> QED
        BY <4>5 DEF Latest
    <3>2. /\ \A d \in About(n) : d \in applied /\ d.at \in Nat
          /\ \A d, e \in About(n) : d.at = e.at => d = e
      BY <1>1 DEF About, HistoryIsSound, Delta
    <3> HIDE DEF L
    <3> SUFFICES ASSUME \A d \in About(n) : ~(Deletes(d, n) /\ Creates(d, n))
                 PROVE  n \in Existing <=> Creates(L, n)
      BY <2>3 DEF L, WorkloadInventory
    <3>3. n \in Existing <=>
             \E k \in K : events[k].kind # "deleted" /\ \A j \in K : j = k \/ Later(k, j)
      BY <2>3 DEF Existing
    <3>4. ASSUME NEW d \in About(n), NEW c \in d.changes, c.name = n
          PROVE  \E j \in K : \E e \in About(n) : \E b \in e.changes :
                    /\ Of(events[j], e, b) /\ b.uid = c.uid /\ b.name = n
                    /\ (b.kind = "deleted") <=> (c.kind = "deleted")
      <4>1. d \in applied /\ c.name \notin pruned
        BY <3>2, <3>4
      <4>2. PICK j \in DOMAIN events : events[j].uid = c.uid /\ events[j].revision = c.revision
        BY <1>1, <4>1 DEF EventsAreSound
      <4>3. PICK e \in applied : \E b \in e.changes : Of(events[j], e, b)
        BY <1>3
      <4>4. PICK b \in e.changes : Of(events[j], e, b)
        BY <4>3
      <4>5. b.uid = c.uid /\ b.revision = c.revision /\ events[j].name = b.name
        BY <4>2, <4>4 DEF Of
      <4>6. b.name = c.name
        BY <1>1, <4>1, <4>5 DEF HistoryIsSound
      <4>7. (b.kind = "deleted") <=> (c.kind = "deleted")
        <5>1. DeltaIsSound(d) /\ DeltaIsSound(e)
          BY <1>1, <4>1
        <5> QED
          BY <4>5, <5>1 DEF DeltaIsSound
      <4>8. e \in About(n) /\ j \in K
        BY <3>4, <4>5, <4>6 DEF About
      <4> QED
        BY <3>4, <4>4, <4>5, <4>6, <4>7, <4>8
    <3>5. ASSUME NEW k \in K, events[k].kind # "deleted", \A j \in K : j = k \/ Later(k, j), ~Creates(L, n)
          PROVE  FALSE
      <4>1. PICK c \in L.changes : c.name = n /\ c.kind = "deleted"
        BY <3>1, <3>5 DEF About, Creates
      <4>2. PICK j \in K : \E e \in About(n) : \E b \in e.changes :
                    /\ Of(events[j], e, b) /\ b.uid = c.uid /\ b.name = n /\ b.kind = "deleted"
        BY <3>1, <3>4, <4>1
      <4>0. PICK e \in About(n) : \E b \in e.changes :
                    Of(events[j], e, b) /\ b.uid = c.uid /\ b.name = n /\ b.kind = "deleted"
        BY <4>2
      <4>3. PICK b \in e.changes :
                    Of(events[j], e, b) /\ b.uid = c.uid /\ b.name = n /\ b.kind = "deleted"
        BY <4>0
      <4>4. e = L
        <5>1. e \in applied /\ L \in applied
          BY <3>1, <3>2
        <5> QED
          BY <1>1, <4>1, <4>3, <5>1 DEF HistoryIsSound
      <4>5. events[j].at = L.at /\ events[j].kind = "deleted"
        BY <4>3, <4>4 DEF Of
      <4>11. PICK d \in About(n) : \E a \in d.changes : Of(events[k], d, a) /\ a.name = n
        BY <1>3
      <4>6. PICK a \in d.changes : Of(events[k], d, a) /\ a.name = n
        BY <4>11
      <4>7. events[k].at = d.at /\ a.kind # "deleted"
        BY <3>5, <4>6 DEF Of
      <4>8. Later(k, j)
        BY <3>5, <4>5
      <4>9. d.at = L.at
        BY <3>1, <3>2, <4>5, <4>7, <4>8 DEF Later
      <4>10. d = L
        BY <3>1, <3>2, <4>9
      <4> QED
        BY <3>5, <4>6, <4>7, <4>10 DEF Creates
    <3>6. ASSUME Creates(L, n)
          PROVE  \E k \in K : events[k].kind # "deleted" /\ \A j \in K : j = k \/ Later(k, j)
      <4>1. PICK c \in L.changes : c.name = n /\ c.kind # "deleted"
        BY <3>6 DEF Creates
      <4>2. PICK j \in K : \E e \in About(n) : \E b \in e.changes :
                    /\ Of(events[j], e, b) /\ b.uid = c.uid /\ b.name = n /\ b.kind # "deleted"
        BY <3>1, <3>4, <4>1
      <4>0. PICK e \in About(n) : \E b \in e.changes :
                    Of(events[j], e, b) /\ b.uid = c.uid /\ b.name = n /\ b.kind # "deleted"
        BY <4>2
      <4>3. PICK b \in e.changes :
                    Of(events[j], e, b) /\ b.uid = c.uid /\ b.name = n /\ b.kind # "deleted"
        BY <4>0
      <4>4. events[j].at = e.at /\ events[j].kind # "deleted"
        BY <4>3 DEF Of
      <4>5. PICK k \in K : \A i \in K : i = k \/ Later(k, i)
        <5>1. K \subseteq DOMAIN events /\ K # {}
          BY <4>2
        <5> HIDE DEF K
        <5> QED
          BY <1>1, <5>1, OneComesLast
      <4>6. ASSUME events[k].kind = "deleted" PROVE FALSE
        <5>0. PICK d \in About(n) : \E x \in d.changes : Of(events[k], d, x) /\ x.name = n
          BY <1>3
        <5>1. PICK x \in d.changes : Of(events[k], d, x) /\ x.name = n
          BY <5>0
        <5>2. events[k].at = d.at /\ x.kind = "deleted"
          BY <4>6, <5>1 DEF Of
        <5>3. Later(k, j)
          BY <4>4, <4>5, <4>6
        <5>4. d.at # e.at
          BY <3>2, <4>3, <5>1, <5>2 DEF Deletes, Creates
        <5>5. e.at < d.at
          BY <3>2, <4>4, <5>2, <5>3, <5>4 DEF Later
        <5>6. d \in applied /\ e \in applied /\ L \in applied
          BY <3>1, <3>2
        <5>7. L.at < d.at
          BY <1>1, <4>1, <4>3, <5>1, <5>2, <5>5, <5>6 DEF HistoryIsSound
        <5> QED
          BY <3>1, <3>2, <5>7
      <4> QED
        BY <4>5, <4>6
    <3> QED
      BY <3>3, <3>5, <3>6
  <2> QED
    BY <2>1, <2>2, <2>3
<1> QED
  BY <1>2, <1>4 DEF InventoryIsCurrent

\* For every number of workloads, objects and observations, and however deltas are
\* repeated, overtaken, refused and lost with the Relay: a workload is listed if and
\* only if the latest recorded observation of its name is not its deletion
\* (RecordInventoryDelta, WorkloadInventory).
THEOREM InventoryIsAlwaysCurrent == InventorySpec => []InventoryIsCurrent
<1>1. InventoryInit => InventoryInv
  BY InventoryInvInit
<1>2. InventoryInv /\ [InventoryNext]_inventoryVars => InventoryInv'
  BY InventoryInvNext
<1>3. InventoryInv => InventoryIsCurrent
  BY InventoryFollows
<1> QED
  BY <1>1, <1>2, <1>3, PTL DEF InventorySpec

\* What is confirmed, the baseline and the policy revision of a scope never go back,
\* and coverage never begins after what is confirmed (advanceChangeScope,
\* RecordInventoryFreshness, OpenInventoryScopes).
THEOREM ConfirmationAlwaysAdvances == InventorySpec => ConfirmationOnlyAdvances
<1> DEFINE Step == /\ scope.confirmed <= scope'.confirmed
                   /\ scope.baseline <= scope'.baseline
                   /\ scope.policy <= scope'.policy
                   /\ scope'.covered <= scope'.confirmed
<1>1. InventoryInit => InventoryInv
  BY InventoryInvInit
<1>2. InventoryInv /\ [InventoryNext]_inventoryVars => InventoryInv'
  BY InventoryInvNext
<1>3. InventoryInv /\ [InventoryNext]_inventoryVars => [Step]_inventoryVars
  BY ScopeAdvances DEF Advances
<1> QED
  BY <1>1, <1>2, <1>3, PTL DEF InventorySpec, ConfirmationOnlyAdvances

-----------------------------------------------------------------------------
(* Contested identities. *)

\* The watch has the latest takeovers of those that were counted ...
Ends(short, long) ==
    /\ Len(short) <= Len(long)
    /\ \A k \in 1 .. Len(short) : short[k] = long[Len(long) - Len(short) + k]

\* ... all that are still in the window, or as many as it remembers ...
Remembers(short, long, now) ==
    \/ Len(short) = ChurnMemory
    \/ \A n \in 1 .. (Len(long) - Len(short)) : long[n].until <= now

\* ... and takeovers come in the order of time.
InOrder(long, now) ==
    /\ \A m, n \in 1 .. Len(long) : m <= n => long[m].until <= long[n].until
    /\ \A n \in 1 .. Len(long) : long[n].until <= now + ChurnWindow

WatchIsSound(r) ==
    /\ recent[r] \in Seq(Takeover) /\ takeovers[r] \in Seq(Takeover)
    /\ Len(recent[r]) <= ChurnMemory
    /\ Ends(recent[r], takeovers[r]) /\ Remembers(recent[r], takeovers[r], clock)
    /\ InOrder(takeovers[r], clock)

VerdictIsSound(v, long) ==
    /\ v.nth \in 1 .. Len(long) /\ v.hosts \in 0 .. Cardinality(Hosts)
    /\ v.contested = Contested(SubSeq(long, 1, v.nth))

Verdicts == [nth : Nat, hosts : Nat, contested : BOOLEAN]

ChurnInv ==
    /\ clock \in 0 .. MaxTime
    /\ recent \in [Registrations -> Seq(Takeover)]
    /\ takeovers \in [Registrations -> Seq(Takeover)]
    /\ conflict \in [Registrations -> 0 .. Cardinality(Hosts)]
    /\ verdicts \in [Registrations -> SUBSET Verdicts]
    /\ marked \in [Registrations -> SUBSET Nat]
    /\ \A r \in Registrations :
          /\ WatchIsSound(r) /\ \A h \in marked[r] : h <= conflict[r]
          /\ \A v \in verdicts[r] : VerdictIsSound(v, takeovers[r])

USE ChurnAssumption

\* forgetBefore drops a first part, all of it out of the window.
LEMMA ForgetFacts ==
    ASSUME NEW history \in Seq(Takeover), clock \in Nat
    PROVE  \E p \in 0 .. Len(history) :
              /\ ForgetBefore(history) = SubSeq(history, p + 1, Len(history))
              /\ \A n \in 1 .. p : history[n].until <= clock
              /\ p < Len(history) => history[p + 1].until > clock
<1> DEFINE N == Len(history)
           keep == {n \in DOMAIN history : \E m \in 1 .. n : history[m].until > clock}
<1>0. N \in Nat /\ DOMAIN history = 1 .. N
  OBVIOUS
<1>1. \A n \in 1 .. N : history[n].until \in Nat
  <2>1. \A n \in 1 .. N : history[n] \in Takeover
    OBVIOUS
  <2>2. \A t \in Takeover : t.until \in Nat
    BY DEF Takeover
  <2> QED
    BY <2>1, <2>2
<1>2. ForgetBefore(history) = SubSeq(history, N - Cardinality(keep) + 1, N)
  BY DEF ForgetBefore
<1>5. \A n : n \in keep <=> n \in 1 .. N /\ \E m \in 1 .. n : history[m].until > clock
  BY <1>0
<1> HIDE DEF keep, N
<1>3. CASE keep = {}
  <2>1. Cardinality(keep) = 0
    BY <1>3, FS_EmptySet
  <2>2. \A n \in 1 .. N : ~(history[n].until > clock)
    <3> SUFFICES ASSUME NEW n \in 1 .. N, history[n].until > clock PROVE FALSE
      OBVIOUS
    <3>1. n \in 1 .. n
      BY <1>0
    <3> QED
      BY <1>3, <1>5, <3>1
  <2>3. \A n \in 1 .. N : history[n].until <= clock
    BY <1>1, <2>2, SMTT(40)
  <2>4. ForgetBefore(history) = SubSeq(history, N + 1, N)
    BY <1>0, <1>2, <2>1
  <2> QED
    BY <1>0, <2>3, <2>4 DEF N
<1>4. CASE keep # {}
  <2>1. keep \subseteq Nat /\ keep \subseteq 1 .. N
    BY <1>0, <1>5
  <2>2. PICK f \in keep : \A j \in keep : f <= j
    <3>1. PICK k \in keep : \A j \in keep : ~(<<j, k>> \in OpToRel(<, Nat))
      BY <1>4, <2>1, NatLessThanWellFounded, WFMin
    <3>2. ASSUME NEW j \in keep, j < k PROVE FALSE
      <4>1. <<j, k>> \in Nat \X Nat /\ <<j, k>>[1] < <<j, k>>[2]
        BY <2>1, <3>2
      <4>2. <<j, k>> \in OpToRel(<, Nat)
        BY <4>1, Zenon DEF OpToRel
      <4> QED
        BY <3>1, <4>2
    <3>3. \A j \in keep : k <= j
      BY <2>1, <3>2
    <3> QED
      BY <3>3
  <2>3. keep = f .. N
    <3>1. ASSUME NEW n \in f .. N PROVE n \in keep
      <4>1. PICK m \in 1 .. f : history[m].until > clock
        BY <1>5
      <4>2. m \in 1 .. n /\ n \in 1 .. N
        BY <1>0, <2>1
      <4> QED
        BY <1>5, <4>1, <4>2
    <3>2. ASSUME NEW n \in keep PROVE n \in f .. N
      BY <1>0, <2>1, <2>2
    <3> QED
      BY <3>1, <3>2
  <2>4. Cardinality(keep) = N - f + 1
    <3>1. f \in Int /\ N \in Int /\ f <= N
      BY <1>0, <2>1
    <3>2. Cardinality(f .. N) = IF f > N THEN 0 ELSE N - f + 1
      BY <3>1, FS_Interval
    <3> QED
      BY <2>3, <3>1, <3>2
  <2>5. f \in 1 .. N /\ f - 1 \in 0 .. N /\ (f - 1) + 1 = f /\ N - (N - f + 1) + 1 = f
    BY <1>0, <2>1
  <2>6. ForgetBefore(history) = SubSeq(history, (f - 1) + 1, N)
    BY <1>2, <2>4, <2>5
  <2>7. \A n \in 1 .. f - 1 : history[n].until <= clock
    <3> SUFFICES ASSUME NEW n \in 1 .. f - 1 PROVE history[n].until <= clock
      OBVIOUS
    <3>0. n \in 1 .. N /\ n \in 1 .. n /\ ~(f <= n)
      BY <1>0, <2>5
    <3>1. n \in 1 .. N /\ n \notin keep /\ n \in 1 .. n
      BY <2>2, <3>0
    <3>2. ~(history[n].until > clock)
      BY <1>5, <3>1
    <3> QED
      BY <1>1, <3>1, <3>2, SMTT(40)
  <2>8. history[f].until > clock
    <3>1. PICK m \in 1 .. f : history[m].until > clock
      BY <1>5
    <3>2. m \in 1 .. N /\ m \in 1 .. m /\ m <= f
      BY <1>0, <2>5
    <3>4. m \in keep
      BY <1>5, <3>1, <3>2
    <3>5. f <= m
      BY <2>2, <3>4
    <3>3. m = f
      BY <2>5, <3>2, <3>5
    <3> QED
      BY <3>1, <3>3
  <2> QED
    BY <2>5, <2>6, <2>7, <2>8 DEF N
<1> QED
  BY <1>3, <1>4

\* What remains is the end of what was, is all in the window, and nothing that is in
\* the window was forgotten.
LEMMA ForgetKeeps ==
    ASSUME NEW history \in Seq(Takeover), NEW long \in Seq(Takeover), clock \in Nat,
           Len(history) <= ChurnMemory, Ends(history, long), Remembers(history, long, clock),
           InOrder(long, clock)
    PROVE  LET left == ForgetBefore(history)
           IN  /\ left \in Seq(Takeover) /\ Len(left) <= ChurnMemory
               /\ Ends(left, long) /\ Remembers(left, long, clock)
               /\ \A k \in 1 .. Len(left) : left[k].until > clock
<1> DEFINE left == ForgetBefore(history)
           N == Len(history)
           D == Len(long) - N
<1>1. PICK p \in 0 .. N :
         /\ left = SubSeq(history, p + 1, N)
         /\ \A n \in 1 .. p : history[n].until <= clock
         /\ p < N => history[p + 1].until > clock
  BY ForgetFacts
<1>2. N \in Nat /\ Len(long) \in Nat /\ D \in Nat /\ p \in Nat /\ p <= N
  BY DEF Ends
<1>3. left \in Seq(Takeover) /\ Len(left) = N - p /\ \A k \in 1 .. N - p : left[k] = history[p + k]
  <2>1. left = SubSeq(history, p + 1, N)
    BY <1>1, Zenon
  <2>2. p + 1 \in Nat /\ p + 1 >= 1 /\ N - (p + 1) + 1 = N - p
    BY <1>2
  <2>3. \A k \in (p + 1) .. N : history[k] \in Takeover
    <3>1. \A k \in 1 .. N : history[k] \in Takeover
      OBVIOUS
    <3>2. \A k \in (p + 1) .. N : k \in 1 .. N
      BY <1>2
    <3> QED
      BY <3>1, <3>2, Zenon
  <2>4. /\ SubSeq(history, p + 1, N) \in Seq(Takeover)
        /\ Len(SubSeq(history, p + 1, N)) = IF p + 1 <= N THEN N - (p + 1) + 1 ELSE 0
        /\ \A k \in 1 .. N - (p + 1) + 1 : SubSeq(history, p + 1, N)[k] = history[(p + 1) + k - 1]
    <3>1. p + 1 \in Int /\ N \in Int
      BY <1>2
    <3> HIDE DEF N
    <3> QED
      BY <2>3, <3>1, SubSeqProperties
  <2> HIDE DEF left, N
  <2>5. Len(left) = N - p
    BY <1>2, <2>1, <2>4
  <2>6. \A k \in 1 .. N - p : k \in 1 .. N - (p + 1) + 1 /\ (p + 1) + k - 1 = p + k
    BY <1>2
  <2>7. \A k \in 1 .. N - p : left[k] = history[p + k]
    BY <2>1, <2>4, <2>6, Zenon
  <2> QED
    BY <2>1, <2>4, <2>5, <2>7, Zenon
<1>4. \A k \in 1 .. N : history[k] = long[D + k] /\ D + k \in 1 .. Len(long)
  <2>1. \A k \in 1 .. N : history[k] = long[D + k]
    BY Zenon DEF Ends
  <2>2. \A k \in 1 .. N : D + k \in 1 .. Len(long)
    BY <1>2
  <2> QED
    BY <2>1, <2>2, Zenon
<1>5. \A n \in 1 .. Len(long) : long[n].until \in Nat
  <2>1. \A n \in 1 .. Len(long) : long[n] \in Takeover
    OBVIOUS
  <2>2. \A t \in Takeover : t.until \in Nat
    BY DEF Takeover
  <2> QED
    BY <2>1, <2>2
<1> HIDE DEF left
<1>6. Ends(left, long)
  <2>1. Len(left) = N - p /\ N - p <= Len(long) /\ Len(long) - (N - p) = D + p
    BY <1>2, <1>3
  <2>2. ASSUME NEW k \in 1 .. N - p PROVE left[k] = long[(D + p) + k]
    <3> HIDE DEF D, N
    <3>1. p + k \in 1 .. N /\ D + (p + k) = (D + p) + k
      BY <1>2
    <3>2. left[k] = history[p + k] /\ history[p + k] = long[D + (p + k)]
      BY <1>3, <1>4, <3>1, Zenon
    <3> QED
      BY <3>1, <3>2, Zenon
  <2> QED
    BY <2>1, <2>2, Zenon DEF Ends
<1>7. Remembers(left, long, clock)
  <2>1. CASE p = 0
    BY <1>2, <1>3, <2>1 DEF Remembers
  <2>2. CASE p > 0
    <3>1. p \in 1 .. N /\ history[p].until <= clock /\ D + p \in 1 .. Len(long)
      BY <1>1, <1>2, <1>4, <2>2
    <3>2. long[D + p].until <= clock
      BY <1>4, <3>1
    <3>3. ASSUME NEW n \in 1 .. D + p PROVE long[n].until <= clock
      <4>1. n \in 1 .. Len(long) /\ n <= D + p
        BY <1>2, <3>1
      <4>2. long[n].until <= long[D + p].until
        BY <3>1, <4>1 DEF InOrder
      <4>3. long[n].until \in Nat /\ long[D + p].until \in Nat
        BY <1>5, <3>1, <4>1
      <4>4. \A a, b \in Nat : a <= b /\ b <= clock => a <= clock
        BY SMTT(40)
      <4> QED
        BY <3>2, <4>2, <4>3, <4>4, Zenon
    <3>4. Len(long) - Len(left) = D + p
      BY <1>2, <1>3
    <3> QED
      BY <3>3, <3>4 DEF Remembers
  <2> QED
    BY <1>2, <2>1, <2>2
<1>8. ASSUME NEW k \in 1 .. Len(left) PROVE left[k].until > clock
  <2>0. Len(left) = N - p /\ (k \in 1 .. N - p => left[k] = history[p + k])
    BY <1>3, Zenon
  <2> HIDE DEF N, D
  <2>1. /\ k \in 1 .. N - p /\ p < N /\ left[k] = history[p + k] /\ p + k \in 1 .. N /\ p + 1 \in 1 .. N
        /\ D + (p + 1) <= D + (p + k)
    BY <1>2, <2>0
  <2>2. long[D + (p + 1)].until > clock /\ left[k] = long[D + (p + k)]
    BY <1>1, <1>4, <2>1
  <2>3. D + (p + 1) \in 1 .. Len(long) /\ D + (p + k) \in 1 .. Len(long)
    BY <1>4, <2>1
  <2>4. long[D + (p + 1)].until <= long[D + (p + k)].until
    BY <2>1, <2>3 DEF InOrder
  <2>5. long[D + (p + 1)].until \in Nat /\ long[D + (p + k)].until \in Nat
    BY <1>5, <2>3
  <2>6. \A a, b \in Nat : a <= b /\ a > clock => b > clock
    BY SMTT(40)
  <2> QED
    BY <2>2, <2>4, <2>5, <2>6, Zenon
<1>9. Len(left) <= ChurnMemory
  BY <1>2, <1>3
<1> QED
  BY <1>3, <1>6, <1>7, <1>8, <1>9 DEF left

\* add keeps the end of what was counted, all of it in the window.
LEMMA AddFacts ==
    ASSUME NEW history \in Seq(Takeover), NEW long \in Seq(Takeover), clock \in 0 .. MaxTime,
           Len(history) <= ChurnMemory, Ends(history, long), Remembers(history, long, clock),
           InOrder(long, clock), NEW t \in Takeover, t.until = clock + ChurnWindow
    PROVE  LET new == AddTakeover(history, t)
               longer == Append(long, t)
           IN  /\ new \in Seq(Takeover) /\ longer \in Seq(Takeover) /\ Len(longer) = Len(long) + 1
               /\ Len(new) \in 1 .. ChurnMemory
               /\ Ends(new, longer) /\ Remembers(new, longer, clock) /\ InOrder(longer, clock)
               /\ \A k \in 1 .. Len(new) : new[k].until > clock
<1> DEFINE left == ForgetBefore(history)
           base == IF Len(left) = ChurnMemory THEN Tail(left) ELSE left
           new == Append(base, t)
           longer == Append(long, t)
           L == Len(long)
<1>0. AddTakeover(history, t) = new
  BY DEF AddTakeover
<1>1. clock \in Nat /\ ChurnWindow \in Nat /\ ChurnWindow > 0 /\ ChurnMemory \in Nat /\ ChurnMemory > 0
  OBVIOUS
<1>2. /\ left \in Seq(Takeover) /\ Len(left) <= ChurnMemory
      /\ Ends(left, long) /\ Remembers(left, long, clock)
      /\ \A k \in 1 .. Len(left) : left[k].until > clock
  BY <1>1, ForgetKeeps
<1> HIDE DEF left
<1>3. /\ Len(left) \in Nat /\ L \in Nat /\ Len(left) <= L
      /\ \A k \in 1 .. Len(left) : left[k] = long[L - Len(left) + k]
  <2>1. Len(left) \in Nat /\ L \in Nat
    BY <1>2
  <2>2. Ends(left, long)
    BY <1>2
  <2> QED
    BY <2>1, <2>2, Zenon DEF Ends
\* base: the last q of what is left.
<1>4. PICK q \in Nat :
         /\ base \in Seq(Takeover) /\ Len(base) = q /\ q < ChurnMemory /\ q <= L
         /\ \A k \in 1 .. q : base[k] = long[L - q + k] /\ base[k].until > clock
         /\ q + 1 = ChurnMemory \/ (q = Len(left) /\ Len(left) # ChurnMemory)
  <2>1. CASE Len(left) = ChurnMemory
    <3>1. base = Tail(left) /\ left # <<>>
      BY <1>1, <2>1
    <3>2. base \in Seq(Takeover) /\ Len(base) = Len(left) - 1
          /\ \A k \in 1 .. Len(left) - 1 : base[k] = left[k + 1]
      BY <1>2, <3>1
    <3>3. \A k \in 1 .. Len(left) - 1 :
             /\ k + 1 \in 1 .. Len(left) /\ L - (Len(left) - 1) + k = L - Len(left) + (k + 1)
      BY <1>3
    <3>4. Len(left) - 1 \in Nat /\ Len(left) - 1 < ChurnMemory /\ Len(left) - 1 <= L
          /\ (Len(left) - 1) + 1 = ChurnMemory
      BY <1>1, <1>3, <2>1
    <3>5. \A k \in 1 .. Len(left) - 1 :
             base[k] = long[L - (Len(left) - 1) + k] /\ base[k].until > clock
      BY <1>2, <1>3, <3>2, <3>3
    <3> QED
      BY <3>2, <3>4, <3>5
  <2>2. CASE Len(left) # ChurnMemory
    <3>1. base = left
      BY <2>2
    <3>2. Len(left) < ChurnMemory
      BY <1>1, <1>2, <1>3, <2>2
    <3> QED
      BY <1>2, <1>3, <2>2, <3>1, <3>2
  <2> QED
    BY <2>1, <2>2
<1> HIDE DEF base, L
<1>5. /\ new \in Seq(Takeover) /\ Len(new) = q + 1 /\ new[q + 1] = t
      /\ \A k \in 1 .. q : new[k] = base[k]
  BY <1>4
<1>6. /\ longer \in Seq(Takeover) /\ Len(longer) = L + 1 /\ longer[L + 1] = t
      /\ \A k \in 1 .. L : longer[k] = long[k]
  BY DEF L
<1> HIDE DEF new, longer
<1>7. Ends(new, longer)
  <2>1. ASSUME NEW k \in 1 .. q + 1 PROVE new[k] = longer[(L + 1) - (q + 1) + k]
    <3>1. CASE k = q + 1
      <4>1. (L + 1) - (q + 1) + k = L + 1
        BY <1>3, <1>4, <3>1
      <4> QED
        BY <1>5, <1>6, <3>1, <4>1
    <3>2. CASE k # q + 1
      <4>1. k \in 1 .. q /\ (L + 1) - (q + 1) + k = L - q + k /\ L - q + k \in 1 .. L
        BY <1>3, <1>4, <3>2
      <4> QED
        BY <1>4, <1>5, <1>6, <4>1
    <3> QED
      BY <3>1, <3>2
  <2>2. q + 1 <= L + 1
    BY <1>3, <1>4
  <2> QED
    BY <1>5, <1>6, <2>1, <2>2 DEF Ends
<1>8. Remembers(new, longer, clock)
  <2>1. CASE q + 1 = ChurnMemory
    BY <1>5, <2>1 DEF Remembers
  <2>2. CASE q = Len(left) /\ Len(left) # ChurnMemory
    <3>1. \A n \in 1 .. (L - q) : long[n].until <= clock
      BY <1>2, <2>2 DEF Remembers, L
    <3>2. \A n \in 1 .. (L + 1) - (q + 1) : n \in 1 .. (L - q) /\ n \in 1 .. L
      BY <1>3, <1>4
    <3>3. \A n \in 1 .. (L + 1) - (q + 1) : longer[n].until <= clock
      BY <1>6, <3>1, <3>2
    <3> QED
      BY <1>5, <1>6, <3>3 DEF Remembers
  <2> QED
    BY <1>4, <2>1, <2>2
<1>9. InOrder(longer, clock)
  <2>1. \A n \in 1 .. L + 1 : n = L + 1 \/ n \in 1 .. L
    BY <1>3
  <2>2. ASSUME NEW n \in 1 .. L + 1 PROVE longer[n].until <= clock + ChurnWindow
    <3>1. CASE n = L + 1
      <4>1. longer[n].until = clock + ChurnWindow
        BY <1>6, <3>1, Zenon
      <4> QED
        BY <1>1, <4>1
    <3>2. CASE n \in 1 .. L
      <4>1. long[n].until <= clock + ChurnWindow
        BY <3>2, Zenon DEF InOrder, L
      <4> QED
        BY <1>6, <3>2, <4>1, Zenon
    <3> QED
      BY <2>1, <3>1, <3>2
  <2>3. ASSUME NEW m \in 1 .. L + 1, NEW n \in 1 .. L + 1, m <= n
        PROVE  longer[m].until <= longer[n].until
    <3>1. CASE n = L + 1
      <4>1. longer[n].until = clock + ChurnWindow
        BY <1>6, <3>1, Zenon
      <4>2. longer[m].until <= clock + ChurnWindow
        BY <2>2, Zenon
      <4> QED
        BY <4>1, <4>2, Zenon
    <3>2. CASE n # L + 1
      <4>1. n \in 1 .. L /\ m \in 1 .. L
        BY <1>3, <2>3, <3>2
      <4>2. long[m].until <= long[n].until
        BY <2>3, <4>1, Zenon DEF InOrder, L
      <4>3. longer[m] = long[m] /\ longer[n] = long[n]
        BY <1>6, <4>1, Zenon
      <4> QED
        BY <4>2, <4>3, Zenon
    <3> QED
      BY <3>1, <3>2
  <2> QED
    BY <1>6, <2>2, <2>3 DEF InOrder
<1>10. \A k \in 1 .. Len(new) : new[k].until > clock
  <2>1. \A k \in 1 .. q + 1 : k = q + 1 \/ k \in 1 .. q
    OBVIOUS
  <2>2. t.until > clock
    BY <1>1
  <2> QED
    BY <1>4, <1>5, <2>1, <2>2
<1>11. Len(new) \in 1 .. ChurnMemory
  BY <1>1, <1>4, <1>5
<1> QED
  BY <1>0, <1>3, <1>5, <1>6, <1>7, <1>8, <1>9, <1>10, <1>11 DEF L, longer

\* What the watch remembers is judged as everything that was counted would be.
LEMMA VerdictFacts ==
    ASSUME NEW new \in Seq(Takeover), NEW longer \in Seq(Takeover), clock \in Nat, NEW nth,
           Len(new) \in 1 .. ChurnMemory, Ends(new, longer), Remembers(new, longer, clock),
           \A k \in 1 .. Len(new) : new[k].until > clock,
           longer[Len(longer)].until = clock + ChurnWindow
    PROVE  /\ Verdict(new, nth).contested <=> Contested(longer)
           /\ Verdict(new, nth).nth = nth
           /\ Verdict(new, nth).hosts \in 0 .. Cardinality(Hosts)
<1> DEFINE M == Len(new)
           N == Len(longer)
           I == {n \in DOMAIN longer : longer[n].until + ChurnWindow > longer[N].until}
           J == (N - M + 1) .. N
           hosts == Cardinality(HostsOf(new))
<1>1. /\ M \in Nat /\ N \in Nat /\ M <= N /\ DOMAIN new = 1 .. M /\ DOMAIN longer = 1 .. N /\ M > 0
      /\ \A k \in 1 .. M : new[k] = longer[N - M + k]
  BY SMTT(40) DEF Ends
<1>2. /\ ChurnWindow \in Nat /\ ChurnThreshold \in Nat /\ ContendingHosts \in Nat /\ ChurnMemory \in Nat
      /\ ContendingHosts <= ChurnThreshold /\ ChurnThreshold <= ChurnMemory
  OBVIOUS
<1>3. \A n \in 1 .. N : longer[n].until \in Nat
  <2>1. \A n \in 1 .. N : longer[n] \in Takeover
    OBVIOUS
  <2>2. \A t \in Takeover : t.until \in Nat
    BY DEF Takeover
  <2> QED
    BY <2>1, <2>2
<1>4. \A n : n \in I <=> n \in 1 .. N /\ longer[n].until > clock
  BY <1>1, <1>2, <1>3, SMTT(40)
<1>5. J \subseteq I
  <2> SUFFICES ASSUME NEW n \in J PROVE n \in I
    OBVIOUS
  <2>1. n - (N - M) \in 1 .. M /\ N - M + (n - (N - M)) = n /\ n \in 1 .. N
    BY <1>1
  <2>2. longer[n].until > clock
    BY <1>1, <2>1
  <2> QED
    BY <1>4, <2>1, <2>2
<1>6. Cardinality(J) = M /\ IsFiniteSet(J)
  <2>1. N - M + 1 \in Int /\ N \in Int /\ ~(N - M + 1 > N) /\ N - (N - M + 1) + 1 = M
    BY <1>1
  <2>2. IsFiniteSet(J) /\ Cardinality(J) = IF N - M + 1 > N THEN 0 ELSE N - (N - M + 1) + 1
    BY <2>1, FS_Interval
  <2> QED
    BY <2>1, <2>2
<1>7. IsFiniteSet(I) /\ Cardinality(I) \in Nat /\ M <= Cardinality(I)
  <2>1. IsFiniteSet(1 .. N) /\ I \in SUBSET (1 .. N)
    BY <1>1, <1>4, FS_Interval
  <2> HIDE DEF I
  <2>2. IsFiniteSet(I)
    BY <2>1, FS_Subset
  <2>3. J \in SUBSET I
    BY <1>5
  <2> HIDE DEF J
  <2> QED
    BY <1>6, <2>2, <2>3, FS_Subset, FS_CardinalityType, SMTT(40)
<1>8. HostsOf(new) = {longer[n].host : n \in J}
  <2>1. \A k \in 1 .. M : N - M + k \in J /\ new[k] = longer[N - M + k]
    BY <1>1
  <2>2. \A n \in J : n - (N - M) \in 1 .. M /\ N - M + (n - (N - M)) = n
    BY <1>1
  <2>3. \A n \in J : n - (N - M) \in 1 .. M /\ longer[n] = new[n - (N - M)]
    BY <1>1, <2>2, Zenon
  <2>4. HostsOf(new) = {new[k].host : k \in 1 .. M}
    BY <1>1, Zenon DEF HostsOf
  <2> HIDE DEF J, M, N
  <2>5. ASSUME NEW x \in {new[k].host : k \in 1 .. M} PROVE x \in {longer[n].host : n \in J}
    BY <2>1, Zenon
  <2>6. ASSUME NEW x \in {longer[n].host : n \in J} PROVE x \in {new[k].host : k \in 1 .. M}
    BY <2>3, Zenon
  <2> QED
    BY <2>4, <2>5, <2>6, Zenon
<1>9. hosts \in Nat /\ hosts <= M /\ hosts <= Cardinality(Hosts) /\ Cardinality(Hosts) \in Nat
  <2>1. \A k \in 1 .. M : new[k].host \in Hosts
    <3>1. \A k \in 1 .. M : new[k] \in Takeover
      BY <1>1
    <3>2. \A t \in Takeover : t.host \in Hosts
      BY DEF Takeover
    <3> QED
      BY <3>1, <3>2
  <2>2. HostsOf(new) \in SUBSET Hosts
    BY <1>1, <2>1 DEF HostsOf
  <2>3. IsFiniteSet(HostsOf(new)) /\ hosts <= Cardinality(Hosts)
    BY <2>2, FS_Subset
  <2> DEFINE f == [k \in 1 .. M |-> new[k].host]
  <2>4. f \in Surjection(1 .. M, HostsOf(new))
    BY <1>1 DEF Surjection, HostsOf
  <2>7. IsFiniteSet(1 .. M) /\ Cardinality(1 .. M) = IF 1 > M THEN 0 ELSE M - 1 + 1
    <3>1. 1 \in Int /\ M \in Int
      BY <1>1
    <3> QED
      BY <3>1, FS_Interval, Zenon
  <2>5. IsFiniteSet(1 .. M) /\ Cardinality(1 .. M) = M
    BY <1>1, <2>7, SMTT(40)
  <2> HIDE DEF f
  <2>6. hosts <= Cardinality(1 .. M)
    BY <2>4, <2>5, FS_Surjection, Zenon
  <2> QED
    BY <2>3, <2>5, <2>6, FS_CardinalityType
<1>10. /\ Verdict(new, nth).contested <=> (M >= ChurnThreshold \/ (hosts >= ContendingHosts /\ M >= ContendingHosts))
       /\ Verdict(new, nth).nth = nth /\ Verdict(new, nth).hosts = hosts
  BY DEF Verdict
<1>11. Contested(longer) <=> \/ Cardinality(I) >= ChurnThreshold
                             \/ Cardinality({longer[n].host : n \in I}) >= ContendingHosts
  BY DEF Contested
<1>12. CASE M = ChurnMemory
  <2>1. M >= ChurnThreshold /\ Cardinality(I) >= ChurnThreshold
    BY <1>1, <1>2, <1>7, <1>12
  <2> QED
    BY <1>9, <1>10, <1>11, <2>1
<1>13. CASE M # ChurnMemory
  <2>1. \A n \in 1 .. (N - M) : longer[n].until <= clock
    BY <1>13 DEF Remembers
  <2>2. ASSUME NEW n \in I PROVE n \in J
    <3>1. n \in 1 .. N /\ longer[n].until > clock /\ longer[n].until \in Nat
      BY <1>3, <1>4
    <3>3. ~(longer[n].until <= clock)
      BY <3>1, SMTT(40)
    <3>2. n \notin 1 .. (N - M)
      BY <2>1, <3>3, Zenon
    <3> QED
      BY <1>1, <3>1, <3>2, SMTT(40)
  <2>3. I = J
    BY <1>5, <2>2
  <2> HIDE DEF I, J, hosts, M, N
  <2>4. Cardinality(I) = M /\ Cardinality({longer[n].host : n \in I}) = hosts
    BY <1>6, <1>8, <2>3 DEF hosts
  <2>5. hosts >= ContendingHosts => M >= ContendingHosts
    BY <1>1, <1>2, <1>9
  <2> QED
    BY <1>9, <1>10, <1>11, <2>4, <2>5, SMTT(40)
<1> QED
  BY <1>12, <1>13

-----------------------------------------------------------------------------

\* A later clock only takes takeovers out of the window.
LEMMA LaterKeeps ==
    ASSUME NEW short \in Seq(Takeover), NEW long \in Seq(Takeover), NEW now \in Nat,
           Remembers(short, long, now), InOrder(long, now), Len(short) <= Len(long)
    PROVE  Remembers(short, long, now + 1) /\ InOrder(long, now + 1)
<1>1. \A n \in 1 .. Len(long) : long[n].until \in Nat
  <2>1. \A n \in 1 .. Len(long) : long[n] \in Takeover
    OBVIOUS
  <2>2. \A t \in Takeover : t.until \in Nat
    BY DEF Takeover
  <2> QED
    BY <2>1, <2>2
<1>2. Len(short) \in Nat /\ Len(long) \in Nat /\ ChurnWindow \in Nat
  OBVIOUS
<1>3. /\ \A a \in Nat : a <= now => a <= now + 1
      /\ \A a \in Nat : a <= now + ChurnWindow => a <= (now + 1) + ChurnWindow
      /\ \A n \in 1 .. (Len(long) - Len(short)) : n \in 1 .. Len(long)
  BY <1>2
<1>4. Remembers(short, long, now + 1)
  BY <1>1, <1>3, Zenon DEF Remembers
<1>5. InOrder(long, now + 1)
  <2>1. \A n \in 1 .. Len(long) : long[n].until <= (now + 1) + ChurnWindow
    BY <1>1, <1>3, Zenon DEF InOrder
  <2> QED
    BY <2>1, Zenon DEF InOrder
<1> QED
  BY <1>4, <1>5

\* What was counted first is not changed by what is counted next.
LEMMA VerdictStands ==
    ASSUME NEW long \in Seq(Takeover), NEW t \in Takeover, NEW v, VerdictIsSound(v, long)
    PROVE  VerdictIsSound(v, Append(long, t))
<1> DEFINE longer == Append(long, t)
<1>1. /\ longer \in Seq(Takeover) /\ Len(longer) = Len(long) + 1 /\ Len(long) \in Nat
      /\ \A k \in 1 .. Len(long) : longer[k] = long[k]
  OBVIOUS
<1>2. v.nth \in 1 .. Len(long)
  BY DEF VerdictIsSound
<1> HIDE DEF longer
<1>3. SubSeq(longer, 1, v.nth) = SubSeq(long, 1, v.nth)
  <2>1. v.nth \in Nat /\ v.nth <= Len(long)
    BY <1>1, <1>2
  <2>2. \A k \in 1 .. v.nth : longer[k] = long[k]
    BY <1>1, <2>1
  <2>3. /\ SubSeq(longer, 1, v.nth) = [k \in 1 .. v.nth |-> longer[k]]
        /\ SubSeq(long, 1, v.nth) = [k \in 1 .. v.nth |-> long[k]]
    BY <1>1, <2>1
  <2> QED
    BY <2>2, <2>3, Zenon
<1>4. v.nth \in 1 .. Len(longer)
  BY <1>1, <1>2
<1> QED
  BY <1>3, <1>4, Zenon DEF VerdictIsSound, longer
\* Sweeping forgets nothing the watch should know.
LEMMA SweepKeeps ==
    ASSUME ChurnInv, NEW q \in Registrations
    PROVE  /\ Sweep \in [Registrations -> Seq(Takeover)]
           /\ Len(Sweep[q]) <= ChurnMemory
           /\ Ends(Sweep[q], takeovers[q]) /\ Remembers(Sweep[q], takeovers[q], clock)
<1>1. \A s \in Registrations :
         /\ recent[s] \in Seq(Takeover) /\ takeovers[s] \in Seq(Takeover) /\ clock \in Nat
         /\ Len(recent[s]) <= ChurnMemory /\ Ends(recent[s], takeovers[s])
         /\ Remembers(recent[s], takeovers[s], clock) /\ InOrder(takeovers[s], clock)
  <2>1. clock \in Nat
    BY DEF ChurnInv
  <2> QED
    BY <2>1, Zenon DEF ChurnInv, WatchIsSound
<1>2. CASE clock < sweepDue
  <2>1. Sweep = recent
    BY <1>2 DEF Sweep
  <2> QED
    BY <1>1, <2>1 DEF ChurnInv
<1>3. CASE ~(clock < sweepDue)
  <2>1. Sweep = [s \in Registrations |-> ForgetBefore(recent[s])]
    BY <1>3 DEF Sweep
  <2>2. ASSUME NEW s \in Registrations
        PROVE  /\ ForgetBefore(recent[s]) \in Seq(Takeover)
               /\ Len(ForgetBefore(recent[s])) <= ChurnMemory
               /\ Ends(ForgetBefore(recent[s]), takeovers[s])
               /\ Remembers(ForgetBefore(recent[s]), takeovers[s], clock)
    BY <1>1, ForgetKeeps
  <2>3. \A s \in Registrations : Sweep[s] = ForgetBefore(recent[s])
    BY <2>1
  <2> QED
    BY <2>1, <2>2, <2>3, Zenon
<1> QED
  BY <1>2, <1>3

\* record keeps the invariant, whatever the watch swept on its way.
LEMMA RecordKeeps ==
    ASSUME ChurnInv, NEW r \in Registrations, NEW host \in Hosts, RecordTakeover(r, host)
    PROVE  ChurnInv'
<1> DEFINE known == Sweep
           full == /\ known[r] = <<>>
                   /\ Cardinality({q \in Registrations : known[q] # <<>>}) >= MaxTracked
           t == [until |-> clock + ChurnWindow, host |-> host]
           history == AddTakeover(known[r], t)
           nth == Len(takeovers[r]) + 1
<1>1. UNCHANGED <<clock, conflict, marked>>
  BY DEF RecordTakeover
<1>2. \/ full /\ recent' = known /\ UNCHANGED <<takeovers, verdicts>>
      \/ /\ recent' = [known EXCEPT ![r] = history]
         /\ takeovers' = [takeovers EXCEPT ![r] = Append(takeovers[r], t)]
         /\ verdicts' = [verdicts EXCEPT ![r] = verdicts[r] \cup {Verdict(history, nth)}]
  BY DEF RecordTakeover
<1>3. /\ clock \in 0 .. MaxTime /\ clock \in Nat
      /\ takeovers \in [Registrations -> Seq(Takeover)]
      /\ conflict \in [Registrations -> 0 .. Cardinality(Hosts)]
      /\ verdicts \in [Registrations -> SUBSET Verdicts]
      /\ marked \in [Registrations -> SUBSET Nat]
  BY DEF ChurnInv
<1>4. \A q \in Registrations :
         /\ InOrder(takeovers[q], clock)
         /\ \A h \in marked[q] : h <= conflict[q]
         /\ \A v \in verdicts[q] : VerdictIsSound(v, takeovers[q])
  BY Zenon DEF ChurnInv, WatchIsSound
<1>5. /\ known \in [Registrations -> Seq(Takeover)]
      /\ \A q \in Registrations :
           /\ Len(known[q]) <= ChurnMemory
           /\ Ends(known[q], takeovers[q]) /\ Remembers(known[q], takeovers[q], clock)
  BY SweepKeeps, Zenon
<1> HIDE DEF known
<1>6. CASE full /\ recent' = known /\ UNCHANGED <<takeovers, verdicts>>
  <2>1. recent' = known /\ takeovers' = takeovers /\ verdicts' = verdicts
    BY <1>6
  <2>2. \A q \in Registrations : WatchIsSound(q)'
    <3> SUFFICES ASSUME NEW q \in Registrations PROVE WatchIsSound(q)'
      OBVIOUS
    <3>1. recent'[q] = known[q] /\ takeovers'[q] = takeovers[q] /\ clock' = clock
      BY <1>1, <2>1
    <3>2. known[q] \in Seq(Takeover) /\ takeovers[q] \in Seq(Takeover)
      BY <1>3, <1>5
    <3> QED
      BY <1>4, <1>5, <3>1, <3>2, Zenon DEF WatchIsSound
  <2> QED
    BY <1>1, <1>3, <1>4, <1>5, <2>1, <2>2, Zenon DEF ChurnInv
<1>7. CASE /\ recent' = [known EXCEPT ![r] = history]
           /\ takeovers' = [takeovers EXCEPT ![r] = Append(takeovers[r], t)]
           /\ verdicts' = [verdicts EXCEPT ![r] = verdicts[r] \cup {Verdict(history, nth)}]
  <2> DEFINE long == takeovers[r]
             longer == Append(long, t)
  <2>1. t \in Takeover /\ t.until = clock + ChurnWindow
    BY <1>3 DEF Takeover
  <2>2. known[r] \in Seq(Takeover) /\ long \in Seq(Takeover)
    BY <1>3, <1>5
  <2> HIDE DEF t
  <2>3. /\ history \in Seq(Takeover) /\ longer \in Seq(Takeover) /\ Len(longer) = Len(long) + 1
        /\ Len(history) \in 1 .. ChurnMemory
        /\ Ends(history, longer) /\ Remembers(history, longer, clock) /\ InOrder(longer, clock)
        /\ \A k \in 1 .. Len(history) : history[k].until > clock
    BY <1>3, <1>4, <1>5, <2>1, <2>2, AddFacts
  <2>4. longer[Len(longer)] = t
    BY <2>1, <2>2
  <2> HIDE DEF history, longer
  <2>5. longer[Len(longer)].until = clock + ChurnWindow
    BY <2>1, <2>4
  <2>6. /\ Verdict(history, nth).contested <=> Contested(longer)
        /\ Verdict(history, nth).nth = nth
        /\ Verdict(history, nth).hosts \in 0 .. Cardinality(Hosts)
    BY <1>3, <2>3, <2>5, VerdictFacts
  <2>7. nth \in Nat /\ nth = Len(longer) /\ nth \in 1 .. Len(longer)
    BY <2>2, <2>3
  <2>8. SubSeq(longer, 1, nth) = longer
    BY <2>3, <2>7
  <2>9. Contested(longer) \in BOOLEAN /\ Verdict(history, nth).contested \in BOOLEAN
    BY DEF Contested, Verdict
  <2> HIDE DEF nth
  <2>10. VerdictIsSound(Verdict(history, nth), longer)
    <3>1. Verdict(history, nth).contested = Contested(longer)
      BY <2>6, <2>9, Zenon
    <3> QED
      BY <2>6, <2>7, <2>8, <3>1, Zenon DEF VerdictIsSound
  <2>11. Verdict(history, nth) \in Verdicts
    <3>1. Cardinality(Hosts) \in Nat
      BY FS_CardinalityType
    <3>2. Verdict(history, nth).hosts \in Nat /\ Verdict(history, nth).nth \in Nat
      BY <2>6, <2>7, <3>1
    <3>3. \E n, h, c : Verdict(history, nth) = [nth |-> n, hosts |-> h, contested |-> c]
      BY Zenon DEF Verdict
    <3>4. PICK n, h, c : Verdict(history, nth) = [nth |-> n, hosts |-> h, contested |-> c]
      BY <3>3
    <3>5. n \in Nat /\ h \in Nat /\ c \in BOOLEAN
      BY <2>9, <3>2, <3>4
    <3> QED
      BY <3>4, <3>5 DEF Verdicts
  <2>12. /\ recent' \in [Registrations -> Seq(Takeover)]
         /\ takeovers' \in [Registrations -> Seq(Takeover)]
         /\ verdicts' \in [Registrations -> SUBSET Verdicts]
    BY <1>3, <1>5, <1>7, <2>3, <2>11 DEF longer
  <2>13. ASSUME NEW q \in Registrations PROVE WatchIsSound(q)'
    <3>0. recent'[q] \in Seq(Takeover) /\ takeovers'[q] \in Seq(Takeover) /\ clock' = clock
      BY <1>1, <2>12
    <3>1. CASE q = r
      <4>1. recent'[q] = history /\ takeovers'[q] = longer
        BY <1>3, <1>5, <1>7, <3>1 DEF longer
      <4>2. Len(history) <= ChurnMemory
        BY <2>3
      <4> QED
        BY <2>3, <3>0, <4>1, <4>2, Zenon DEF WatchIsSound
    <3>2. CASE q # r
      <4>1. recent'[q] = known[q] /\ takeovers'[q] = takeovers[q]
        BY <1>3, <1>5, <1>7, <3>2
      <4> QED
        BY <1>4, <1>5, <3>0, <4>1, Zenon DEF WatchIsSound
    <3> QED
      BY <3>1, <3>2
  <2>14. ASSUME NEW q \in Registrations, NEW v \in verdicts'[q]
         PROVE  VerdictIsSound(v, takeovers'[q])
    <3>1. CASE q = r
      <4>1. verdicts'[q] = verdicts[r] \cup {Verdict(history, nth)} /\ takeovers'[q] = longer
        BY <1>3, <1>7, <3>1 DEF longer
      <4>2. CASE v = Verdict(history, nth)
        BY <2>10, <4>1, <4>2
      <4>3. CASE v \in verdicts[r]
        <5>1. VerdictIsSound(v, long)
          BY <1>4, <4>3
        <5>2. VerdictIsSound(v, longer)
          BY <2>1, <2>2, <5>1, VerdictStands DEF longer
        <5> QED
          BY <4>1, <5>2
      <4> QED
        BY <4>1, <4>2, <4>3
    <3>2. CASE q # r
      <4>1. verdicts'[q] = verdicts[q] /\ takeovers'[q] = takeovers[q]
        BY <1>3, <1>7, <3>2
      <4> QED
        BY <1>4, <4>1
    <3> QED
      BY <3>1, <3>2
  <2> QED
    BY <1>1, <1>3, <1>4, <2>12, <2>13, <2>14, Zenon DEF ChurnInv
<1> QED
  BY <1>2, <1>6, <1>7
\* The mark is never less than a conflict that was recorded.
LEMMA EscalateKeeps ==
    ASSUME ChurnInv, NEW r \in Registrations, NEW verdict \in verdicts[r], Escalate(r, verdict)
    PROVE  ChurnInv'
<1>1. /\ recent' = recent /\ clock' = clock /\ takeovers' = takeovers
      /\ verdicts' = [verdicts EXCEPT ![r] = verdicts[r] \ {verdict}]
  BY DEF Escalate
<1>2. \/ UNCHANGED <<conflict, marked>>
      \/ /\ conflict' = [conflict EXCEPT ![r] = HighWaterMark(r, verdict.hosts)]
         /\ marked' = [marked EXCEPT ![r] = marked[r] \cup {verdict.hosts}]
  BY DEF Escalate
<1>3. /\ conflict \in [Registrations -> 0 .. Cardinality(Hosts)]
      /\ verdicts \in [Registrations -> SUBSET Verdicts]
      /\ marked \in [Registrations -> SUBSET Nat]
      /\ \A q \in Registrations :
            (\A h \in marked[q] : h <= conflict[q]) /\ WatchIsSound(q)
      /\ \A q \in Registrations : \A v \in verdicts[q] : VerdictIsSound(v, takeovers[q])
  BY DEF ChurnInv
<1>4. \A q \in Registrations : verdicts'[q] \subseteq verdicts[q]
  BY <1>1, <1>3
<1>5. verdicts' \in [Registrations -> SUBSET Verdicts]
  BY <1>1, <1>3
<1>6. \A q \in Registrations : WatchIsSound(q)'
  BY <1>1, <1>3, Zenon DEF WatchIsSound
<1>7. /\ conflict' \in [Registrations -> 0 .. Cardinality(Hosts)]
      /\ marked' \in [Registrations -> SUBSET Nat]
      /\ \A q \in Registrations : \A h \in marked'[q] : h <= conflict'[q]
  <2>1. CASE UNCHANGED <<conflict, marked>>
    BY <1>3, <2>1
  <2>2. CASE /\ conflict' = [conflict EXCEPT ![r] = HighWaterMark(r, verdict.hosts)]
             /\ marked' = [marked EXCEPT ![r] = marked[r] \cup {verdict.hosts}]
    <3>0. Cardinality(Hosts) \in Nat
      BY FS_CardinalityType
    <3>1. verdict.hosts \in 0 .. Cardinality(Hosts) /\ conflict[r] \in 0 .. Cardinality(Hosts)
      BY <1>3 DEF VerdictIsSound
    <3> DEFINE mark == HighWaterMark(r, verdict.hosts)
    <3>2. /\ mark \in 0 .. Cardinality(Hosts) /\ verdict.hosts <= mark /\ conflict[r] <= mark
          /\ verdict.hosts \in Nat /\ conflict[r] \in Nat /\ mark \in Nat
      BY <3>0, <3>1 DEF HighWaterMark
    <3> HIDE DEF mark
    <3>3. /\ conflict' \in [Registrations -> 0 .. Cardinality(Hosts)]
          /\ marked' \in [Registrations -> SUBSET Nat]
          /\ \A q \in Registrations : q # r => conflict'[q] = conflict[q] /\ marked'[q] = marked[q]
          /\ conflict'[r] = mark /\ marked'[r] = marked[r] \cup {verdict.hosts}
      BY <1>3, <2>2, <3>2 DEF mark
    <3>4. ASSUME NEW h \in marked'[r] PROVE h <= mark
      <4>1. CASE h = verdict.hosts
        BY <3>2, <4>1
      <4>2. CASE h \in marked[r]
        <5>1. h \in Nat /\ h <= conflict[r]
          BY <1>3, <4>2
        <5> QED
          BY <3>2, <5>1
      <4> QED
        BY <3>3, <4>1, <4>2
    <3> QED
      BY <1>3, <3>3, <3>4, Zenon
  <2> QED
    BY <1>2, <2>1, <2>2
<1>8. \A q \in Registrations : \A v \in verdicts'[q] : VerdictIsSound(v, takeovers'[q])
  BY <1>1, <1>3, <1>4
<1>9. /\ clock \in 0 .. MaxTime /\ recent \in [Registrations -> Seq(Takeover)]
      /\ takeovers \in [Registrations -> Seq(Takeover)]
  BY DEF ChurnInv
<1> QED
  BY <1>1, <1>5, <1>6, <1>7, <1>8, <1>9, Zenon DEF ChurnInv

\* An operator withdraws the mark with everything it stands for.
LEMMA ClearKeeps ==
    ASSUME ChurnInv, NEW r \in Registrations, ClearSessionConflict(r)
    PROVE  ChurnInv'
<1>1. /\ recent' = recent /\ clock' = clock /\ takeovers' = takeovers /\ verdicts' = verdicts
      /\ conflict' = [conflict EXCEPT ![r] = 0] /\ marked' = [marked EXCEPT ![r] = {}]
  BY DEF ClearSessionConflict
<1>2. /\ conflict \in [Registrations -> 0 .. Cardinality(Hosts)] /\ Cardinality(Hosts) \in Nat
      /\ marked \in [Registrations -> SUBSET Nat]
      /\ \A q \in Registrations : \A h \in marked[q] : h <= conflict[q]
  BY FS_CardinalityType DEF ChurnInv
<1>3. /\ conflict' \in [Registrations -> 0 .. Cardinality(Hosts)]
      /\ marked' \in [Registrations -> SUBSET Nat]
      /\ \A q \in Registrations : \A h \in marked'[q] : h <= conflict'[q]
  BY <1>1, <1>2
<1>4. \A q \in Registrations : WatchIsSound(q)'
  BY <1>1, Zenon DEF ChurnInv, WatchIsSound
<1> QED
  BY <1>1, <1>3, <1>4, Zenon DEF ChurnInv

LEMMA ChurnTickKeeps ==
    ASSUME ChurnInv, ChurnTick
    PROVE  ChurnInv'
<1>1. /\ recent' = recent /\ takeovers' = takeovers /\ verdicts' = verdicts
      /\ conflict' = conflict /\ marked' = marked /\ clock' = clock + 1 /\ clock < MaxTime
  BY DEF ChurnTick
<1>2. clock \in Nat /\ clock' \in 0 .. MaxTime
  BY <1>1 DEF ChurnInv
<1>3. ASSUME NEW q \in Registrations PROVE WatchIsSound(q)'
  <2>1. /\ recent[q] \in Seq(Takeover) /\ takeovers[q] \in Seq(Takeover)
        /\ Len(recent[q]) <= ChurnMemory
        /\ Ends(recent[q], takeovers[q]) /\ Remembers(recent[q], takeovers[q], clock)
        /\ InOrder(takeovers[q], clock)
    BY Zenon DEF ChurnInv, WatchIsSound
  <2>2. Len(recent[q]) <= Len(takeovers[q])
    BY <2>1, Zenon DEF Ends
  <2>3. Remembers(recent[q], takeovers[q], clock + 1) /\ InOrder(takeovers[q], clock + 1)
    BY <1>2, <2>1, <2>2, LaterKeeps
  <2> QED
    BY <1>1, <2>1, <2>3, Zenon DEF WatchIsSound
<1> QED
  BY <1>1, <1>2, <1>3, Zenon DEF ChurnInv

LEMMA ChurnStarts == ChurnInit => ChurnInv
<1> SUFFICES ASSUME ChurnInit PROVE ChurnInv
  OBVIOUS
<1>1. /\ clock \in 0 .. MaxTime
      /\ recent \in [Registrations -> Seq(Takeover)]
      /\ takeovers \in [Registrations -> Seq(Takeover)]
  BY DEF ChurnInit
<1>2. conflict \in [Registrations -> 0 .. Cardinality(Hosts)]
  BY FS_CardinalityType DEF ChurnInit
<1>3. verdicts \in [Registrations -> SUBSET Verdicts] /\ marked \in [Registrations -> SUBSET Nat]
  BY DEF ChurnInit
<1>4. ASSUME NEW r \in Registrations PROVE WatchIsSound(r) /\ verdicts[r] = {} /\ marked[r] = {}
  <2>1. recent[r] = <<>> /\ takeovers[r] = <<>> /\ verdicts[r] = {} /\ marked[r] = {}
    BY DEF ChurnInit
  <2>2. Len(<<>>) = 0 /\ <<>> \in Seq(Takeover)
    OBVIOUS
  <2>3. Ends(<<>>, <<>>) /\ Remembers(<<>>, <<>>, clock) /\ InOrder(<<>>, clock)
    BY <2>2 DEF Ends, Remembers, InOrder
  <2> QED
    BY <2>1, <2>2, <2>3 DEF WatchIsSound
<1> QED
  BY <1>1, <1>2, <1>3, <1>4, Zenon DEF ChurnInv

\* Sweeping, forgetting what is out of the window and a bounded memory never hide a
\* contested identity nor invent one, and the mark, once written, never says fewer
\* hosts than a conflict it stands for (record, sweep, add, forgetBefore, verdict,
\* RecordSessionConflict, ClearSessionConflict): for any window, threshold and memory
\* that remembers at least a threshold of takeovers.
THEOREM ContestsAreAlwaysMarked == ChurnSpec => []ContestsAreMarked
<1>1. ChurnInv /\ [ChurnNext]_churnVars => ChurnInv'
  <2> SUFFICES ASSUME ChurnInv, [ChurnNext]_churnVars PROVE ChurnInv'
    OBVIOUS
  <2>1. ASSUME NEW r \in Registrations, NEW host \in Hosts, RecordTakeover(r, host) PROVE ChurnInv'
    BY <2>1, RecordKeeps
  <2>2. ASSUME NEW r \in Registrations, NEW verdict \in verdicts[r], Escalate(r, verdict)
        PROVE  ChurnInv'
    BY <2>2, EscalateKeeps
  <2>3. ASSUME NEW r \in Registrations, ClearSessionConflict(r) PROVE ChurnInv'
    BY <2>3, ClearKeeps
  <2>4. CASE ChurnTick
    BY <2>4, ChurnTickKeeps
  <2>5. CASE UNCHANGED churnVars
    BY <2>5, Zenon DEF ChurnInv, WatchIsSound, churnVars
  <2> QED
    BY <2>1, <2>2, <2>3, <2>4, <2>5, Zenon DEF ChurnNext
<1>2. ChurnInv => ContestsAreMarked
  <2> SUFFICES ASSUME ChurnInv PROVE ContestsAreMarked
    OBVIOUS
  <2>1. ChurnTypeOK
    BY Zenon DEF ChurnInv, ChurnTypeOK, WatchIsSound
  <2>2. ASSUME NEW r \in Registrations, NEW v \in verdicts[r]
        PROVE  v.contested = Contested(SubSeq(takeovers[r], 1, v.nth))
    BY Zenon DEF ChurnInv, VerdictIsSound
  <2>3. ASSUME NEW r \in Registrations, NEW hosts \in marked[r] PROVE conflict[r] >= hosts
    <3>1. conflict[r] \in 0 .. Cardinality(Hosts) /\ hosts \in Nat /\ hosts <= conflict[r]
      BY DEF ChurnInv
    <3> QED
      BY <3>1, FS_CardinalityType
  <2> QED
    BY <2>1, <2>2, <2>3, Zenon DEF ContestsAreMarked
<1> QED
  BY <1>1, <1>2, ChurnStarts, PTL DEF ChurnSpec

=============================================================================
