------------------------- MODULE IntegrationsProofs -------------------------
(***************************************************************************)
(* Whatever Integrations, Organizations, installations and requests there   *)
(* are: the theorems of Integrations and their proofs.                      *)
(***************************************************************************)
EXTENDS Integrations, FiniteSetTheorems, TLAPS

Credentials == [word : Numbers, bound : Ids \cup {None}, probed : BOOLEAN]
Looks == [provider : Served \cup {None}, config : Numbers, credential : Credentials,
          key : Keys \cup {None}]
Memories ==
    [op : {"idle", "verify", "judged", "redeemed", "bound", "connect", "reconnect", "delivery",
           "message", "run", "delete"},
     who : Operators \cup {None}, id : Ids \cup {None}, provider : Served \cup {None},
     key : Keys \cup {None}, word : Numbers, seen : Looks, recorded : BOOLEAN, opened : BOOLEAN,
     verdict : Verdicts, flow : Flows \cup {None}]
FlowRows == [state : {"unminted", "open", "expired", "gone"},
             by : Operators \cup {None}, provider : Served \cup {None}]

\* A row that an Integration may have.
RowIsSound(i, row) ==
    /\ row \in Rows
    /\ row.state = "live" => row.provider \in Served /\ row.org \in Orgs
    /\ row.key # None => row.state = "live"
    /\ row.grants => row.status = "verified"
    /\ row.credential # NoCredential => row.credential.probed /\ row.credential.bound = i

\* Where a request has got to: a callback is of a type that connects, and the
\* Integration it reconnects is of that type while it lasts.
Remembers(q) ==
    /\ q.op \in {"verify", "judged", "reconnect", "delivery", "message", "run", "delete"} => q.id \in Ids
    /\ q.op = "verify" => q.seen.provider \in Served
    /\ q.op \in {"verify", "judged", "redeemed", "bound", "connect", "reconnect", "delete"} => q.who \in Operators
    /\ q.op \in {"bound", "connect", "reconnect"} =>
            q.provider \in Served \cap {"slack", "github"} /\ q.key \in Keys
    /\ q.op = "reconnect" => /\ integration[q.id].state # "absent"
                             /\ integration[q.id].state = "live" =>
                                    integration[q.id].provider = q.provider

\* What a callback holds is a flow that is gone, and is what the flow said.
HoldsFlow(q, rows) ==
    q.flow # None => /\ rows[q.flow].state = "gone"
                     /\ rows[q.flow].by = q.who /\ rows[q.flow].provider = q.provider

StateTypeOK ==
    /\ TypeOK
    /\ request \in [Requests -> Memories]

RowsAreSound ==
    \A i \in Ids : RowIsSound(i, integration[i]) /\ (records[i] # {} => integration[i].state = "live")

RequestsRemember == \A r \in Requests : Remembers(request[r])

\* A flow is held by one callback.
FlowsAreHeld ==
    /\ \A r \in Requests : HoldsFlow(request[r], flow)
    /\ \A r, s \in Requests : request[r].flow = request[s].flow /\ request[r].flow # None => r = s

\* No two Integrations of a type own one installation.
OneOwner ==
    \A i, j \in Ids :
        /\ integration[i].state = "live" /\ integration[j].state = "live"
        /\ integration[i].provider = integration[j].provider
        /\ integration[i].key = integration[j].key /\ integration[i].key # None
        => i = j

IntegrationsInv == StateTypeOK /\ RowsAreSound /\ RequestsRemember /\ FlowsAreHeld /\ OneOwner

-----------------------------------------------------------------------------
(* The operators. *)

LEMMA CatalogFacts ==
    ASSUME NEW p \in Served
    PROVE  /\ Catalog[p].fields \in BOOLEAN /\ Catalog[p].webhook \in BOOLEAN
           /\ Catalog[p].secret \in BOOLEAN
           /\ Catalog[p].secret => Catalog[p].by = "probe"
           /\ Catalog[p].by = "probe" => p \in {"slack", "github", "prometheus", "loki", "tempo"}
           /\ Catalog[p].connect => p \in {"slack", "github"}
<1>1. p \in DOMAIN Catalog /\ CheckDefinition(Catalog[p])
  BY IntegrationsAssumption
<1>2. CASE p = "slack"
  <2>1. Catalog[p] = SlackDefinition
    BY <1>2 DEF Catalog
  <2> QED
    BY <1>2, <2>1 DEF SlackDefinition
<1>3. CASE p = "github"
  <2>1. Catalog[p] = GitHubDefinition
    BY <1>3 DEF Catalog
  <2> QED
    BY <1>3, <2>1 DEF GitHubDefinition
<1>4. CASE p = "prometheus"
  <2>1. Catalog[p] = PrometheusDefinition
    BY <1>4 DEF Catalog
  <2> QED
    BY <1>4, <2>1 DEF PrometheusDefinition
<1>5. CASE p = "loki"
  <2>1. Catalog[p] = LokiDefinition
    BY <1>5 DEF Catalog
  <2> QED
    BY <1>5, <2>1 DEF LokiDefinition, PrometheusDefinition
<1>6. CASE p = "tempo"
  <2>1. Catalog[p] = TempoDefinition
    BY <1>6 DEF Catalog
  <2> QED
    BY <1>6, <2>1 DEF TempoDefinition, PrometheusDefinition
<1>7. CASE p = "alertmanager"
  <2>1. Catalog[p] = AlertmanagerDefinition
    BY <1>7 DEF Catalog
  <2> QED
    BY <1>7, <2>1 DEF AlertmanagerDefinition
<1>8. CASE p = "generic_webhook"
  <2>1. Catalog[p] = GenericWebhookDefinition
    BY <1>8 DEF Catalog
  <2> QED
    BY <1>8, <2>1 DEF GenericWebhookDefinition, AlertmanagerDefinition
<1>9. CASE p = "kubernetes"
  <2>1. Catalog[p] = KubernetesDefinition
    BY <1>9 DEF Catalog
  <2> QED
    BY <1>9, <2>1 DEF KubernetesDefinition
<1> QED
  BY <1>1, <1>2, <1>3, <1>4, <1>5, <1>6, <1>7, <1>8, <1>9 DEF Catalog

\* What a provider answers is a Verification, with grants only if it succeeds.
LEMMA ProbeFacts ==
    ASSUME NEW p \in {"slack", "github", "prometheus", "loki", "tempo"}, NEW key, NEW v \in Probe(p, key)
    PROVE  v \in Verdicts
<1>1. Failed \in Verdicts
  BY DEF Failed, Verdicts
<1>2. CASE p = "slack"
  BY <1>2 DEF Probe, ProbeSlack
<1>3. CASE p = "github"
  BY <1>1, <1>3 DEF Probe, ProbeGitHub
<1>4. CASE p \in {"prometheus", "loki", "tempo"}
  BY <1>4 DEF Probe, ProbePrometheus, ProbeLoki, ProbeTempo
<1> QED
  BY <1>2, <1>3, <1>4

LEMMA VerdictFacts ==
    ASSUME NEW v \in Verdicts
    PROVE  /\ v.status \in {"verified", "failed"} /\ v.grants \in BOOLEAN
           /\ v.grants => v.status = "verified"
BY DEF Verdicts

LEMMA EvidenceFacts ==
    ASSUME NEW r \in Requests, request[r].seen.provider \in Served, NEW v \in Evidence(r)
    PROVE  v \in Verdicts
<1>1. request[r].seen.provider \in DOMAIN Catalog
  BY IntegrationsAssumption
<1>2. CASE request[r].seen.provider \in {"alertmanager", "generic_webhook"}
  BY <1>2 DEF Evidence, VerifyAlertmanager, VerifyGenericWebhook
<1>3. CASE request[r].seen.provider = "kubernetes"
  BY <1>3 DEF Evidence, VerifyKubernetes
<1>4. CASE request[r].seen.provider \in {"slack", "github", "prometheus", "loki", "tempo"}
  <2>1. v \in ProbeExisting(r)
    BY <1>4 DEF Evidence
  <2> QED
    <3>1. Failed \in Verdicts
      BY DEF Failed, Verdicts
    <3>2. v \in Probe(request[r].seen.provider, request[r].seen.key) \/ v = Failed
      BY <2>1 DEF ProbeExisting
    <3> QED
      BY <1>4, <3>1, <3>2, ProbeFacts
<1> QED
  BY <1>1, <1>2, <1>3, <1>4 DEF Catalog

\* A probe that accepts a credential is noted with it.
LEMMA ProbedFacts ==
    ASSUME NEW c \in Credentials
    PROVE  /\ [c EXCEPT !.probed = TRUE] \in Credentials
           /\ [c EXCEPT !.probed = TRUE].probed
           /\ [c EXCEPT !.probed = TRUE].bound = c.bound
BY DEF Credentials

\* Recording a Verification leaves the rest of a row alone.
LEMMA VerifiedFacts ==
    ASSUME NEW i \in Ids, NEW row, RowIsSound(i, row), NEW v \in Verdicts, NEW seen
    PROVE  /\ RowIsSound(i, Verified(row, v, seen))
           /\ Verified(row, v, seen).state = row.state
           /\ Verified(row, v, seen).provider = row.provider
           /\ Verified(row, v, seen).key = row.key
           /\ Verified(row, v, seen).org = row.org
<1>1. PICK b \in BOOLEAN : b = (seen = Seen(row))
  OBVIOUS
<1>2. Verified(row, v, seen) = [row EXCEPT !.status = v.status, !.grants = v.grants, !.current = b]
  BY <1>1 DEF Verified
<1> QED
  BY <1>2, VerdictFacts DEF RowIsSound, Rows

\* So does replacing a credential, but for the installation.
LEMMA ReplacedFacts ==
    ASSUME NEW i \in Ids, integration[i] \in Rows, NEW o, NEW config, NEW c, NEW v, NEW k,
           ReplaceIntegrationCredential(o, i, config, c, v, k)
    PROVE  \E row : integration' = [integration EXCEPT ![i] = row] /\ row.org = integration[i].org
<1> DEFINE given == [integration[i] EXCEPT !.config = config, !.credential = c]
           recorded == RecordInstallation(given, k)
           row == VerifiedNow(recorded, v)
<1>1. integration' = [integration EXCEPT ![i] = row]
  BY DEF ReplaceIntegrationCredential
<1>2. row.org = integration[i].org
  <2>1. recorded = given \/ recorded = [given EXCEPT !.key = k]
    BY DEF RecordInstallation
  <2> HIDE DEF recorded
  <2>2. row.org = recorded.org
    <3>1. CASE recorded = given
      BY <3>1 DEF VerifiedNow, Verified, Rows
    <3>2. CASE recorded = [given EXCEPT !.key = k]
      BY <3>2 DEF VerifiedNow, Verified, Rows
    <3> QED
      BY <2>1, <3>1, <3>2
  <2> QED
    BY <2>1, <2>2 DEF Rows
<1> QED
  BY <1>1, <1>2

LEMMA NumberFacts == fresh \in Numbers => fresh \in Nat /\ fresh <= MaxFresh /\ MaxFresh \in Nat
BY IntegrationsAssumption DEF Numbers

-----------------------------------------------------------------------------
(* The parts of a step. *)

\* A request takes note of something, or ends.
LEMMA MemoryStep ==
    ASSUME IntegrationsInv, NEW r \in Requests, NEW q \in Memories, Remembers(q),
           request' = [request EXCEPT ![r] = q],
           UNCHANGED <<integration, records>>, fresh' \in Numbers, actor' \in Operators \cup {None},
           flow' \in [Flows -> FlowRows],
           \A f \in Flows : flow[f].state = "gone" => flow'[f] = flow[f],
           HoldsFlow(q, flow'),
           q.flow # None => \A x \in Requests \ {r} : request[x].flow # q.flow
    PROVE  IntegrationsInv'
<1>1. /\ request \in [Requests -> Memories] /\ request' \in [Requests -> Memories]
      /\ \A x \in Requests : request'[x] = IF x = r THEN q ELSE request[x]
  BY DEF IntegrationsInv, StateTypeOK
<1>2. StateTypeOK'
  <2>1. \A x \in Requests : /\ request'[x].seen.config \in Numbers
                            /\ request'[x].who \in Operators \cup {None}
                            /\ request'[x].id \in Ids \cup {None}
    BY <1>1 DEF Memories, Looks
  <2> QED
    BY <1>1, <2>1 DEF IntegrationsInv, StateTypeOK, TypeOK, FlowRows
<1>3. RequestsRemember'
  BY <1>1 DEF IntegrationsInv, RequestsRemember, Remembers
<1>4. RowsAreSound' /\ OneOwner'
  BY DEF IntegrationsInv, RowsAreSound, OneOwner
<1>5. FlowsAreHeld'
  <2>1. ASSUME NEW x \in Requests PROVE HoldsFlow(request'[x], flow')
    <3>1. CASE x = r
      BY <1>1, <3>1
    <3>2. CASE x # r
      <4>1. /\ request'[x] = request[x] /\ HoldsFlow(request[x], flow)
            /\ request[x].flow \in Flows \cup {None}
        BY <1>1, <3>2 DEF IntegrationsInv, FlowsAreHeld, Memories
      <4> QED
        BY <4>1 DEF HoldsFlow
    <3> QED
      BY <3>1, <3>2
  <2>2. ASSUME NEW x \in Requests, NEW y \in Requests, x # y,
               request'[x].flow = request'[y].flow, request'[x].flow # None
        PROVE  FALSE
    BY <1>1, <2>2 DEF IntegrationsInv, FlowsAreHeld
  <2> QED
    BY <2>1, <2>2 DEF FlowsAreHeld
<1> QED
  BY <1>2, <1>3, <1>4, <1>5 DEF IntegrationsInv

\* It is the callback of the same flow, or of none.
LEMMA NoteStep ==
    ASSUME IntegrationsInv, NEW r \in Requests, NEW q \in Memories, Remembers(q),
           request' = [request EXCEPT ![r] = q],
           \/ q.flow = None
           \/ /\ q.flow = request[r].flow /\ q.who = request[r].who
              /\ q.provider = request[r].provider,
           UNCHANGED <<integration, records, flow>>, fresh' \in Numbers,
           actor' \in Operators \cup {None}
    PROVE  IntegrationsInv'
<1>1. flow \in [Flows -> FlowRows] /\ FlowsAreHeld
  BY DEF IntegrationsInv, StateTypeOK, TypeOK, FlowRows
<1>2. HoldsFlow(q, flow) /\ (q.flow # None => \A x \in Requests \ {r} : request[x].flow # q.flow)
  BY <1>1 DEF FlowsAreHeld, HoldsFlow
<1> QED
  BY <1>1, <1>2, MemoryStep

LEMMA IdleIsSound == Idle \in Memories /\ Remembers(Idle) /\ Idle.flow = None /\ Idle.op = "idle"
<1>1. 0 \in Numbers /\ Failed \in Verdicts
  BY IntegrationsAssumption DEF Numbers, Failed, Verdicts
<1>2. Seen(Absent) \in Looks
  BY <1>1 DEF Seen, Absent, Looks, NoCredential, Credentials
<1> QED
  BY <1>1, <1>2 DEF Idle, Memories, Remembers

LEMMA SeenFacts ==
    ASSUME NEW i \in Ids, NEW row, RowIsSound(i, row)
    PROVE  Seen(row) \in Looks /\ (row.state = "live" => Seen(row).provider \in Served)
BY DEF RowIsSound, Rows, Seen, Looks, Credentials

\* A row is inserted, changed or removed, by a request that ends or by one that
\* is over at once.
LEMMA RowStep ==
    ASSUME IntegrationsInv, NEW i \in Ids, NEW row, RowIsSound(i, row),
           integration' = [integration EXCEPT ![i] = row],
           \/ row.state = "live" /\ UNCHANGED records
           \/ row.state = "gone" /\ records' = [records EXCEPT ![i] = {}],
           \/ integration[i].state = "absent"
           \/ integration[i].state = "live" /\ row.provider = integration[i].provider
           \/ integration[i].state = "live" /\ row.state = "gone",
           \/ row.key = None
           \/ integration[i].state = "live" /\ row.key = integration[i].key
           \/ ~InstallationTaken(row.provider, row.key, i),
           UNCHANGED flow, fresh' \in Numbers, actor' \in Operators \cup {None},
           \/ UNCHANGED request
           \/ \E r \in Requests : request' = [request EXCEPT ![r] = Idle]
    PROVE  IntegrationsInv'
<1>1. /\ integration \in [Ids -> Rows] /\ request \in [Requests -> Memories]
      /\ StateTypeOK /\ RowsAreSound /\ RequestsRemember /\ OneOwner /\ FlowsAreHeld
      /\ records \in [Ids -> SUBSET (Protected \cup Retired)]
  BY DEF IntegrationsInv, StateTypeOK, TypeOK
<1>2. /\ integration' \in [Ids -> Rows] /\ integration'[i] = row
      /\ \A j \in Ids \ {i} : integration'[j] = integration[j] /\ records'[j] = records[j]
      /\ records' \in [Ids -> SUBSET (Protected \cup Retired)]
      /\ records'[i] # {} => row.state = "live"
  BY <1>1 DEF RowIsSound
<1>3. /\ request' \in [Requests -> Memories]
      /\ \A x \in Requests : request'[x] = request[x] \/ request'[x] = Idle
  BY <1>1, IdleIsSound
<1>4. StateTypeOK'
  <2>1. \A x \in Requests : /\ request'[x].seen.config \in Numbers
                            /\ request'[x].who \in Operators \cup {None}
                            /\ request'[x].id \in Ids \cup {None}
    BY <1>3 DEF Memories, Looks
  <2> QED
    BY <1>1, <1>2, <1>3, <2>1 DEF StateTypeOK, TypeOK
<1>5. RowsAreSound'
  BY <1>1, <1>2 DEF RowsAreSound, RowIsSound
<1>6. RequestsRemember'
  <2> SUFFICES ASSUME NEW x \in Requests PROVE Remembers(request[x])'
    BY DEF RequestsRemember
  <2>1. Remembers(request'[x])
    BY <1>1, <1>3, IdleIsSound DEF RequestsRemember
  <2>2. ASSUME request'[x].op = "reconnect"
        PROVE  /\ integration'[request'[x].id].state # "absent"
               /\ integration'[request'[x].id].state = "live" =>
                        integration'[request'[x].id].provider = request'[x].provider
    <3>1. /\ request'[x].id \in Ids /\ integration[request'[x].id].state # "absent"
          /\ integration[request'[x].id].state = "live" =>
                    integration[request'[x].id].provider = request'[x].provider
      BY <2>1, <2>2 DEF Remembers
    <3>2. CASE request'[x].id = i
      BY <1>2, <3>1, <3>2
    <3>3. CASE request'[x].id # i
      BY <1>2, <3>1, <3>3
    <3> QED
      BY <3>2, <3>3
  <2> QED
    BY <2>1, <2>2 DEF Remembers
<1>7. OneOwner'
  <2> SUFFICES ASSUME NEW j \in Ids, NEW k \in Ids, j # k,
                      integration'[j].state = "live", integration'[k].state = "live",
                      integration'[j].provider = integration'[k].provider,
                      integration'[j].key = integration'[k].key, integration'[j].key # None
               PROVE  FALSE
    BY DEF OneOwner
  <2>1. CASE j # i /\ k # i
    BY <1>1, <1>2, <2>1 DEF OneOwner
  <2>2. ASSUME NEW m \in Ids \ {i}, integration[m].state = "live", row.state = "live",
               integration[m].provider = row.provider, integration[m].key = row.key, row.key # None
        PROVE  FALSE
    BY <1>1, <2>2 DEF OneOwner, InstallationTaken
  <2> QED
    BY <1>2, <2>1, <2>2
<1>8. FlowsAreHeld'
  <2>1. /\ \A x \in Requests : HoldsFlow(request'[x], flow')
        /\ \A x \in Requests : request'[x].flow # None => request'[x] = request[x]
    BY <1>1, <1>3, IdleIsSound DEF FlowsAreHeld, HoldsFlow
  <2> QED
    BY <1>1, <2>1 DEF FlowsAreHeld
<1> QED
  BY <1>4, <1>5, <1>6, <1>7, <1>8 DEF IntegrationsInv

-----------------------------------------------------------------------------
(* Each action. *)

LEMMA IntegrationsInvInit == Init => IntegrationsInv
<1> SUFFICES ASSUME Init PROVE IntegrationsInv
  OBVIOUS
<1> USE IntegrationsAssumption DEF Init
<1>1. /\ 0 \in Numbers /\ Idle \in Memories /\ Remembers(Idle)
      /\ Idle.seen.config = 0 /\ Idle.who = None /\ Idle.id = None
  BY IdleIsSound DEF Numbers, Idle, Seen, Absent
<1>2. \A i \in Ids : RowIsSound(i, Absent)
  BY <1>1 DEF RowIsSound, Rows, Absent, NoCredential
<1>3. StateTypeOK
  BY <1>1, <1>2 DEF StateTypeOK, TypeOK, RowIsSound, NoFlow, Protected
<1>4. FlowsAreHeld
  BY IdleIsSound DEF FlowsAreHeld, HoldsFlow
<1> QED
  BY <1>1, <1>2, <1>3, <1>4 DEF IntegrationsInv, RowsAreSound, RequestsRemember, OneOwner, Absent

\* What a request learns before it writes.
LEMMA RequestsKeepInv ==
    ASSUME IntegrationsInv, NEW r \in Requests, actor' \in Operators \cup {None},
           \/ \E o \in Operators, i \in Ids : ReadForVerify(r, o, i) \/ CountDependents(r, o, i)
           \/ \E i \in Ids : StartRun(r, i) \/ \E secret \in 1 .. MaxFresh : Authenticate(r, i, secret)
           \/ \E k \in Keys : HandleSlackEvents(r, k)
           \/ RecordCredentialUnseal(r) \/ OpenCredential(r) \/ Judge(r) \/ Abandon(r)
    PROVE  IntegrationsInv'
<1>0. /\ StateTypeOK /\ TypeOK /\ fresh \in Numbers
      /\ \A i \in Ids : RowIsSound(i, integration[i])
      /\ request[r] \in Memories /\ Remembers(request[r])
      /\ Idle \in Memories /\ Remembers(Idle) /\ Idle.flow = None
  BY IdleIsSound DEF IntegrationsInv, StateTypeOK, TypeOK, RowsAreSound, RequestsRemember
<1>1. ASSUME NEW op \in {"delivery", "message"}, NEW i \in Ids,
             request' = [request EXCEPT ![r] = [Idle EXCEPT !.op = op, !.id = i]],
             UNCHANGED <<integration, records, flow, fresh>>
      PROVE  IntegrationsInv'
  <2> DEFINE q == [Idle EXCEPT !.op = op, !.id = i]
  <2>1. /\ q \in Memories /\ q.flow = None /\ q.op = op /\ q.id = i
    BY <1>0 DEF Memories, Idle
  <2> HIDE DEF q
  <2>2. Remembers(q)
    BY <2>1 DEF Remembers
  <2> USE DEF q
  <2> QED
    BY <1>0, <1>1, <2>1, <2>2, NoteStep
<1>2. ASSUME NEW o \in Operators, NEW i \in Ids, ReadForVerify(r, o, i) PROVE IntegrationsInv'
  <2> DEFINE q == [Idle EXCEPT !.op = "verify", !.who = o, !.id = i, !.seen = Seen(integration[i])]
  <2>1. Seen(integration[i]) \in Looks /\ Seen(integration[i]).provider \in Served
    BY <1>0, <1>2, SeenFacts DEF ReadForVerify, Addressed
  <2>2. /\ q \in Memories /\ q.flow = None /\ q.op = "verify" /\ q.id = i /\ q.who = o
        /\ q.seen = Seen(integration[i])
    BY <1>0, <2>1 DEF Memories, Idle
  <2> HIDE DEF q
  <2>3. Remembers(q)
    BY <2>2, <2>1 DEF Remembers
  <2> USE DEF q
  <2> QED
    BY <1>0, <1>2, <2>2, <2>3, NoteStep DEF ReadForVerify
<1>3. ASSUME NEW o \in Operators, NEW i \in Ids, CountDependents(r, o, i) PROVE IntegrationsInv'
  <2> DEFINE q == [Idle EXCEPT !.op = "delete", !.who = o, !.id = i]
  <2>1. /\ q \in Memories /\ q.flow = None /\ q.op = "delete" /\ q.id = i /\ q.who = o
    BY <1>0 DEF Memories, Idle
  <2> HIDE DEF q
  <2>2. Remembers(q)
    BY <2>1 DEF Remembers
  <2> USE DEF q
  <2> QED
    BY <1>0, <1>3, <2>1, <2>2, NoteStep DEF CountDependents
<1>4. ASSUME NEW i \in Ids, StartRun(r, i) PROVE IntegrationsInv'
  <2> DEFINE q == [Idle EXCEPT !.op = "run", !.id = i, !.seen = Seen(integration[i])]
  <2>1. Seen(integration[i]) \in Looks
    BY <1>0, SeenFacts
  <2>2. /\ q \in Memories /\ q.flow = None /\ q.op = "run" /\ q.id = i
    BY <1>0, <2>1 DEF Memories, Idle
  <2> HIDE DEF q
  <2>3. Remembers(q)
    BY <2>2, <2>1 DEF Remembers
  <2> USE DEF q
  <2> QED
    BY <1>0, <1>4, <2>2, <2>3, NoteStep DEF StartRun
<1>6. ASSUME NEW i \in Ids, NEW secret, Authenticate(r, i, secret) PROVE IntegrationsInv'
  BY <1>1, <1>6 DEF Authenticate
<1>7. ASSUME NEW k \in Keys, HandleSlackEvents(r, k) PROVE IntegrationsInv'
  BY <1>1, <1>7 DEF HandleSlackEvents, OwnerOf
<1>8. ASSUME RecordCredentialUnseal(r) PROVE IntegrationsInv'
  <2> DEFINE q == [request[r] EXCEPT !.recorded = TRUE]
  <2>1. /\ q \in Memories /\ q.recorded /\ q.op = request[r].op /\ q.id = request[r].id
        /\ q.who = request[r].who /\ q.seen = request[r].seen /\ q.flow = request[r].flow
        /\ q.provider = request[r].provider /\ q.key = request[r].key
    BY <1>0, ZenonT(60) DEF Memories
  <2> HIDE DEF q
  <2>2. Remembers(q)
    BY <1>0, <2>1 DEF Remembers
  <2> USE DEF q
  <2> QED
    BY <1>0, <1>8, <2>1, <2>2, NoteStep DEF RecordCredentialUnseal
<1>9. ASSUME OpenCredential(r) PROVE IntegrationsInv'
  <2> DEFINE q == [request[r] EXCEPT !.opened = TRUE]
  <2>1. /\ q \in Memories /\ q.op = request[r].op /\ q.id = request[r].id
        /\ q.who = request[r].who /\ q.seen = request[r].seen /\ q.flow = request[r].flow
        /\ q.provider = request[r].provider /\ q.key = request[r].key
    BY <1>0, ZenonT(60) DEF Memories
  <2> HIDE DEF q
  <2>2. Remembers(q)
    BY <1>0, <2>1 DEF Remembers
  <2> USE DEF q
  <2> QED
    BY <1>0, <1>9, <2>1, <2>2, NoteStep DEF OpenCredential
<1>11. ASSUME Judge(r) PROVE IntegrationsInv'
  <2>1. PICK v \in Evidence(r) : request' = [request EXCEPT ![r].op = "judged", ![r].verdict = v]
    BY <1>11 DEF Judge
  <2>2. request[r].op = "verify" /\ UNCHANGED <<integration, records, flow, fresh>>
    BY <1>11 DEF Judge
  <2>3. v \in Verdicts
    BY <1>0, <2>2, EvidenceFacts DEF Remembers
  <2> DEFINE q == [request[r] EXCEPT !.op = "judged", !.verdict = v]
  <2>4. request' = [request EXCEPT ![r] = q]
    BY <1>0, <2>1 DEF StateTypeOK
  <2>5. /\ q \in Memories /\ q.op = "judged" /\ q.id = request[r].id
        /\ q.who = request[r].who /\ q.flow = request[r].flow /\ q.provider = request[r].provider
    BY <1>0, <2>3, ZenonT(60) DEF Memories
  <2> HIDE DEF q
  <2>6. Remembers(q)
    BY <1>0, <2>2, <2>5 DEF Remembers
  <2> QED
    BY <1>0, <2>2, <2>4, <2>5, <2>6, NoteStep
<1>10. ASSUME Abandon(r) PROVE IntegrationsInv'
  BY <1>0, <1>10, NoteStep DEF Abandon, Done
<1> QED
  BY <1>2, <1>3, <1>4, <1>6, <1>7, <1>8, <1>9, <1>10, <1>11

\* The connect flow, until its callback knows the Integration.
LEMMA ConnectKeepsInv ==
    ASSUME IntegrationsInv, actor' \in Operators \cup {None},
           \/ \E f \in Flows, o \in Operators, p \in Served : StartConnect(f, o, p)
           \/ \E f \in Flows : Expire(f)
           \/ \E r \in Requests :
                \/ \E f \in Flows, o \in Operators : RedeemConnectFlow(r, o, f)
                \/ \E k \in Keys : Redeem(r, k)
                \/ FindInstallation(r)
                \/ RecordDelivery(r) \/ AcceptSlackMessage(r) \/ RecordToolRun(r)
    PROVE  IntegrationsInv'
<1>0. /\ StateTypeOK /\ TypeOK /\ fresh \in Numbers
      /\ \A i \in Ids : RowIsSound(i, integration[i])
      /\ flow \in [Flows -> FlowRows] /\ FlowsAreHeld
      /\ request \in [Requests -> Memories] /\ RequestsRemember
      /\ Idle \in Memories /\ Remembers(Idle) /\ Idle.flow = None
  BY IdleIsSound DEF IntegrationsInv, StateTypeOK, TypeOK, RowsAreSound, FlowRows
<1>1. ASSUME UNCHANGED <<integration, records, request, fresh>>, flow' \in [Flows -> FlowRows],
             \A f \in Flows : flow[f].state = "gone" => flow'[f] = flow[f]
      PROVE  IntegrationsInv'
  <2>1. FlowsAreHeld'
    <3>1. ASSUME NEW x \in Requests PROVE HoldsFlow(request'[x], flow')
      <4>1. /\ request'[x] = request[x] /\ HoldsFlow(request[x], flow)
            /\ request[x].flow \in Flows \cup {None}
        BY <1>0, <1>1 DEF FlowsAreHeld, Memories
      <4> QED
        BY <1>1, <4>1 DEF HoldsFlow
    <3> QED
      BY <1>0, <1>1, <3>1 DEF FlowsAreHeld
  <2>2. StateTypeOK'
    BY <1>0, <1>1 DEF StateTypeOK, TypeOK, FlowRows
  <2>3. RowsAreSound' /\ OneOwner' /\ RequestsRemember'
    BY <1>0, <1>1 DEF IntegrationsInv, RowsAreSound, RequestsRemember, Remembers, OneOwner
  <2> QED
    BY <2>1, <2>2, <2>3 DEF IntegrationsInv
<1>2. ASSUME NEW f \in Flows, NEW o \in Operators, NEW p \in Served, StartConnect(f, o, p)
      PROVE  IntegrationsInv'
  <2>1. /\ flow' \in [Flows -> FlowRows]
        /\ \A g \in Flows : flow[g].state = "gone" => flow'[g] = flow[g]
    BY <1>0, <1>2 DEF StartConnect, StartConnectFlow, NoFlow, FlowRows
  <2> QED
    BY <1>1, <1>2, <2>1 DEF StartConnect, StartConnectFlow
<1>3. ASSUME NEW f \in Flows, Expire(f) PROVE IntegrationsInv'
  <2>1. /\ flow' \in [Flows -> FlowRows]
        /\ \A g \in Flows : flow[g].state = "gone" => flow'[g] = flow[g]
    BY <1>0, <1>3 DEF Expire, FlowRows
  <2> QED
    BY <1>1, <1>3, <2>1 DEF Expire
<1>4. ASSUME NEW r \in Requests, NEW f \in Flows, NEW o \in Operators, RedeemConnectFlow(r, o, f)
      PROVE  IntegrationsInv'
  <2> DEFINE redeemed == [Idle EXCEPT !.op = "redeemed", !.who = o, !.provider = flow[f].provider,
                                      !.flow = f]
  <2>1. /\ flow[f].state = "open" /\ flow' = [flow EXCEPT ![f].state = "gone"]
        /\ UNCHANGED <<integration, records, fresh>>
    BY <1>4 DEF RedeemConnectFlow
  <2>2. \/ request' = [request EXCEPT ![r] = Idle]
        \/ request' = [request EXCEPT ![r] = redeemed] /\ flow[f].by = o
    BY <1>4 DEF RedeemConnectFlow, Redeemed
  <2>3. /\ flow' \in [Flows -> FlowRows]
        /\ \A g \in Flows : flow[g].state = "gone" => flow'[g] = flow[g]
        /\ flow'[f].state = "gone" /\ flow'[f].by = flow[f].by /\ flow'[f].provider = flow[f].provider
    BY <1>0, <2>1 DEF FlowRows
  <2>4. CASE request' = [request EXCEPT ![r] = Idle]
    <3>1. HoldsFlow(Idle, flow')
      BY <1>0 DEF HoldsFlow
    <3> QED
      BY <1>0, <2>1, <2>3, <2>4, <3>1, MemoryStep
  <2>5. CASE request' = [request EXCEPT ![r] = redeemed] /\ flow[f].by = o
    <3>1. /\ redeemed \in Memories /\ redeemed.flow = f /\ redeemed.op = "redeemed"
          /\ redeemed.who = o /\ redeemed.provider = flow[f].provider
      BY <1>0 DEF Idle, Memories, FlowRows
    <3> HIDE DEF redeemed
    <3>2. Remembers(redeemed)
      BY <3>1 DEF Remembers
    <3>3. HoldsFlow(redeemed, flow')
      BY <2>3, <2>5, <3>1 DEF HoldsFlow
    <3>4. \A x \in Requests \ {r} : request[x].flow # f
      BY <1>0, <2>1, IntegrationsAssumption DEF FlowsAreHeld, HoldsFlow
    <3> QED
      BY <1>0, <2>1, <2>3, <2>5, <3>1, <3>2, <3>3, <3>4, MemoryStep
  <2> QED
    BY <2>2, <2>4, <2>5
<1>5. ASSUME NEW r \in Requests, NEW k \in Keys, Redeem(r, k) PROVE IntegrationsInv'
  <2>0. request[r] \in Memories /\ Remembers(request[r]) /\ request[r].op = "redeemed"
    BY <1>0, <1>5 DEF Redeem, RequestsRemember
  <2>1. CASE RedeemSlack(r, k)
    <3> DEFINE q == [request[r] EXCEPT !.op = "bound", !.key = k, !.word = fresh + 1]
    <3>1. fresh + 1 \in Numbers /\ fresh' \in Numbers
      BY <1>0, <2>1, NumberFacts DEF RedeemSlack, Make, Numbers
    <3>2. request[r].provider = "slack" /\ "slack" \in Served
      BY <2>0, <2>1, IntegrationsAssumption DEF Memories, RedeemSlack, Catalog
    <3>3. /\ q \in Memories /\ q.op = "bound" /\ q.key = k /\ q.who = request[r].who
          /\ q.provider = "slack" /\ q.flow = request[r].flow
      BY <2>0, <3>1, <3>2 DEF Memories
    <3> HIDE DEF q
    <3>4. Remembers(q)
      BY <2>0, <3>2, <3>3 DEF Remembers
    <3> USE DEF q
    <3> QED
      BY <1>0, <1>5, <2>1, <3>1, <3>2, <3>3, <3>4, NoteStep DEF Redeem, RedeemSlack
  <2>2. CASE RedeemGitHub(r, k)
    <3> DEFINE q == [request[r] EXCEPT !.op = "bound", !.key = k]
    <3>1. request[r].provider = "github" /\ "github" \in Served
      BY <2>0, <2>2, IntegrationsAssumption DEF Memories, RedeemGitHub, Catalog
    <3>2. /\ q \in Memories /\ q.op = "bound" /\ q.key = k /\ q.who = request[r].who
          /\ q.provider = "github" /\ q.flow = request[r].flow
      BY <2>0, <3>1 DEF Memories
    <3> HIDE DEF q
    <3>3. Remembers(q)
      BY <2>0, <3>1, <3>2 DEF Remembers
    <3> USE DEF q
    <3> QED
      BY <1>0, <1>5, <2>2, <3>1, <3>2, <3>3, NoteStep DEF Redeem, RedeemGitHub
  <2> QED
    BY <1>5, <2>1, <2>2 DEF Redeem
<1>6. ASSUME NEW r \in Requests, FindInstallation(r) PROVE IntegrationsInv'
  <2>0. request[r] \in Memories /\ Remembers(request[r]) /\ request[r].op = "bound"
    BY <1>0, <1>6 DEF FindInstallation, RequestsRemember
  <2> DEFINE connect == [request[r] EXCEPT !.op = "connect"]
             Found(op, i) == [request[r] EXCEPT !.op = op, !.id = i, !.seen = Seen(integration[i])]
  <2>1. /\ connect \in Memories /\ Remembers(connect)
        /\ connect.flow = request[r].flow /\ connect.who = request[r].who
        /\ connect.provider = request[r].provider
    BY <2>0 DEF Memories, Remembers
  <2>2. ASSUME NEW i \in OwnerOf(request[r].provider, request[r].key),
               NEW op \in {"verify", "reconnect"}
        PROVE  /\ Found(op, i) \in Memories /\ Remembers(Found(op, i))
               /\ Found(op, i).flow = request[r].flow /\ Found(op, i).who = request[r].who
               /\ Found(op, i).provider = request[r].provider
    <3>1. /\ i \in Ids /\ integration[i].state = "live"
          /\ integration[i].provider = request[r].provider
      BY <2>2 DEF OwnerOf
    <3>2. Seen(integration[i]) \in Looks /\ Seen(integration[i]).provider \in Served
      BY <1>0, <3>1, SeenFacts
    <3>3. /\ Found(op, i) \in Memories /\ Found(op, i).op = op /\ Found(op, i).id = i
          /\ Found(op, i).seen = Seen(integration[i]) /\ Found(op, i).who = request[r].who
          /\ Found(op, i).provider = request[r].provider /\ Found(op, i).key = request[r].key
          /\ Found(op, i).flow = request[r].flow
      BY <2>0, <3>1, <3>2 DEF Memories
    <3> HIDE DEF Found
    <3> QED
      BY <2>0, <3>1, <3>2, <3>3 DEF Remembers
  <2>3. \/ request' = [request EXCEPT ![r] = connect]
        \/ request' = [request EXCEPT ![r] = Idle]
        \/ \E i \in OwnerOf(request[r].provider, request[r].key), op \in {"verify", "reconnect"} :
                request' = [request EXCEPT ![r] = Found(op, i)]
    BY <1>6 DEF FindInstallation
  <2>4. UNCHANGED <<integration, records, flow, fresh>>
    BY <1>6 DEF FindInstallation
  <2> HIDE DEF Found, connect
  <2> QED
    BY <1>0, <2>1, <2>2, <2>3, <2>4, NoteStep
\* A row that names the Integration, and the request ends or goes on.
<1>7. ASSUME NEW r \in Requests, NEW kinds \in SUBSET (Protected \cup Retired), request[r].id \in Ids,
             records' = RecordsOf(request[r].id, kinds),
             request' = [request EXCEPT ![r] = Idle] \/ UNCHANGED request,
             UNCHANGED <<integration, flow, fresh>>
      PROVE  IntegrationsInv'
  <2>1. /\ records' \in [Ids -> SUBSET (Protected \cup Retired)]
        /\ \A i \in Ids : records'[i] # {} => records[i] # {} \/ integration[i].state = "live"
    BY <1>0, <1>7 DEF TypeOK, RecordsOf
  <2>2. /\ request' \in [Requests -> Memories]
        /\ \A x \in Requests : request'[x] = request[x] \/ request'[x] = Idle
    BY <1>0, <1>7
  <2>3. StateTypeOK'
    <3>1. \A x \in Requests : /\ request'[x].seen.config \in Numbers
                              /\ request'[x].who \in Operators \cup {None}
                              /\ request'[x].id \in Ids \cup {None}
      BY <2>2 DEF Memories, Looks
    <3> QED
      BY <1>0, <1>7, <2>1, <2>2, <3>1 DEF StateTypeOK, TypeOK
  <2>4. RowsAreSound' /\ OneOwner'
    BY <1>7, <2>1 DEF IntegrationsInv, RowsAreSound, OneOwner
  <2>5. RequestsRemember'
    BY <1>0, <1>7, <2>2 DEF RequestsRemember, Remembers
  <2>6. FlowsAreHeld'
    <3>1. \A x \in Requests : HoldsFlow(request'[x], flow)
      BY <1>0, <2>2 DEF FlowsAreHeld, HoldsFlow
    <3>2. \A x \in Requests : request'[x].flow # None => request'[x] = request[x]
      BY <1>0, <2>2
    <3> QED
      BY <1>0, <1>7, <3>1, <3>2 DEF FlowsAreHeld
  <2> QED
    BY <2>3, <2>4, <2>5, <2>6 DEF IntegrationsInv
<1>8. ASSUME NEW r \in Requests, RecordDelivery(r) \/ AcceptSlackMessage(r) \/ RecordToolRun(r)
      PROVE  IntegrationsInv'
  <2>1. request[r].id \in Ids
    BY <1>0, <1>8 DEF RecordDelivery, AcceptSlackMessage, RecordToolRun, RequestsRemember, Remembers
  <2>2. {{"delivery"}, {"toolrun"}, {"delivery", "conversation", "message"}} \subseteq
            SUBSET (Protected \cup Retired)
    BY DEF Protected, Counted, Retired
  <2> QED
    BY <1>7, <1>8, <2>1, <2>2 DEF RecordDelivery, AcceptSlackMessage, RecordToolRun, Done
<1> QED
  BY <1>2, <1>3, <1>4, <1>5, <1>6, <1>8

\* What is inserted, changed and removed.
LEMMA RowsKeepInv ==
    ASSUME IntegrationsInv, actor' \in Operators \cup {None},
           \/ \E o \in Operators, i \in Ids :
                \/ \E given \in BOOLEAN : Revise(o, i, given) \/ \E p \in Served : Create(o, i, p, given)
                \/ \E disabled \in BOOLEAN : SetIntegrationDisabled(o, i, disabled)
                \/ RotateIntegrationWebhookSecret(o, i)
           \/ \E r \in Requests :
                \/ \E i \in Ids : Connect(r, i)
                \/ Verify(r) \/ Reconnect(r) \/ DeleteIntegration(r)
    PROVE  IntegrationsInv'
<1>0. /\ StateTypeOK /\ TypeOK /\ integration \in [Ids -> Rows]
      /\ fresh \in Numbers /\ fresh \in Nat /\ MaxFresh \in Nat /\ 0 \in Numbers
      /\ records \in [Ids -> SUBSET (Protected \cup Retired)]
      /\ request \in [Requests -> Memories] /\ RequestsRemember
      /\ Idle \in Memories /\ Remembers(Idle) /\ Idle.flow = None
  BY IdleIsSound, NumberFacts DEF IntegrationsInv, StateTypeOK, TypeOK, Numbers
<1>a. \A i \in Ids : RowIsSound(i, integration[i])
  BY DEF IntegrationsInv, RowsAreSound
\* Only the request changes.
<1>b. ASSUME NEW r \in Requests, request' = [request EXCEPT ![r] = Idle],
             UNCHANGED <<integration, records, flow, fresh>>
      PROVE  IntegrationsInv'
  BY <1>0, <1>b, NoteStep
<1>c. \A n \in 0 .. 2 : Make(n) => fresh' \in Numbers /\ fresh' = fresh + n /\ fresh + n <= MaxFresh
  BY <1>0 DEF Make, Numbers
<1>1. ASSUME NEW o \in Operators, NEW i \in Ids, NEW p \in Served, NEW given \in BOOLEAN,
             Create(o, i, p, given)
      PROVE  IntegrationsInv'
  <2> DEFINE d == Catalog[p]
             n == Count(d.fields) + Count(given \/ d.webhook)
             plan == Plan(p, given, i)
  <2>1. /\ given => d.secret
        /\ Make(n) /\ UNCHANGED <<records, flow, request>>
    BY <1>1 DEF Create, CheckConfiguration
  <2>2. /\ n \in 0 .. 2
        /\ d.fields => fresh + 1 <= fresh + n
        /\ given \/ d.webhook => Material(p) <= fresh + n
        /\ Submitted(p) \in Nat /\ Material(p) \in Nat
        /\ Submitted(p) <= fresh + n
    BY <1>0, CatalogFacts DEF Count, Material, Submitted
  <2>3. /\ fresh' \in Numbers /\ Submitted(p) \in Numbers
        /\ given \/ d.webhook => Material(p) \in Numbers
    BY <1>0, <1>c, <2>1, <2>2 DEF Numbers
  <2>4. PICK row \in ProbeAndSeal(plan, given) : CreateIntegration(o, i, row)
    BY <1>1 DEF Create
  <2>5. /\ plan.provider = p /\ plan.config = Submitted(p) /\ plan.key = None
        /\ plan.credential = (IF given THEN Seal(Material(p), i, FALSE) ELSE NoCredential)
        /\ plan.state = "absent" /\ plan.grants = FALSE /\ plan \in Rows
    BY <1>0, <2>3, CatalogFacts, IntegrationsAssumption, ZenonT(40)
       DEF Plan, Absent, Rows, Seal, NoCredential
  <2> HIDE DEF plan
  <2>6. /\ RowIsSound(i, row) /\ row.provider = p /\ row.key = None
    <3>1. CASE d.by # "probe"
      <4>1. row = plan /\ ~given
        BY <2>1, <2>4, <2>5, <3>1, CatalogFacts DEF ProbeAndSeal
      <4> QED
        BY <2>5, <4>1 DEF RowIsSound
    <3>2. CASE d.by = "probe"
      <4> DEFINE tried == IF given THEN [plan EXCEPT !.credential.probed = TRUE] ELSE plan
      <4>1. PICK v \in Probe(p, None) : row = VerifiedNow(tried, v)
        BY <2>4, <2>5, <3>2 DEF ProbeAndSeal
      <4>2. /\ tried \in Rows /\ tried.provider = p /\ tried.key = None /\ tried.state = "absent"
            /\ tried.grants = FALSE
            /\ tried.credential # NoCredential =>
                    tried.credential.probed /\ tried.credential.bound = i
        <5>1. CASE given
          <6>1. tried = [plan EXCEPT !.credential = [plan.credential EXCEPT !.probed = TRUE]]
            BY <5>1
          <6>2. /\ [plan.credential EXCEPT !.probed = TRUE] \in
                        [word : Numbers, bound : Ids \cup {None}, probed : BOOLEAN]
                /\ [plan.credential EXCEPT !.probed = TRUE].probed
                /\ [plan.credential EXCEPT !.probed = TRUE].bound = i
            <7>1. plan.credential \in Credentials
              BY <2>5 DEF Rows, Credentials
            <7>2. plan.credential.bound = i
              BY <2>5, <5>1 DEF Seal
            <7> QED
              BY <7>1, <7>2, ProbedFacts DEF Credentials
          <6> QED
            BY <2>5, <6>1, <6>2 DEF Rows
        <5>2. CASE ~given
          BY <2>5, <5>2
        <5> QED
          BY <5>1, <5>2
      <4> HIDE DEF tried
      <4>3. RowIsSound(i, tried)
        BY <4>2 DEF RowIsSound
      <4>4. v \in Verdicts
        BY <3>2, ProbeFacts, CatalogFacts
      <4> QED
        BY <4>1, <4>2, <4>3, <4>4, VerifiedFacts DEF VerifiedNow
    <3> QED
      BY <3>1, <3>2
  <2> DEFINE stored == [row EXCEPT !.state = "live", !.org = Home[o]]
  <2>7. /\ stored.provider = p /\ stored.key = None /\ stored.state = "live"
        /\ RowIsSound(i, stored)
    BY <2>6 DEF RowIsSound, Rows, Orgs
  <2>8. /\ integration[i].state = "absent"
        /\ integration' = [integration EXCEPT ![i] = stored]
    BY <2>4 DEF CreateIntegration, Absent
  <2>9. UNCHANGED <<records, flow>> /\ UNCHANGED request /\ fresh' \in Numbers
    BY <2>1, <2>3
  <2> HIDE DEF stored
  <2> QED
    BY <2>7, <2>8, <2>9, RowStep
\* ReplaceIntegrationCredential, by a revision or a reconnection.
<1>2. ASSUME NEW o, NEW i \in Ids, NEW config \in Numbers, NEW c \in Credentials, c.probed,
             c.bound = i, NEW v \in Verdicts, NEW k \in Keys \cup {None},
             ReplaceIntegrationCredential(o, i, config, c, v, k),
             k = None \/ ~InstallationTaken(integration[i].provider, k, i),
             UNCHANGED <<records, flow>>, fresh' \in Numbers,
             \/ UNCHANGED request
             \/ \E r \in Requests : request' = [request EXCEPT ![r] = Idle]
      PROVE  IntegrationsInv'
  <2> DEFINE given == [integration[i] EXCEPT !.config = config, !.credential = c]
             recorded == RecordInstallation(given, k)
             row == VerifiedNow(recorded, v)
  <2>1. /\ integration[i].state = "live" /\ integration' = [integration EXCEPT ![i] = row]
        /\ RowIsSound(i, integration[i])
    BY <1>a, <1>2 DEF ReplaceIntegrationCredential, Addressed
  <2>2. /\ given \in Rows /\ given.credential = c /\ given.state = "live"
        /\ given.provider = integration[i].provider /\ given.org = integration[i].org
        /\ given.key = integration[i].key /\ given.grants = integration[i].grants
        /\ given.status = integration[i].status
    BY <2>1 DEF RowIsSound, Rows, Credentials
  <2> HIDE DEF given
  <2>3. /\ recorded \in Rows /\ recorded.credential = c /\ recorded.state = "live"
        /\ recorded.provider = integration[i].provider /\ recorded.org = integration[i].org
        /\ recorded.grants = integration[i].grants /\ recorded.status = integration[i].status
        /\ recorded.key = IF k = None THEN integration[i].key ELSE k
    BY <2>2 DEF RecordInstallation, Rows
  <2> HIDE DEF recorded
  <2>4. RowIsSound(i, recorded)
    BY <1>2, <2>1, <2>3 DEF RowIsSound
  <2>5. /\ RowIsSound(i, row) /\ row.state = "live" /\ row.provider = integration[i].provider
        /\ row.key = IF k = None THEN integration[i].key ELSE k
    BY <2>3, <2>4, VerifiedFacts DEF VerifiedNow
  <2> HIDE DEF row
  <2> QED
    BY <1>2, <2>1, <2>5, RowStep
\* Other edits of a row that is there.
<1>3. ASSUME NEW i \in Ids, NEW row \in Rows, integration[i].state = "live",
             integration' = [integration EXCEPT ![i] = row],
             row.state = "live", row.org = integration[i].org,
             row.provider = integration[i].provider, row.key = integration[i].key,
             row.credential = integration[i].credential,
             row.grants => row.status = "verified",
             UNCHANGED <<records, flow>>, fresh' \in Numbers,
             \/ UNCHANGED request
             \/ \E r \in Requests : request' = [request EXCEPT ![r] = Idle]
      PROVE  IntegrationsInv'
  <2>1. RowIsSound(i, row)
    BY <1>a, <1>3 DEF RowIsSound
  <2> QED
    BY <1>3, <2>1, RowStep
<1>4. ASSUME NEW o \in Operators, NEW i \in Ids, NEW given \in BOOLEAN, Revise(o, i, given)
      PROVE  IntegrationsInv'
  <2> DEFINE p == integration[i].provider
             d == Catalog[p]
             n == Count(d.fields) + Count(given)
  <2>1. /\ integration[i].state = "live" /\ p \in Served
        /\ given => d.secret
        /\ Make(n) /\ UNCHANGED <<records, flow, request>>
    BY <1>a, <1>4 DEF Revise, Addressed, CheckConfiguration, RowIsSound
  <2>2. /\ n \in 0 .. 2 /\ Submitted(p) \in Nat /\ Material(p) \in Nat
        /\ Submitted(p) <= fresh + n
        /\ given => Material(p) <= fresh + n
    BY <1>0, <2>1, CatalogFacts DEF Count, Material, Submitted
  <2>3. /\ fresh' \in Numbers /\ Submitted(p) \in Numbers
        /\ given => Material(p) \in Numbers
    BY <1>0, <1>c, <2>1, <2>2 DEF Numbers
  <2>4. ASSUME ReviseIntegration(o, i) PROVE IntegrationsInv'
    <3>1. PICK current \in BOOLEAN :
              integration' = [integration EXCEPT ![i] =
                  [integration[i] EXCEPT !.config = Submitted(p), !.current = current]]
      BY <1>0, <2>4 DEF ReviseIntegration
    <3> DEFINE row == [integration[i] EXCEPT !.config = Submitted(p), !.current = current]
    <3>2. RowIsSound(i, integration[i])
      BY <1>a
    <3>3. /\ row \in Rows /\ row.state = "live" /\ row.org = integration[i].org
          /\ row.provider = integration[i].provider /\ row.key = integration[i].key
          /\ row.credential = integration[i].credential
          /\ row.grants => row.status = "verified"
      BY <2>1, <2>3, <3>2 DEF RowIsSound, Rows
    <3> HIDE DEF row
    <3>4. integration' = [integration EXCEPT ![i] = row]
      BY <3>1 DEF row
    <3> QED
      BY <1>3, <2>1, <2>3, <3>3, <3>4
  <2>5. ASSUME given, NEW v \in Probe(p, integration[i].key),
               ReplaceIntegrationCredential(o, i, Submitted(p), Seal(Material(p), i, TRUE), v, None)
        PROVE  IntegrationsInv'
    <3>1. v \in Verdicts
      BY <2>1, <2>5, CatalogFacts, ProbeFacts
    <3>2. /\ Seal(Material(p), i, TRUE) \in Credentials
          /\ Seal(Material(p), i, TRUE).probed /\ Seal(Material(p), i, TRUE).bound = i
      BY <2>3, <2>5 DEF Seal, Credentials
    <3> QED
      BY <1>2, <2>1, <2>3, <2>5, <3>1, <3>2
  <2> QED
    BY <1>4, <2>4, <2>5 DEF Revise
<1>5. ASSUME NEW o \in Operators, NEW i \in Ids, NEW disabled \in BOOLEAN,
             SetIntegrationDisabled(o, i, disabled)
      PROVE  IntegrationsInv'
  <2> DEFINE row == [integration[i] EXCEPT !.disabled = disabled]
  <2>1. /\ integration[i].state = "live" /\ integration' = [integration EXCEPT ![i] = row]
        /\ UNCHANGED <<records, flow, request, fresh>> /\ RowIsSound(i, integration[i])
    BY <1>a, <1>5 DEF SetIntegrationDisabled, Addressed
  <2>2. /\ row \in Rows /\ row.state = "live" /\ row.org = integration[i].org
        /\ row.provider = integration[i].provider /\ row.key = integration[i].key
        /\ row.credential = integration[i].credential
        /\ row.grants => row.status = "verified"
    BY <2>1 DEF RowIsSound, Rows
  <2> HIDE DEF row
  <2> QED
    BY <1>0, <1>3, <2>1, <2>2
<1>6. ASSUME NEW o \in Operators, NEW i \in Ids, RotateIntegrationWebhookSecret(o, i)
      PROVE  IntegrationsInv'
  <2> DEFINE row == [integration[i] EXCEPT !.secret = fresh + 1]
  <2>1. /\ integration[i].state = "live" /\ integration' = [integration EXCEPT ![i] = row]
        /\ UNCHANGED <<records, flow, request>> /\ Make(1) /\ RowIsSound(i, integration[i])
    BY <1>a, <1>6 DEF RotateIntegrationWebhookSecret, Addressed
  <2>2. fresh' \in Numbers /\ fresh + 1 \in Numbers
    BY <1>0, <1>c, <2>1 DEF Numbers
  <2>3. /\ row \in Rows /\ row.state = "live" /\ row.org = integration[i].org
        /\ row.provider = integration[i].provider /\ row.key = integration[i].key
        /\ row.credential = integration[i].credential
        /\ row.grants => row.status = "verified"
    BY <2>1, <2>2 DEF RowIsSound, Rows
  <2> HIDE DEF row
  <2> QED
    BY <1>3, <2>1, <2>2, <2>3
<1>7. ASSUME NEW r \in Requests, Verify(r) PROVE IntegrationsInv'
  <2> DEFINE i == request[r].id
             v == request[r].verdict
  <2>1. /\ i \in Ids /\ v \in Verdicts
        /\ request' = [request EXCEPT ![r] = Idle] /\ UNCHANGED <<records, flow, fresh>>
    BY <1>0, <1>7 DEF Verify, Done, RequestsRemember, Remembers, Memories
  <2>2. CASE RecordIntegrationVerification(request[r].who, i, v, request[r].seen)
    <3> DEFINE row == Verified(integration[i], v, request[r].seen)
    <3>1. /\ integration[i].state = "live" /\ integration' = [integration EXCEPT ![i] = row]
          /\ RowIsSound(i, integration[i])
      BY <1>a, <2>1, <2>2 DEF RecordIntegrationVerification, Addressed
    <3>2. RowIsSound(i, row) /\ row.state = "live" /\ row.provider = integration[i].provider
          /\ row.key = integration[i].key
      BY <2>1, <3>1, VerifiedFacts
    <3> HIDE DEF row, v
    <3> QED
      BY <1>0, <2>1, <3>1, <3>2, RowStep
  <2>3. CASE UNCHANGED integration
    BY <1>b, <2>1, <2>3
  <2> QED
    BY <1>7, <2>2, <2>3 DEF Verify
<1>8. ASSUME NEW r \in Requests, NEW i \in Ids, Connect(r, i) PROVE IntegrationsInv'
  <2> DEFINE p == request[r].provider
             k == request[r].key
             sealed == Seal(request[r].word, i, TRUE)
             bare == [Absent EXCEPT !.provider = p,
                        !.credential = IF request[r].word = 0 THEN NoCredential ELSE sealed]
             o == request[r].who
  <2>1. /\ request[r] \in Memories /\ p \in Served \cap {"slack", "github"} /\ k \in Keys
        /\ o \in Operators
        /\ request' = [request EXCEPT ![r] = Idle] /\ UNCHANGED <<records, flow, fresh>>
    BY <1>0, <1>8 DEF Connect, Done, RequestsRemember, Remembers
  <2>2. ASSUME NEW v \in Probe(p, k), ~InstallationTaken(p, k, i),
               CreateIntegration(o, i, VerifiedNow(RecordInstallation(bare, k), v))
        PROVE  IntegrationsInv'
    <3>1. v \in Verdicts
      BY <2>1, ProbeFacts
    <3>2. /\ sealed \in Credentials /\ sealed.probed /\ sealed.bound = i
          /\ NoCredential \in Credentials
      BY <1>0, <2>1 DEF Memories, Credentials, Seal, NoCredential
    <3> HIDE DEF sealed
    <3>0. PICK c \in Credentials : c = IF request[r].word = 0 THEN NoCredential ELSE sealed
      BY <3>2
    <3>3. /\ bare \in Rows /\ bare.provider = p /\ bare.grants = FALSE
          /\ bare.credential = IF request[r].word = 0 THEN NoCredential ELSE sealed
      <4>1. bare = [Absent EXCEPT !.provider = p, !.credential = c]
        BY <3>0
      <4> HIDE DEF bare
      <4> QED
        <5>1. /\ bare = [Absent EXCEPT !.provider = p, !.credential = c]
              /\ p \in Served /\ 0 \in Numbers /\ c \in Credentials
          BY <1>0, <2>1, <3>0, <4>1
        <5>2. /\ bare.provider = p /\ bare.grants = FALSE /\ bare.credential = c
          BY <5>1 DEF Absent
        <5>3. bare \in Rows
          BY <5>1 DEF Absent, Rows, Credentials
        <5> QED
          BY <3>0, <5>2, <5>3
    <3> HIDE DEF bare
    <3> DEFINE live(row) == [row EXCEPT !.state = "live", !.org = Home[o]]
               keyed == [bare EXCEPT !.key = k]
               stored == live(VerifiedNow(keyed, v))
    <3>4. keyed = RecordInstallation(bare, k)
      BY <2>1, IntegrationsAssumption DEF RecordInstallation
    <3>5. /\ keyed \in Rows /\ keyed.provider = p /\ keyed.grants = FALSE /\ keyed.key = k
          /\ keyed.credential = bare.credential
      BY <2>1, <3>3 DEF Rows
    <3> HIDE DEF keyed
    <3>6. PICK current \in BOOLEAN :
              VerifiedNow(keyed, v) =
                    [keyed EXCEPT !.status = v.status, !.grants = v.grants, !.current = current]
      BY DEF VerifiedNow, Verified
    <3>7. /\ stored \in Rows /\ stored.state = "live" /\ stored.provider = p /\ stored.key = k
          /\ stored.org = Home[o] /\ stored.grants = v.grants /\ stored.status = v.status
          /\ stored.credential = bare.credential
      BY <2>1, <3>1, <3>5, <3>6, VerdictFacts DEF Rows, Orgs
    <3>8. integration[i].state = "absent" /\ integration' = [integration EXCEPT ![i] = stored]
      BY <2>2, <3>4 DEF CreateIntegration, Absent
    <3> HIDE DEF stored
    <3>9. RowIsSound(i, stored)
      BY <2>1, <3>1, <3>2, <3>3, <3>7, VerdictFacts DEF RowIsSound, Orgs
    <3> QED
      BY <1>0, <2>1, <2>2, <3>7, <3>8, <3>9, RowStep
  <2>3. CASE UNCHANGED integration
    BY <1>b, <2>1, <2>3
  <2> QED
    BY <1>8, <2>2, <2>3 DEF Connect
<1>9. ASSUME NEW r \in Requests, Reconnect(r) PROVE IntegrationsInv'
  <2> DEFINE i == request[r].id
             p == request[r].provider
             k == request[r].key
             sealed == Seal(request[r].word, i, TRUE)
  <2>1. /\ request[r] \in Memories /\ i \in Ids /\ p \in Served \cap {"slack", "github"} /\ k \in Keys
        /\ integration[i].state = "live" => integration[i].provider = p
        /\ request' = [request EXCEPT ![r] = Idle] /\ UNCHANGED <<records, flow, fresh>>
    BY <1>0, <1>9 DEF Reconnect, Done, RequestsRemember, Remembers
  <2>2. ASSUME NEW v \in Probe(p, k), ~InstallationTaken(p, k, i),
               ReplaceIntegrationCredential(request[r].who, i, integration[i].config, sealed, v, k)
        PROVE  IntegrationsInv'
    <3>1. v \in Verdicts
      BY <2>1, ProbeFacts
    <3>2. /\ sealed \in Credentials /\ sealed.probed /\ sealed.bound = i
      BY <2>1 DEF Memories, Credentials, Seal
    <3>3. integration[i].config \in Numbers /\ integration[i].provider = p
      BY <1>0, <2>1, <2>2 DEF Rows, ReplaceIntegrationCredential, Addressed
    <3> HIDE DEF sealed
    <3> QED
      BY <1>0, <1>2, <2>1, <2>2, <3>1, <3>2, <3>3
  <2>3. CASE UNCHANGED integration
    BY <1>b, <2>1, <2>3
  <2> QED
    BY <1>9, <2>2, <2>3 DEF Reconnect
<1>10. ASSUME NEW r \in Requests, DeleteIntegration(r) PROVE IntegrationsInv'
  <2> DEFINE i == request[r].id
             row == [Absent EXCEPT !.state = "gone"]
  <2>1. /\ i \in Ids
        /\ request' = [request EXCEPT ![r] = Idle] /\ UNCHANGED <<flow, fresh>>
    BY <1>0, <1>10 DEF DeleteIntegration, Done, RequestsRemember, Remembers
  <2>2. CASE /\ integration[i].state = "live"
             /\ integration' = [integration EXCEPT ![i] = row]
             /\ records' = [records EXCEPT ![i] = {}]
    <3>1. RowIsSound(i, row) /\ row.state = "gone" /\ row.key = None
      BY <1>0 DEF RowIsSound, Rows, Absent, NoCredential
    <3> HIDE DEF row
    <3> QED
      BY <1>0, <2>1, <2>2, <3>1, RowStep
  <2>3. CASE UNCHANGED <<integration, records>>
    BY <1>b, <2>1, <2>3
  <2> QED
    BY <1>10, <2>2, <2>3 DEF DeleteIntegration, Addressed
<1> QED
  BY <1>1, <1>4, <1>5, <1>6, <1>7, <1>8, <1>9, <1>10

LEMMA IntegrationsInvNext == IntegrationsInv /\ [Next]_vars => IntegrationsInv'
<1> SUFFICES ASSUME IntegrationsInv, [Next]_vars PROVE IntegrationsInv'
  OBVIOUS
<1>0. \A r \in Requests : request[r].who \in Operators \cup {None}
  BY DEF IntegrationsInv, StateTypeOK, TypeOK
<1>1. CASE UNCHANGED vars
  BY <1>1 DEF vars, IntegrationsInv, StateTypeOK, TypeOK, RowsAreSound, RequestsRemember, Remembers,
              FlowsAreHeld, HoldsFlow, OneOwner
<1>2. ASSUME NEW o \in Operators, actor' = o, NEW i \in Ids,
             \/ \E given \in BOOLEAN : Revise(o, i, given) \/ \E p \in Served : Create(o, i, p, given)
             \/ \E disabled \in BOOLEAN : SetIntegrationDisabled(o, i, disabled)
             \/ RotateIntegrationWebhookSecret(o, i)
             \/ \E r \in Requests : ReadForVerify(r, o, i) \/ CountDependents(r, o, i)
      PROVE  IntegrationsInv'
  BY <1>2, RequestsKeepInv, RowsKeepInv
<1>3. ASSUME NEW f \in Flows, NEW o \in Operators, actor' = o,
             \/ \E p \in Served : StartConnect(f, o, p)
             \/ \E r \in Requests : RedeemConnectFlow(r, o, f)
      PROVE  IntegrationsInv'
  BY <1>3, ConnectKeepsInv
<1>4. ASSUME NEW r \in Requests, actor' = request[r].who,
             \/ \E k \in Keys : Redeem(r, k) \/ HandleSlackEvents(r, k)
             \/ \E i \in Ids :
                \/ Connect(r, i) \/ StartRun(r, i)
                \/ \E secret \in 1 .. MaxFresh : Authenticate(r, i, secret)
             \/ RecordCredentialUnseal(r) \/ OpenCredential(r) \/ Judge(r) \/ Verify(r)
             \/ FindInstallation(r) \/ Reconnect(r)
             \/ RecordDelivery(r) \/ AcceptSlackMessage(r) \/ RecordToolRun(r)
             \/ DeleteIntegration(r) \/ Abandon(r)
      PROVE  IntegrationsInv'
  <2>1. actor' \in Operators \cup {None}
    BY <1>0, <1>4
  <2> QED
    BY <1>4, <2>1, RequestsKeepInv, ConnectKeepsInv, RowsKeepInv
<1>5. ASSUME NEW f \in Flows, Expire(f), actor' = None PROVE IntegrationsInv'
  BY <1>5, ConnectKeepsInv
<1> QED
  BY <1>1, <1>2, <1>3, <1>4, <1>5 DEF Next, Step

-----------------------------------------------------------------------------
(* The theorems. *)

\* An installation has one owner in the deployment, whatever callbacks race for
\* it, nothing names an Integration that is gone, and every stored credential was
\* accepted by its provider and is bound to the Integration that holds it
\* (Connect, DeleteIntegration, ReplaceIntegrationCredential).
THEOREM InstallationsAreAlwaysOwnedOnce == Spec => []InstallationsAreOwnedOnce
<1>1. ASSUME IntegrationsInv, NEW p \in Served, NEW k \in Keys
      PROVE  Cardinality(OwnerOf(p, k)) <= 1
  <2>1. OwnerOf(p, k) = {} \/ \E i \in Ids : OwnerOf(p, k) = {i}
    BY <1>1, IntegrationsAssumption DEF IntegrationsInv, OneOwner, OwnerOf
  <2> HIDE DEF OwnerOf
  <2>2. CASE OwnerOf(p, k) = {}
    <3>1. Cardinality(OwnerOf(p, k)) = 0
      BY <2>2, FS_EmptySet, Zenon
    <3> QED
      BY <3>1
  <2>3. ASSUME NEW i, OwnerOf(p, k) = {i} PROVE Cardinality(OwnerOf(p, k)) <= 1
    <3>1. Cardinality(OwnerOf(p, k)) = 1
      BY <2>3, FS_Singleton, Zenon
    <3> QED
      BY <3>1
  <2> QED
    BY <2>1, <2>2, <2>3
<1>2. IntegrationsInv => Consistent
  BY DEF IntegrationsInv, StateTypeOK, RowsAreSound, RowIsSound, Consistent
<1>3. IntegrationsInv => \A i \in Ids : integration[i].key # None => integration[i].state = "live"
  BY DEF IntegrationsInv, RowsAreSound, RowIsSound
<1>4. IntegrationsInv => InstallationsAreOwnedOnce
  BY <1>1, <1>2, <1>3 DEF InstallationsAreOwnedOnce
<1> QED
  BY IntegrationsInvInit, IntegrationsInvNext, <1>4, PTL DEF Spec

\* A connect flow serves one callback, of the User who started it and for its
\* provider, whoever presents the state and how often (RedeemConnectFlow).
THEOREM ConnectFlowsAreAlwaysRedeemedOnce == Spec => []ConnectFlowsAreRedeemedOnce
<1>1. IntegrationsInv => ConnectFlowsAreRedeemedOnce
  BY DEF IntegrationsInv, FlowsAreHeld, HoldsFlow, ConnectFlowsAreRedeemedOnce
<1> QED
  BY IntegrationsInvInit, IntegrationsInvNext, <1>1, PTL DEF Spec

\* Every change of an Integration, by a request that is over at once or by one that
\* read the row long before, is made for a User of the Organization that has it
\* before and after (Addressed, in each statement that writes).
THEOREM EveryStepStaysInTheOrganization == Spec => StaysInTheOrganization
<1> DEFINE Within(i) ==
              integration'[i] # integration[i] =>
                /\ actor' # None
                /\ integration[i].state = "live" => integration[i].org = Home[actor']
                /\ integration'[i].state = "live" => integration'[i].org = Home[actor']
           Kept == \A i \in Ids : Within(i)
<1>1. IntegrationsInv /\ [Next]_vars => Kept
  <2> SUFFICES ASSUME IntegrationsInv, [Next]_vars PROVE Kept
    OBVIOUS
  <2>0. /\ integration \in [Ids -> Rows] /\ request \in [Requests -> Memories] /\ RequestsRemember
        /\ None \notin Operators
    BY IntegrationsAssumption DEF IntegrationsInv, StateTypeOK, TypeOK
  <2>1. CASE UNCHANGED integration
    BY <2>1
  \* One row changes, which was or becomes the acting User's.
  <2>2. ASSUME NEW o \in Operators, actor' = o, NEW i \in Ids, NEW row,
               integration' = [integration EXCEPT ![i] = row],
               integration[i].state = "live" => integration[i].org = Home[o],
               row.state = "live" => row.org = Home[o]
        PROVE  Kept
    BY <2>0, <2>2
  <2> HIDE DEF Kept
  <2>3. ASSUME NEW o \in Operators, actor' = o, NEW i \in Ids, NEW config, NEW credential, NEW v,
               NEW k, ReplaceIntegrationCredential(o, i, config, credential, v, k)
        PROVE  Kept
    <3>1. PICK row : integration' = [integration EXCEPT ![i] = row] /\ row.org = integration[i].org
      BY <2>0, <2>3, ReplacedFacts
    <3>2. integration[i].org = Home[o]
      BY <2>3 DEF ReplaceIntegrationCredential, Addressed
    <3> QED
      BY <2>2, <2>3, <3>1, <3>2
  <2>4. ASSUME NEW o \in Operators, actor' = o, NEW i \in Ids, NEW row, CreateIntegration(o, i, row)
        PROVE  Kept
    <3> DEFINE stored == [row EXCEPT !.state = "live", !.org = Home[o]]
    <3>1. integration[i].state # "live" /\ integration' = [integration EXCEPT ![i] = stored]
      BY <2>4 DEF CreateIntegration, Absent
    <3>2. stored \in Rows
      <4>1. integration' \in [Ids -> Rows] /\ integration'[i] = stored
        BY <2>0, <3>1, IntegrationsInvNext DEF IntegrationsInv, StateTypeOK, TypeOK
      <4> QED
        BY <4>1
    <3>3. stored.org = Home[o]
      <4>1. "org" \in DOMAIN stored
        BY <3>2 DEF Rows
      <4> QED
        BY <4>1
    <3> HIDE DEF stored
    <3> QED
      BY <2>2, <2>4, <3>1, <3>3
  <2>5. ASSUME NEW o \in Operators, actor' = o, NEW i \in Ids, NEW given \in BOOLEAN, Revise(o, i, given)
        PROVE  Kept
    <3>1. CASE ReviseIntegration(o, i)
      <4> DEFINE at(current) == [integration[i] EXCEPT !.config = Submitted(integration[i].provider),
                                                       !.current = current]
      <4>1. PICK current \in BOOLEAN : integration' = [integration EXCEPT ![i] = at(current)]
        BY <2>0, <3>1 DEF ReviseIntegration
      <4>2. at(current).org = integration[i].org
        BY <2>0 DEF Rows
      <4>3. integration[i].org = Home[o]
        BY <3>1 DEF ReviseIntegration, Addressed
      <4> HIDE DEF at
      <4> QED
        BY <2>2, <2>5, <4>1, <4>2, <4>3
    <3> QED
      BY <2>3, <2>5, <3>1 DEF Revise
  <2>6. ASSUME NEW o \in Operators, actor' = o, NEW i \in Ids,
               \/ \E disabled \in BOOLEAN : SetIntegrationDisabled(o, i, disabled)
               \/ RotateIntegrationWebhookSecret(o, i)
        PROVE  Kept
    <3>1. PICK row : integration' = [integration EXCEPT ![i] = row] /\ row.org = integration[i].org
      BY <2>0, <2>6 DEF SetIntegrationDisabled, RotateIntegrationWebhookSecret, Rows
    <3>2. integration[i].org = Home[o]
      BY <2>6 DEF SetIntegrationDisabled, RotateIntegrationWebhookSecret, Addressed
    <3> QED
      BY <2>2, <2>6, <3>1, <3>2
  <2>7. ASSUME NEW r \in Requests, actor' = request[r].who, Verify(r) PROVE Kept
    <3> DEFINE i == request[r].id
               o == request[r].who
               v == request[r].verdict
    <3>1. i \in Ids /\ o \in Operators
      BY <2>0, <2>7 DEF Verify, RequestsRemember, Remembers
    <3>2. CASE RecordIntegrationVerification(o, i, v, request[r].seen)
      <4>1. /\ integration[i].org = Home[o]
            /\ integration' = [integration EXCEPT ![i] = Verified(integration[i], v, request[r].seen)]
        BY <3>2 DEF RecordIntegrationVerification, Addressed
      <4>2. Verified(integration[i], v, request[r].seen).org = integration[i].org
        BY <2>0, <3>1 DEF Verified, Rows
      <4> QED
        BY <2>2, <2>7, <3>1, <4>1, <4>2
    <3> QED
      BY <2>1, <2>7, <3>2 DEF Verify
  <2>8. ASSUME NEW r \in Requests, actor' = request[r].who, NEW i \in Ids, Connect(r, i) PROVE Kept
    <3>1. request[r].who \in Operators
      BY <2>0, <2>8 DEF Connect, RequestsRemember, Remembers
    <3> QED
      BY <2>1, <2>4, <2>8, <3>1 DEF Connect
  <2>9. ASSUME NEW r \in Requests, actor' = request[r].who, Reconnect(r) PROVE Kept
    <3>1. request[r].id \in Ids /\ request[r].who \in Operators
      BY <2>0, <2>9 DEF Reconnect, RequestsRemember, Remembers
    <3> QED
      BY <2>1, <2>3, <2>9, <3>1 DEF Reconnect
  <2>10. ASSUME NEW r \in Requests, actor' = request[r].who, DeleteIntegration(r) PROVE Kept
    <3> DEFINE i == request[r].id
               row == [Absent EXCEPT !.state = "gone"]
    <3>1. i \in Ids /\ request[r].who \in Operators
      BY <2>0, <2>10 DEF DeleteIntegration, RequestsRemember, Remembers
    <3>2. row.state # "live"
      BY DEF Absent
    <3>3. \/ UNCHANGED integration
          \/ integration' = [integration EXCEPT ![i] = row] /\ integration[i].org = Home[request[r].who]
      BY <2>10 DEF DeleteIntegration, Addressed
    <3> QED
      BY <2>1, <2>2, <2>10, <3>1, <3>2, <3>3
  <2>11. ASSUME NEW r \in Requests,
                \/ \E o \in Operators, i \in Ids : ReadForVerify(r, o, i) \/ CountDependents(r, o, i)
                \/ \E i \in Ids : StartRun(r, i) \/ \E secret \in 1 .. MaxFresh : Authenticate(r, i, secret)
                \/ \E k \in Keys : HandleSlackEvents(r, k) \/ Redeem(r, k)
                \/ \E f \in Flows, o \in Operators : RedeemConnectFlow(r, o, f)
                \/ RecordCredentialUnseal(r) \/ OpenCredential(r) \/ Judge(r) \/ Abandon(r)
                \/ FindInstallation(r)
                \/ RecordDelivery(r) \/ AcceptSlackMessage(r) \/ RecordToolRun(r)
         PROVE  UNCHANGED integration
    BY <2>11 DEF ReadForVerify, CountDependents, StartRun, Authenticate, HandleSlackEvents, Redeem,
                 RedeemConnectFlow, RecordCredentialUnseal, OpenCredential, Judge, Abandon,
                 FindInstallation, RecordDelivery, AcceptSlackMessage, RecordToolRun
  <2>12. ASSUME \/ \E f \in Flows, o \in Operators, p \in Served : StartConnect(f, o, p)
                \/ \E f \in Flows : Expire(f)
                \/ UNCHANGED vars
         PROVE  UNCHANGED integration
    BY <2>12 DEF StartConnect, StartConnectFlow, Expire, vars
  <2>13. ASSUME NEW o \in Operators, actor' = o, NEW i \in Ids, NEW p \in Served,
                NEW given \in BOOLEAN, Create(o, i, p, given)
         PROVE  Kept
    BY <2>4, <2>13 DEF Create
  <2> QED
    BY <2>1, <2>5, <2>6, <2>7, <2>8, <2>9, <2>10, <2>11, <2>12, <2>13 DEF Next, Step
<1> QED
  BY IntegrationsInvInit, IntegrationsInvNext, <1>1, PTL DEF Spec, StaysInTheOrganization

=============================================================================
