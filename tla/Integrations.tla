---------------------------- MODULE Integrations ----------------------------
(***************************************************************************)
(* Integrations of the deployment's Organizations: what is stored about    *)
(* each (configuration, sealed credential, webhook secret, the outcome of  *)
(* its last Verification, the provider installation it owns), the API      *)
(* requests and provider callbacks that change it, the webhooks and agent  *)
(* runs that use it, and its removal.                                      *)
(*                                                                         *)
(* A step is one statement or transaction of the store, or one answer of a *)
(* provider.  A handler that reads a row, asks a provider and writes later *)
(* is several steps, and remembers only what the code keeps.               *)
(***************************************************************************)
EXTENDS Naturals, FiniteSets

CONSTANTS
    Ids,            \* Integrations that may ever be created
    Operators,      \* Users who may manage Integrations
    Home,           \* the Organization of each of them
    Served,         \* providers this build serves
    Keys,           \* provider installations
    Flows,          \* connect states that may ever be minted
    Requests,       \* requests, callbacks, webhooks and runs in progress
    Sealing,        \* a sealing key is configured
    MaxFresh,       \* bound: configurations, credentials and secrets ever made
    None

Orgs == {Home[o] : o \in Operators}

VARIABLES
    integration,    \* integration and integration_installation rows
    records,        \* rows that name each Integration
    flow,           \* integration_connect_flow rows
    request,        \* what each request in progress remembers
    fresh,          \* configurations, credentials and secrets made so far
    actor           \* history: the User of the last step, if one

vars == <<integration, records, flow, request, fresh, actor>>

\* Rows that name an Integration: the ones its deletion counts, the ones only a
\* foreign key protects, and the ones the deletion takes along.
Counted == {"delivery", "toolrun"}
Protected == Counted \cup {"message"}
Retired == {"conversation"}

-----------------------------------------------------------------------------
(* The catalog. *)

\* How a type is verified, whether it has a field that is no secret, a secret
\* field, whether it needs that one, how it is set up, and whether its Tools are
\* there only with the grants of a Verification.
SlackDefinition ==
    [by |-> "probe", fields |-> FALSE, secret |-> TRUE, required |-> TRUE,
     connect |-> TRUE, webhook |-> FALSE, tools |-> "granted"]
GitHubDefinition ==
    [by |-> "probe", fields |-> FALSE, secret |-> FALSE, required |-> FALSE,
     connect |-> TRUE, webhook |-> FALSE, tools |-> "free"]
PrometheusDefinition ==
    [by |-> "probe", fields |-> TRUE, secret |-> TRUE, required |-> FALSE,
     connect |-> FALSE, webhook |-> FALSE, tools |-> "granted"]
LokiDefinition == PrometheusDefinition
TempoDefinition == PrometheusDefinition
AlertmanagerDefinition ==
    [by |-> "verify", fields |-> FALSE, secret |-> FALSE, required |-> FALSE,
     connect |-> FALSE, webhook |-> TRUE, tools |-> "none"]
GenericWebhookDefinition == AlertmanagerDefinition
KubernetesDefinition ==
    [by |-> "verify", fields |-> TRUE, secret |-> FALSE, required |-> FALSE,
     connect |-> FALSE, webhook |-> FALSE, tools |-> "granted"]

Catalog ==
    [slack |-> SlackDefinition, github |-> GitHubDefinition,
     prometheus |-> PrometheusDefinition, loki |-> LokiDefinition, tempo |-> TempoDefinition,
     alertmanager |-> AlertmanagerDefinition, generic_webhook |-> GenericWebhookDefinition,
     kubernetes |-> KubernetesDefinition]

\* checkDefinition: a type that takes a credential can check it.
CheckDefinition(d) == d.by \in {"probe", "verify"} /\ (d.secret => d.by = "probe")

ASSUME IntegrationsAssumption ==
    /\ Served \subseteq DOMAIN Catalog
    /\ \A p \in Served : CheckDefinition(Catalog[p])
    /\ Sealing \in BOOLEAN /\ MaxFresh \in Nat
    /\ None \notin Ids \cup Operators \cup Orgs \cup Keys \cup Flows
    /\ None \notin DOMAIN Catalog

\* A credential as it is stored: sealed for one Integration, once a probe has
\* accepted it or without.
NoCredential == [word |-> 0, bound |-> None, probed |-> FALSE]
Seal(w, i, probed) == [word |-> w, bound |-> i, probed |-> probed]

\* A row: its Organization, type, configuration, credential, webhook secret, the
\* status and grants of the last Verification, whether that was about the
\* configuration and the credential the row has now, and the installation it owns.
Absent ==
    [state |-> "absent", org |-> None, provider |-> None, config |-> 0,
     credential |-> NoCredential, secret |-> 0, status |-> None,
     grants |-> FALSE, current |-> FALSE, disabled |-> FALSE, key |-> None]

\* What a handler uses of the row it read.
Seen(row) ==
    [provider |-> row.provider, config |-> row.config, credential |-> row.credential,
     key |-> row.key]

\* A Verification: its status, and whether it reports grants.  Only a verified
\* one has any.
Verdicts == [status : {"verified"}, grants : BOOLEAN] \cup [status : {"failed"}, grants : {FALSE}]
Failed == [status |-> "failed", grants |-> FALSE]

NoFlow == [state |-> "unminted", by |-> None, provider |-> None]

Idle ==
    [op |-> "idle", who |-> None, id |-> None, provider |-> None, key |-> None,
     word |-> 0, seen |-> Seen(Absent), recorded |-> FALSE, opened |-> FALSE,
     verdict |-> Failed, flow |-> None]

Init ==
    /\ integration = [i \in Ids |-> Absent]
    /\ records = [i \in Ids |-> {}]
    /\ flow = [f \in Flows |-> NoFlow]
    /\ request = [r \in Requests |-> Idle]
    /\ fresh = 0
    /\ actor = None

-----------------------------------------------------------------------------
(* Verification. *)

\* Slack may accept a token and report no scopes.
ProbeSlack == Verdicts

\* GitHub needs the installation the Integration owns, and reports no grants.
ProbeGitHub(key) ==
    IF key = None THEN {Failed} ELSE {v \in Verdicts : ~v.grants}

\* Prometheus, Loki and Tempo answer their query or do not.
ProbePrometheus == {v \in Verdicts : v.grants <=> v.status = "verified"}
ProbeLoki == ProbePrometheus
ProbeTempo == ProbePrometheus

\* What a provider may answer a probe.
Probe(p, key) ==
    CASE p = "slack" -> ProbeSlack
      [] p = "github" -> ProbeGitHub(key)
      [] p = "prometheus" -> ProbePrometheus
      [] p = "loki" -> ProbeLoki
      [] p = "tempo" -> ProbeTempo

\* Alertmanager is verified by a delivery that was accepted.
VerifyAlertmanager(i) ==
    {v \in Verdicts : ~v.grants /\ (v.status = "verified" <=> "delivery" \in records[i])}

\* So is the generic webhook.
VerifyGenericWebhook(i) == VerifyAlertmanager(i)

\* Kubernetes by the Relay that serves it: bound, connected, and what it advertises.
IntegrationRelayStatus == [connected : BOOLEAN, advertises : BOOLEAN]
VerifyKubernetes(relay) ==
    {v \in Verdicts : v.status = (IF relay.connected THEN "verified" ELSE "failed")
                      /\ v.grants = (relay.connected /\ relay.advertises)}

\* verificationGrants and the columns a Verification sets: a failure clears the
\* grants.
Verified(row, v, seen) ==
    [row EXCEPT !.status = v.status, !.grants = v.grants,
                !.current = seen = Seen(row)]

\* A Verification of what is being written.
VerifiedNow(row, v) == Verified(row, v, Seen(row))

-----------------------------------------------------------------------------
(* Statements of the store. *)

\* Mutant: a row is addressed by its identity alone.
AddressedAnywhere(o, i) == integration[i].state = "live"

\* A row is addressed by its identity and the caller's Organization.
Addressed(o, i) == integration[i].state = "live" /\ integration[i].org = Home[o]

\* installationError: the key is unique over the deployment.
InstallationTaken(p, k, i) ==
    \E j \in Ids \ {i} : integration[j].state = "live"
                         /\ integration[j].provider = p /\ integration[j].key = k

\* recordInstallation in the transaction of the insert or the update.
RecordInstallation(row, k) == IF k = None THEN row ELSE [row EXCEPT !.key = k]

CreateIntegration(o, i, row) ==
    /\ integration[i] = Absent
    /\ integration' = [integration EXCEPT ![i] = [row EXCEPT !.state = "live", !.org = Home[o]]]

\* The credential, its Verification and the installation change together, and
\* only where there is a credential to replace.
ReplaceIntegrationCredential(o, i, config, credential, v, k) ==
    /\ Addressed(o, i)
    /\ integration[i].credential # NoCredential
    /\ integration' = [integration EXCEPT ![i] =
            VerifiedNow(RecordInstallation(
                [@ EXCEPT !.config = config, !.credential = credential], k), v)]

\* A Verification is recorded on whatever row is there by then.
RecordIntegrationVerification(o, i, v, seen) ==
    /\ Addressed(o, i)
    /\ integration' = [integration EXCEPT ![i] = Verified(@, v, seen)]

-----------------------------------------------------------------------------
(* Requests of the API. *)

Done(r) == request' = [request EXCEPT ![r] = Idle]

\* Fresh values are numbered.
Make(n) == fresh + n <= MaxFresh /\ fresh' = fresh + n
Count(condition) == IF condition THEN 1 ELSE 0

\* The configuration a request submits: empty where the type has no other field
\* than its secret.
Submitted(p) == IF Catalog[p].fields THEN fresh + 1 ELSE 0
Material(p) == fresh + Count(Catalog[p].fields) + 1

\* checkConfiguration: a credential only for a type that takes one, and where it
\* is required.
CheckConfiguration(d, given, requireSecret) ==
    /\ given => d.secret
    /\ d.required /\ requireSecret => given

\* plan: the row a request to create asks for, its fresh parts numbered.
Plan(p, given, i) ==
    LET d == Catalog[p]
    IN  [Absent EXCEPT !.provider = p, !.config = Submitted(p),
            !.credential = IF given THEN Seal(Material(p), i, FALSE) ELSE NoCredential,
            !.secret = IF d.webhook THEN Material(p) ELSE 0]

\* probeAndSeal: a credential the provider refuses is not stored.
ProbeAndSeal(row, given) ==
    IF Catalog[row.provider].by # "probe" THEN {row}
    ELSE {VerifiedNow(IF given THEN [row EXCEPT !.credential.probed = TRUE] ELSE row, v) :
            v \in {u \in Probe(row.provider, None) :
                    u.status # "failed" /\ (given => Sealing)}}

Create(o, i, p, given) ==
    /\ CheckConfiguration(Catalog[p], given, TRUE)
    /\ Make(Count(Catalog[p].fields) + Count(given \/ Catalog[p].webhook))
    /\ \E row \in ProbeAndSeal(Plan(p, given, i), given) : CreateIntegration(o, i, row)
    /\ UNCHANGED <<records, flow, request>>

\* A revision of the configuration alone leaves the Verification as it is.
ReviseIntegration(o, i) ==
    /\ Addressed(o, i)
    /\ integration' = [integration EXCEPT ![i].config = Submitted(integration[i].provider),
                                          ![i].current = @ /\ ~Catalog[integration[i].provider].fields]

Revise(o, i, given) ==
    LET p == integration[i].provider
        d == Catalog[p]
    IN  /\ Addressed(o, i)
        /\ CheckConfiguration(d, given, FALSE)
        /\ Make(Count(d.fields) + Count(given))
        /\ \/ ~given /\ ReviseIntegration(o, i)
           \/ /\ given /\ Sealing
              /\ \E v \in Probe(p, integration[i].key) :
                    /\ v.status # "failed"
                    /\ ReplaceIntegrationCredential(o, i, Submitted(p),
                            Seal(Material(p), i, TRUE), v, None)
        /\ UNCHANGED <<records, flow, request>>

SetIntegrationDisabled(o, i, disabled) ==
    /\ Addressed(o, i)
    /\ integration' = [integration EXCEPT ![i].disabled = disabled]
    /\ UNCHANGED <<records, flow, request, fresh>>

RotateIntegrationWebhookSecret(o, i) ==
    /\ Addressed(o, i)
    /\ integration[i].secret # 0
    /\ Make(1)
    /\ integration' = [integration EXCEPT ![i].secret = fresh + 1]
    /\ UNCHANGED <<records, flow, request>>

\* verify reads the row; what it found is what it judges.
ReadForVerify(r, o, i) ==
    /\ request[r] = Idle
    /\ Addressed(o, i)
    /\ request' = [request EXCEPT ![r] =
            [Idle EXCEPT !.op = "verify", !.who = o, !.id = i, !.seen = Seen(integration[i])]]
    /\ UNCHANGED <<integration, records, flow, fresh>>

\* RecordCredentialUnseal: the audit event is committed by itself.
RecordCredentialUnseal(r) ==
    /\ request[r].op \in {"verify", "run"}
    /\ request[r].seen.credential # NoCredential
    /\ ~request[r].recorded
    /\ request' = [request EXCEPT ![r].recorded = TRUE]
    /\ UNCHANGED <<integration, records, flow, fresh>>

\* Open: only once the event is recorded, and only with the key and the binding
\* it was sealed with.
OpenCredential(r) ==
    /\ request[r].op \in {"verify", "run"}
    /\ request[r].seen.credential # NoCredential
    /\ request[r].recorded /\ ~request[r].opened
    /\ Sealing /\ request[r].seen.credential.bound = request[r].id
    /\ request' = [request EXCEPT ![r].opened = TRUE]
    /\ UNCHANGED <<integration, records, flow, fresh>>

\* probeExisting: the provider's answer, or a failure that used no credential.
ProbeExisting(r) ==
    LET seen == request[r].seen
    IN  IF seen.credential = NoCredential \/ request[r].opened
        THEN Probe(seen.provider, seen.key) ELSE {Failed}

\* What the row that was read is judged by.
Evidence(r) ==
    LET seen == request[r].seen
    IN  CASE seen.provider = "alertmanager" -> VerifyAlertmanager(request[r].id)
          [] seen.provider = "generic_webhook" -> VerifyGenericWebhook(request[r].id)
          [] seen.provider = "kubernetes" ->
                UNION {VerifyKubernetes(s) : s \in IntegrationRelayStatus}
          [] OTHER -> ProbeExisting(r)

\* The provider answers, or the last delivery or the Relay's status is read.
Judge(r) ==
    /\ request[r].op = "verify"
    /\ \E v \in Evidence(r) :
        request' = [request EXCEPT ![r].op = "judged", ![r].verdict = v]
    /\ UNCHANGED <<integration, records, flow, fresh>>

\* The outcome is written, if the row is still there.
Verify(r) ==
    LET i == request[r].id
    IN  /\ request[r].op = "judged"
        /\ \/ RecordIntegrationVerification(request[r].who, i, request[r].verdict, request[r].seen)
           \/ ~Addressed(request[r].who, i) /\ UNCHANGED integration
        /\ Done(r)
        /\ UNCHANGED <<records, flow, fresh>>

-----------------------------------------------------------------------------
(* The connect flow. *)

\* StartConnectFlow: spent flows are cleared, and this one inserted.
StartConnectFlow(f, o, p) ==
    /\ flow' = [g \in Flows |->
            CASE g = f -> [state |-> "open", by |-> o, provider |-> p]
              [] flow[g].state = "expired" -> [NoFlow EXCEPT !.state = "gone"]
              [] OTHER -> flow[g]]
    /\ UNCHANGED <<integration, records, request, fresh>>

StartConnect(f, o, p) ==
    /\ Catalog[p].connect
    /\ Catalog[p].secret => Sealing
    /\ flow[f] = NoFlow
    /\ StartConnectFlow(f, o, p)

\* What the callback knows once it has read the flow: it is refused to another
\* User than the one who started it.
Redeemed(o, f) ==
    IF flow[f].by # o THEN Idle
    ELSE [Idle EXCEPT !.op = "redeemed", !.who = o, !.provider = flow[f].provider, !.flow = f]

\* Mutant: the flow is read and not deleted.
ReadConnectFlow(r, o, f) ==
    /\ request[r] = Idle
    /\ flow[f].state = "open"
    /\ request' = [request EXCEPT ![r] = Redeemed(o, f)]
    /\ UNCHANGED <<integration, records, flow, fresh>>

\* RedeemConnectFlow deletes the flow whoever presents it.
RedeemConnectFlow(r, o, f) ==
    /\ request[r] = Idle
    /\ flow[f].state = "open"
    /\ flow' = [flow EXCEPT ![f].state = "gone"]
    /\ request' = [request EXCEPT ![r] = Redeemed(o, f)]
    /\ UNCHANGED <<integration, records, fresh>>

\* Slack exchanges the code for a token of one installation.
RedeemSlack(r, k) ==
    /\ request[r].provider = "slack"
    /\ Make(1)
    /\ request' = [request EXCEPT ![r].op = "bound", ![r].key = k, ![r].word = fresh + 1]

\* GitHub names an installation, and hands out no credential.
RedeemGitHub(r, k) ==
    /\ request[r].provider = "github"
    /\ request' = [request EXCEPT ![r].op = "bound", ![r].key = k]
    /\ UNCHANGED fresh

\* The provider proves the installation; if it does not, the callback ends.
Redeem(r, k) ==
    /\ request[r].op = "redeemed"
    /\ RedeemSlack(r, k) \/ RedeemGitHub(r, k)
    /\ UNCHANGED <<integration, records, flow>>

\* IntegrationByInstallation, in any Organization.
OwnerOf(p, k) ==
    {i \in Ids : integration[i].state = "live" /\ integration[i].provider = p
                 /\ integration[i].key = k}

\* record: who owns the installation decides what becomes of the callback.
FindInstallation(r) ==
    LET o == request[r].who
        owner == OwnerOf(request[r].provider, request[r].key)
        next(i) == IF integration[i].org # Home[o] THEN Idle
                   ELSE [request[r] EXCEPT !.op = IF request[r].word = 0 THEN "verify" ELSE "reconnect",
                                           !.id = i, !.seen = Seen(integration[i])]
    IN  /\ request[r].op = "bound"
        /\ \/ owner = {} /\ request' = [request EXCEPT ![r].op = "connect"]
           \/ \E i \in owner : request' = [request EXCEPT ![r] = next(i)]
        /\ UNCHANGED <<integration, records, flow, fresh>>

\* Mutant: the installation's key is not unique.
ConnectTwice(r, i) ==
    LET p == request[r].provider
        row == [Absent EXCEPT !.provider = p, !.key = request[r].key,
                    !.credential = IF request[r].word = 0 THEN NoCredential
                                   ELSE Seal(request[r].word, i, TRUE)]
    IN  /\ request[r].op = "connect"
        /\ \E v \in Probe(p, request[r].key) :
            /\ v.status # "failed"
            /\ CreateIntegration(request[r].who, i, VerifiedNow(row, v))
        /\ Done(r)
        /\ UNCHANGED <<records, flow, fresh>>

\* A new Integration of a proven installation: probed, sealed, inserted with its
\* installation, unless the key was taken meanwhile.
Connect(r, i) ==
    LET p == request[r].provider
        row == [Absent EXCEPT !.provider = p,
                    !.credential = IF request[r].word = 0 THEN NoCredential
                                   ELSE Seal(request[r].word, i, TRUE)]
    IN  /\ request[r].op = "connect"
        /\ \E v \in Probe(p, request[r].key) :
            \/ /\ v.status # "failed" /\ ~InstallationTaken(p, request[r].key, i)
               /\ CreateIntegration(request[r].who, i,
                        VerifiedNow(RecordInstallation(row, request[r].key), v))
            \/ /\ v.status = "failed" \/ InstallationTaken(p, request[r].key, i)
               /\ UNCHANGED integration
        /\ Done(r)
        /\ UNCHANGED <<records, flow, fresh>>

\* An installation the Organization already has: its token is replaced, if the
\* provider accepts the new one and the Integration is still there.
Reconnect(r) ==
    LET i == request[r].id
    IN  /\ request[r].op = "reconnect"
        /\ \E v \in Probe(request[r].provider, request[r].key) :
            \/ /\ v.status # "failed" /\ ~InstallationTaken(request[r].provider, request[r].key, i)
               /\ ReplaceIntegrationCredential(request[r].who, i, integration[i].config,
                        Seal(request[r].word, i, TRUE), v, request[r].key)
            \/ /\ \/ v.status = "failed"
                  \/ InstallationTaken(request[r].provider, request[r].key, i)
                  \/ ~Addressed(request[r].who, i)
               /\ UNCHANGED integration
        /\ Done(r)
        /\ UNCHANGED <<records, flow, fresh>>

-----------------------------------------------------------------------------
(* Use and removal. *)

\* authenticate: the secret presented is the row's, and the Integration enabled.
Authenticate(r, i, secret) ==
    /\ request[r] = Idle
    /\ integration[i].state = "live" /\ Catalog[integration[i].provider].webhook
    /\ integration[i].secret = secret /\ ~integration[i].disabled
    /\ request' = [request EXCEPT ![r] = [Idle EXCEPT !.op = "delivery", !.id = i]]
    /\ UNCHANGED <<integration, records, flow, fresh>>

\* A signed Slack event finds its Integration by the installation.
HandleSlackEvents(r, k) ==
    \E i \in OwnerOf("slack", k) :
        /\ request[r] = Idle
        /\ ~integration[i].disabled
        /\ request' = [request EXCEPT ![r] = [Idle EXCEPT !.op = "message", !.id = i]]
        /\ UNCHANGED <<integration, records, flow, fresh>>

\* integrationEligible, and Tools whose grants the Verification recorded.
IntegrationEligible(row) == ~row.disabled /\ row.status = "verified"
SupportedTools(row) ==
    /\ IntegrationEligible(row)
    /\ \/ Catalog[row.provider].tools = "free"
       \/ Catalog[row.provider].tools = "granted" /\ row.grants

\* A run reads the Integrations once, when it starts.
StartRun(r, i) ==
    /\ request[r] = Idle
    /\ integration[i].state = "live" /\ SupportedTools(integration[i])
    /\ request' = [request EXCEPT ![r] =
            [Idle EXCEPT !.op = "run", !.id = i, !.seen = Seen(integration[i])]]
    /\ UNCHANGED <<integration, records, flow, fresh>>

\* A row that names the Integration, whose foreign key needs it.
RecordsOf(i, kinds) ==
    IF integration[i].state = "live" THEN [records EXCEPT ![i] = @ \cup kinds] ELSE records

\* recordAlertDelivery: the delivery and its Alert Events.
RecordDelivery(r) ==
    /\ request[r].op = "delivery"
    /\ records' = RecordsOf(request[r].id, {"delivery"})
    /\ Done(r)
    /\ UNCHANGED <<integration, flow, fresh>>

\* RecordSlackMessage: the delivery, the thread's Conversation and the work, in
\* one transaction.
AcceptSlackMessage(r) ==
    /\ request[r].op = "message"
    /\ records' = RecordsOf(request[r].id, {"delivery", "conversation", "message"})
    /\ Done(r)
    /\ UNCHANGED <<integration, flow, fresh>>

\* recordToolRun, of a call that was executed, refused, suppressed, or failed
\* before it had the credential.  The run goes on, unless it could not be written.
RecordToolRun(r) ==
    /\ request[r].op = "run"
    /\ records' = RecordsOf(request[r].id, {"toolrun"})
    /\ IF integration[request[r].id].state = "live" THEN UNCHANGED request ELSE Done(r)
    /\ UNCHANGED <<integration, flow, fresh>>

\* DeleteIntegration up to the counts of what depends on it.
CountDependents(r, o, i) ==
    /\ request[r] = Idle
    /\ Addressed(o, i)
    /\ records[i] \cap Counted = {}
    /\ request' = [request EXCEPT ![r] = [Idle EXCEPT !.op = "delete", !.who = o, !.id = i]]
    /\ UNCHANGED <<integration, records, flow, fresh>>

\* The Conversations and their replies, the installation and the row go together,
\* unless a foreign key is in the way.
DeleteIntegration(r) ==
    LET i == request[r].id
        deleted == Addressed(request[r].who, i) /\ records[i] \ Retired = {}
    IN  /\ request[r].op = "delete"
        /\ integration' = IF deleted THEN [integration EXCEPT ![i] = [Absent EXCEPT !.state = "gone"]]
                          ELSE integration
        /\ records' = IF deleted THEN [records EXCEPT ![i] = {}] ELSE records
        /\ Done(r)
        /\ UNCHANGED <<flow, fresh>>

\* Time passes for a flow.
Expire(f) ==
    /\ flow[f].state = "open"
    /\ flow' = [flow EXCEPT ![f].state = "expired"]
    /\ UNCHANGED <<integration, records, request, fresh>>

\* A provider that proves nothing, an error of the store, a closed connection, a
\* run that ends.
Abandon(r) ==
    /\ request[r] # Idle
    /\ Done(r)
    /\ UNCHANGED <<integration, records, flow, fresh>>

\* The steps of a deployment that offers the given providers.
Step(offered) ==
    \/ \E o \in Operators :
        /\ actor' = o
        /\ \/ \E i \in Ids :
                \/ \E given \in BOOLEAN : Revise(o, i, given) \/ \E p \in offered : Create(o, i, p, given)
                \/ \E disabled \in BOOLEAN : SetIntegrationDisabled(o, i, disabled)
                \/ RotateIntegrationWebhookSecret(o, i)
                \/ \E r \in Requests : ReadForVerify(r, o, i) \/ CountDependents(r, o, i)
           \/ \E f \in Flows :
                \/ \E p \in offered : StartConnect(f, o, p)
                \/ \E r \in Requests : RedeemConnectFlow(r, o, f)
    \/ \E r \in Requests :
        /\ actor' = request[r].who
        /\ \/ \E k \in Keys : Redeem(r, k) \/ HandleSlackEvents(r, k)
           \/ \E i \in Ids :
                \/ Connect(r, i) \/ StartRun(r, i)
                \/ \E secret \in 1 .. MaxFresh : Authenticate(r, i, secret)
           \/ RecordCredentialUnseal(r) \/ OpenCredential(r) \/ Judge(r) \/ Verify(r)
           \/ FindInstallation(r) \/ Reconnect(r)
           \/ RecordDelivery(r) \/ AcceptSlackMessage(r) \/ RecordToolRun(r)
           \/ DeleteIntegration(r) \/ Abandon(r)
    \/ \E f \in Flows : Expire(f) /\ actor' = None

Next == Step(Served)

Spec == Init /\ [][Next]_vars

-----------------------------------------------------------------------------
(* Properties. *)

Numbers == 0 .. MaxFresh
Rows ==
    [state : {"absent", "live", "gone"}, org : Orgs \cup {None},
     provider : Served \cup {None}, config : Numbers,
     credential : [word : Numbers, bound : Ids \cup {None}, probed : BOOLEAN], secret : Numbers,
     status : {"verified", "failed", None}, grants : BOOLEAN,
     current : BOOLEAN, disabled : BOOLEAN, key : Keys \cup {None}]

TypeOK ==
    /\ integration \in [Ids -> Rows]
    /\ records \in [Ids -> SUBSET (Protected \cup Retired)]
    /\ flow \in [Flows -> [state : {"unminted", "open", "expired", "gone"},
                           by : Operators \cup {None}, provider : Served \cup {None}]]
    /\ \A r \in Requests : /\ request[r].seen.config \in Numbers
                           /\ request[r].who \in Operators \cup {None}
                           /\ request[r].id \in Ids \cup {None}
    /\ fresh \in Numbers
    /\ actor \in Operators \cup {None}

\* Everything that names an Integration finds it: what depends on one keeps it
\* from being deleted, however the deletion and the insert interleave; the row
\* and its grants agree, and every stored credential was accepted by a probe
\* before it was saved and can be opened for the Integration that holds it
\* (DeleteIntegration, ReplaceIntegrationCredential, CreateIntegration).
Consistent ==
    /\ TypeOK
    /\ \A i \in Ids :
        LET row == integration[i]
        IN  /\ records[i] # {} => row.state = "live"
            /\ row.grants => row.status = "verified"
            /\ row.credential # NoCredential => row.credential.probed /\ row.credential.bound = i

\* An installation is owned by one Integration of the deployment, whichever of
\* two callbacks for it commits first, and a row that is gone owns none.  Rows,
\* credentials and what depends on them agree (Connect, DeleteIntegration).
InstallationsAreOwnedOnce ==
    /\ Consistent
    /\ \A p \in Served, k \in Keys : Cardinality(OwnerOf(p, k)) <= 1
    /\ \A i \in Ids : integration[i].key # None => integration[i].state = "live"

\* A connect flow serves one callback: two that present the same state never both
\* go on, and the one that does is of the User who started the flow and connects
\* the provider it was started for (RedeemConnectFlow).
ConnectFlowsAreRedeemedOnce ==
    \A r \in Requests :
        LET f == request[r].flow
        IN  f # None =>
                /\ flow[f].by = request[r].who /\ flow[f].provider = request[r].provider
                /\ \A other \in Requests \ {r} : request[other].flow # f

\* Whatever changes an Integration is done for a User of the Organization that
\* has it, before and after: a revision, a rotation or a deletion, and what a
\* Verification or a callback writes long after it read the row, even where two
\* Organizations proved the same installation (Addressed, FindInstallation).
StaysInTheOrganization ==
    [][\A i \in Ids :
        integration'[i] # integration[i] =>
            /\ actor' # None
            /\ integration[i].state = "live" => integration[i].org = Home[actor']
            /\ integration'[i].state = "live" => integration'[i].org = Home[actor']]_vars

\* README: "Integrations expose only the capabilities that were successfully
\* verified for that connection."
GrantsAreOfTheConnection ==
    \A i \in Ids :
        LET row == integration[i]
        IN  row.state = "live" /\ SupportedTools(row) => row.current

=============================================================================
