--------------------------- MODULE IncidentIntake ---------------------------
(***************************************************************************)
(* Alert intake of one Integration: webhook deliveries become Alert Events, *)
(* Alert Events are grouped into Incidents, and every opened Incident gets  *)
(* its automatic Investigation; operators merge Incidents meanwhile.        *)
(*                                                                          *)
(* A delivery is one READ COMMITTED transaction of several statements, and  *)
(* deliveries run concurrently. `alert' and `incident' hold the committed   *)
(* rows; a transaction holds the rows it has locked, in its own version,    *)
(* until it commits or rolls back, and any other transaction that wants     *)
(* one of them waits. A statement reads one snapshot, taken as it starts.   *)
(***************************************************************************)
EXTENDS Integers, FiniteSets, FiniteSetsExt

CONSTANTS
    Deliveries,     \* requests a source sends, and sends again until accepted
    Identity,       \* provider identity and lifecycle phase of each delivery
    Batch,          \* the Alert Events of each delivery: alert |-> status
    Alerts,         \* (source_key, started_at) in sorted order: integers
    Key,            \* grouping key of each alert, its source key if it has none
    Operators,      \* users merging Incidents
    None,           \* SQL NULL
    AgentAvailable, \* AlertAdmissionPolicy.AgentAvailable
    MaxIncidents,   \* bound: Incidents ever open
    MaxConcurrent   \* bound: transactions in progress at once

ASSUME AlertsAssumption == Alerts \subseteq Nat /\ IsFiniteSet(Alerts)
ASSUME BatchAssumption ==
    \A d \in Deliveries : /\ DOMAIN Batch[d] \subseteq Alerts
                          /\ \A a \in DOMAIN Batch[d] : Batch[d][a] \in {"firing", "resolved"}
ASSUME NoneAssumption ==
    None \notin Nat /\ None \notin Deliveries /\ None \notin {"accepted", "already accepted"}
ASSUME BoundAssumption == MaxIncidents \in Nat /\ MaxConcurrent \in Nat
ASSUME OperatorsAssumption == Operators \cap Deliveries = {}

\* incident_id
Incidents == 1 .. MaxIncidents
Keys == {Key[a] : a \in Alerts}
Txns == Deliveries \cup Operators

AlertRow == [status : {"absent", "firing", "resolved"}, incident : Incidents \cup {None}]
IncidentRow == [status : {"absent", "open", "resolved"}, key : Keys \cup {None},
                merged : Incidents \cup {None}, investigated : BOOLEAN]

VARIABLES
    alert,      \* alert_event, committed
    incident,   \* incident and its automatic investigation, committed
    accepted,   \* webhook_delivery, committed: the delivery each identity stands for
    answer,     \* the last status each source was given
    txn         \* the transactions in progress

vars == <<alert, incident, accepted, answer, txn>>

Identities == {Identity[d] : d \in Deliveries}

-----------------------------------------------------------------------------
(* Transactions.                                                            *)

\* A connection with no transaction open.
NoTxn == [step |-> "idle", todo |-> {}, target |-> None, firing |-> FALSE,
          fresh |-> {}, alerts |-> <<>>, incidents |-> <<>>]

Active == {t \in Txns : txn[t].step # "idle"}

\* The rows of old, those the transaction has written in its own version.
Over(new, old) == [x \in DOMAIN old |-> IF x \in DOMAIN new THEN new[x] ELSE old[x]]

\* The table with one more row locked and written.
With(rows, x, row) == [y \in DOMAIN rows \cup {x} |-> IF y = x THEN row ELSE rows[y]]

\* What a statement of t sees: its own writes over what is committed.
SeenAlert(t, a) == Over(txn[t].alerts, alert)[a]
SeenIncident(t, i) == Over(txn[t].incidents, incident)[i]

AlertLocked(t, a) == \E u \in Active \ {t} : a \in DOMAIN txn[u].alerts
IncidentLocked(t, i) == \E u \in Active \ {t} : i \in DOMAIN txn[u].incidents

\* incident_open_key_idx: an open row of the key that another transaction
\* has in hand, before or after its change. An insert waits for its end.
KeyContended(t, k) ==
    \E u \in Active \ {t} : \E i \in DOMAIN txn[u].incidents :
        \/ incident[i].status = "open" /\ incident[i].key = k
        \/ txn[u].incidents[i].status = "open" /\ txn[u].incidents[i].key = k

OpenOf(t, k) == {i \in Incidents : SeenIncident(t, i).status = "open" /\ SeenIncident(t, i).key = k}

\* Ids nobody has used.
FreeIds == {i \in Incidents : /\ incident[i].status = "absent"
                              /\ \A u \in Active : i \notin DOMAIN txn[u].incidents}

Begin(t) == txn[t].step = "idle" /\ Cardinality(Active) < MaxConcurrent

\* The transaction of t ends without a trace: an error or a cancelled
\* request, a full Investigation queue, or a deadlock Postgres broke.
Rollback(t) ==
    /\ t \in Active
    /\ txn' = [txn EXCEPT ![t] = NoTxn]
    /\ answer' = IF t \in Deliveries THEN [answer EXCEPT ![t] = "not recorded"] ELSE answer
    /\ UNCHANGED <<alert, incident, accepted>>

-----------------------------------------------------------------------------
(* RecordDelivery.                                                          *)

\* The step after Alert Event a of d: the next one in sorted order, or none.
Advance(r, a) == [r EXCEPT !.todo = @ \ {a}, !.target = None, !.firing = FALSE,
                           !.step = IF r.todo = {a} THEN "open" ELSE "upsert"]

\* An insert of the same identity is in progress.
Claiming(d) == \E u \in Active \cap Deliveries : Identity[u] = Identity[d]

\* claimDelivery, the identity is new: INSERT ... ON CONFLICT DO NOTHING.
ClaimDelivery(d) ==
    /\ Begin(d)
    /\ ~Claiming(d)
    /\ accepted[Identity[d]] = None
    /\ txn' = [txn EXCEPT ![d].step = IF DOMAIN Batch[d] = {} THEN "open" ELSE "upsert",
                          ![d].todo = DOMAIN Batch[d]]
    /\ UNCHANGED <<alert, incident, accepted, answer>>

\* Mutant: an accepted identity is a duplicate whatever its content.
RefuseByIdentity(d) ==
    /\ Begin(d)
    /\ ~Claiming(d)
    /\ accepted[Identity[d]] # None
    /\ answer' = [answer EXCEPT ![d] = "already accepted"]
    /\ UNCHANGED <<alert, incident, accepted, txn>>

\* claimDelivery, the identity was accepted before: the content digests decide
\* between a duplicate and a conflict.
RefuseDelivery(d) ==
    /\ Begin(d)
    /\ ~Claiming(d)
    /\ accepted[Identity[d]] # None
    /\ answer' = [answer EXCEPT ![d] = IF Batch[accepted[Identity[d]]] = Batch[d]
                                       THEN "already accepted" ELSE "conflict"]
    /\ UNCHANGED <<alert, incident, accepted, txn>>

\* Mutant: the status is the one delivered last.
LatestStatus(row, delivered) == delivered

\* A row that is already resolved is locked and left as it is.
KeptStatus(row, delivered) == IF row.status = "resolved" THEN "resolved" ELSE delivered

\* upsertAlertEvent and what RecordDelivery does with its outcome.
UpsertAlertEvent(d) ==
    LET a == Min(txn[d].todo)
        row == SeenAlert(d, a)
        to == [txn[d] EXCEPT !.alerts = With(@, a, [row EXCEPT !.status = KeptStatus(row, Batch[d][a])])]
    IN /\ txn[d].step = "upsert"
       /\ ~AlertLocked(d, a)
       /\ txn' = [txn EXCEPT ![d] =
              CASE row.status = "absent" /\ Batch[d][a] = "resolved" -> Advance(to, a)
                [] row.status = "absent" /\ Batch[d][a] = "firing" -> [to EXCEPT !.step = "group"]
                [] row.status = "firing" /\ row.incident = None -> Advance(to, a)
                [] row.status = "firing" /\ row.incident # None ->
                       [to EXCEPT !.step = "count", !.target = row.incident]
                [] row.status = "resolved" -> Advance(to, a)]
       /\ UNCHANGED <<alert, incident, accepted, answer>>

\* groupAlertEvent up to its refresh: openIncident inserts an open Incident of
\* the key or locks the one there is, and the new Alert Event joins it.
GroupAlertEvent(d) ==
    LET a == Min(txn[d].todo)
        open == OpenOf(d, Key[a])
        i == IF open = {} THEN Min(FreeIds) ELSE Min(open)
        row == IF open = {}
               THEN [status |-> "open", key |-> Key[a], merged |-> None, investigated |-> FALSE]
               ELSE SeenIncident(d, i)
    IN /\ txn[d].step = "group"
       /\ ~KeyContended(d, Key[a])
       /\ \A j \in open : ~IncidentLocked(d, j)
       /\ open = {} => FreeIds # {}
       /\ txn' = [txn EXCEPT
              ![d].alerts = With(@, a, [SeenAlert(d, a) EXCEPT !.incident = i]),
              ![d].incidents = With(@, i, row),
              ![d].fresh = IF open = {} THEN @ \cup {i} ELSE @,
              ![d].target = i,
              ![d].step = "count"]
       /\ UNCHANGED <<alert, incident, accepted, answer>>

\* refreshIncident, its sub-select: the firing Alert Events of the Incident in
\* the snapshot the statement starts with.
CountFiring(d) ==
    /\ txn[d].step = "count"
    /\ txn' = [txn EXCEPT
           ![d].firing = \E a \in Alerts : /\ SeenAlert(d, a).incident = txn[d].target
                                           /\ SeenAlert(d, a).status = "firing",
           ![d].step = "refresh"]
    /\ UNCHANGED <<alert, incident, accepted, answer>>

\* refreshIncident, its update: it waits for the row, applies to the row's
\* newest version, and the sub-select is not read again. incident_open_key_idx
\* refuses a second open row of the key, which rolls the delivery back.
RefreshIncident(d) ==
    LET i == txn[d].target
        to == IF txn[d].firing THEN "open" ELSE "resolved"
    IN /\ txn[d].step = "refresh"
       /\ ~IncidentLocked(d, i)
       /\ to = "open" => /\ OpenOf(d, SeenIncident(d, i).key) \subseteq {i}
                         /\ ~KeyContended(d, SeenIncident(d, i).key)
       /\ txn' = [txn EXCEPT ![d] = Advance(
              [txn[d] EXCEPT !.incidents = With(@, i, [SeenIncident(d, i) EXCEPT !.status = to])],
              Min(txn[d].todo))]
       /\ UNCHANGED <<alert, incident, accepted, answer>>

\* openAlertInvestigations: the Incidents this delivery opened get their
\* automatic Investigation, if there is an Agent.
OpenInvestigations(d, rows) ==
    [i \in Incidents |-> IF AgentAvailable /\ i \in txn[d].fresh
                         THEN [rows[i] EXCEPT !.investigated = TRUE]
                         ELSE rows[i]]

\* The end of RecordDelivery: everything it wrote is committed at once.
CommitDelivery(d) ==
    /\ txn[d].step = "open"
    /\ alert' = Over(txn[d].alerts, alert)
    /\ incident' = OpenInvestigations(d, Over(txn[d].incidents, incident))
    /\ accepted' = [accepted EXCEPT ![Identity[d]] = d]
    /\ answer' = [answer EXCEPT ![d] = "accepted"]
    /\ txn' = [txn EXCEPT ![d] = NoTxn]

-----------------------------------------------------------------------------
(* MergeIncidents.                                                          *)

\* Mutant: an Incident may be merged into itself.
LockAnyAbsorbed(o, i, j) ==
    /\ Begin(o)
    /\ incident[i].status # "absent"
    /\ ~IncidentLocked(o, i)
    /\ txn' = [txn EXCEPT ![o].step = "merge", ![o].target = j,
                          ![o].incidents = With(@, i, incident[i])]
    /\ UNCHANGED <<alert, incident, accepted, answer>>

\* lockIncident of the absorbed Incident: SELECT ... FOR UPDATE.
LockAbsorbed(o, i, j) ==
    /\ Begin(o)
    /\ i # j
    /\ incident[i].status # "absent"
    /\ ~IncidentLocked(o, i)
    /\ txn' = [txn EXCEPT ![o].step = "merge", ![o].target = j,
                          ![o].incidents = With(@, i, incident[i])]
    /\ UNCHANGED <<alert, incident, accepted, answer>>

Mergeable(absorbed, surviving) == absorbed.merged = None /\ surviving.merged = None

\* lockIncident of the surviving one, mergeable, and the update with its commit.
MergeIncidents(o) ==
    LET j == txn[o].target
    IN /\ txn[o].step = "merge"
       /\ ~IncidentLocked(o, j)
       /\ incident[j].status # "absent"
       /\ \E i \in DOMAIN txn[o].incidents :
              incident' = IF Mergeable(txn[o].incidents[i], incident[j])
                          THEN [incident EXCEPT ![i] = [txn[o].incidents[i] EXCEPT !.merged = j]]
                          ELSE incident
       /\ txn' = [txn EXCEPT ![o] = NoTxn]
       /\ UNCHANGED <<alert, accepted, answer>>

-----------------------------------------------------------------------------
Init ==
    /\ alert = [a \in Alerts |-> [status |-> "absent", incident |-> None]]
    /\ incident = [i \in Incidents |-> [status |-> "absent", key |-> None, merged |-> None,
                                        investigated |-> FALSE]]
    /\ accepted = [n \in Identities |-> None]
    /\ answer = [d \in Deliveries |-> None]
    /\ txn = [t \in Txns |-> NoTxn]

DeliveryStep(d) ==
    \/ ClaimDelivery(d)
    \/ RefuseDelivery(d)
    \/ UpsertAlertEvent(d)
    \/ GroupAlertEvent(d)
    \/ CountFiring(d)
    \/ RefreshIncident(d)
    \/ CommitDelivery(d)

MergeStep(o) ==
    \/ \E i, j \in Incidents : LockAbsorbed(o, i, j)
    \/ MergeIncidents(o)

Next ==
    \/ \E d \in Deliveries : DeliveryStep(d)
    \/ \E o \in Operators : MergeStep(o)
    \/ \E t \in Txns : Rollback(t)

Spec == Init /\ [][Next]_vars

-----------------------------------------------------------------------------
(* Properties.                                                              *)

TypeOK ==
    /\ alert \in [Alerts -> AlertRow]
    /\ incident \in [Incidents -> IncidentRow]
    /\ accepted \in [Identities -> Deliveries \cup {None}]
    /\ answer \in [Deliveries ->
           {None, "accepted", "already accepted", "conflict", "not recorded"}]
    /\ \A t \in Txns :
           /\ txn[t].step \in {"idle", "upsert", "group", "count", "refresh", "open", "merge"}
           /\ txn[t].todo \subseteq Alerts
           /\ txn[t].target \in
                  IF txn[t].step \in {"count", "refresh", "merge"} THEN Incidents ELSE {None}
           /\ txn[t].firing \in BOOLEAN
           /\ txn[t].fresh \subseteq Incidents
           /\ \A a \in DOMAIN txn[t].alerts : a \in Alerts /\ txn[t].alerts[a] \in AlertRow
           /\ \A i \in DOMAIN txn[t].incidents :
                  i \in Incidents /\ txn[t].incidents[i] \in IncidentRow

\* A source told that its delivery is accepted, now or before, can forget it:
\* all of its Alert Events are recorded, the resolved ones as resolved. A
\* delivery is recorded whole or not at all, and an identity that stands for
\* other content is never taken for a duplicate (RecordDelivery, claimDelivery).
AcceptedIsRecorded ==
    \A d \in Deliveries : answer[d] \in {"accepted", "already accepted"} =>
        \A a \in DOMAIN Batch[d] :
            /\ alert[a].status # "absent"
            /\ Batch[d][a] = "resolved" => alert[a].status = "resolved"

\* Every firing Alert Event belongs to an Incident of its own grouping key that
\* has been committed with it, whichever of two concurrent deliveries opened
\* that Incident and whichever rolled back (groupAlertEvent).
FiringIsGrouped ==
    \A a \in Alerts :
        /\ alert[a].status = "firing" => alert[a].incident # None
        /\ alert[a].incident # None => /\ incident[alert[a].incident].status # "absent"
                                       /\ incident[alert[a].incident].key = Key[a]

\* Two deliveries that fire the same group at once share one Incident: a
\* grouping key has at most one open Incident (openIncident).
OneOpenIncidentPerKey ==
    \A i, j \in Incidents :
        incident[i].status = "open" /\ incident[j].status = "open" /\ incident[i].key = incident[j].key
            => i = j

\* An Incident commits together with its automatic Investigation, also when the
\* delivery that joined it overlaps the one that opened it (openAlertInvestigations).
IncidentsAreInvestigated ==
    \A i \in Incidents : incident[i].investigated <=> (AgentAvailable /\ incident[i].status # "absent")

\* Merging never closes a circle, even when two operators merge the same
\* Incidents in opposite directions: following superseded_by ends
\* (MergeIncidents, mergeable).
MergesAreAcyclic ==
    \A S \in (SUBSET Incidents) \ {{}} : \E i \in S : incident[i].merged \notin S

\* What a source may forget has become an Incident that is being investigated
\* (RecordDelivery).
AlertsReachIncidents == AcceptedIsRecorded /\ FiringIsGrouped /\ IncidentsAreInvestigated

\* Rows and transactions are well formed, keys are not shared and merges end
\* (openIncident, MergeIncidents).
IncidentsAreSound == TypeOK /\ OneOpenIncidentPerKey /\ MergesAreAcyclic

\* Webhooks are unordered: once an Alert Event is resolved a late firing leaves it
\* resolved and in the Incident it had (upsertAlertEvent). A merge is never undone
\* or redirected, and a refresh of the absorbed Incident by a delivery that waited
\* for the merge keeps it (refreshIncident).
NothingIsUndone ==
    [][/\ \A a \in Alerts : alert[a].status = "resolved" => alert'[a] = alert[a]
       /\ \A i \in Incidents : incident[i].merged # None =>
              incident'[i].merged = incident[i].merged]_vars

\* An Incident is open exactly while one of its Alert Events is firing: it
\* resolves when none of them is (refreshIncident).
OpenWhileFiring ==
    \A i \in Incidents : incident[i].status # "absent" =>
        (incident[i].status = "open"
            <=> \E a \in Alerts : alert[a].incident = i /\ alert[a].status = "firing")
=============================================================================
