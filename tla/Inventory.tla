----------------------------- MODULE Inventory -----------------------------
(***************************************************************************)
(* A Relay watches the workloads of a cluster and sends what it observes as *)
(* deltas; the control plane records them as change events, keeps for the   *)
(* scope what is covered and confirmed, and gives an Investigation the      *)
(* workloads that exist.  A delta that is not acknowledged is sent again,   *)
(* so deltas are repeated and overtaken; retention removes old events.      *)
(*                                                                          *)
(* One Integration; the cluster and the Relay are not part of the           *)
(* repository.  A moment is the number of an observation.                   *)
(***************************************************************************)
EXTENDS Integers, Sequences, FiniteSets

CONSTANTS
    Names,              \* of objects: a namespace, a kind and a name, in the order of the list
    Workloads,          \* those of a Deployment, a StatefulSet or a DaemonSet
    InventoryLimit,     \* LIMIT of the list
    Uids,               \* objects of the cluster, in the order of their UIDs
    Intervals,          \* synchronization intervals a process may ask for
    MaxObservations,    \* bound: deltas
    MaxRevision,        \* bound: revisions of an object
    MaxPolicies,        \* bound: policy revisions
    MaxPruned           \* bound: events retention removes

ASSUME InventoryAssumption ==
    /\ Names \subseteq Nat \ {0} /\ Workloads \subseteq Names /\ InventoryLimit \in Nat
    /\ Uids \subseteq Nat \ {0} /\ IsFiniteSet(Uids) /\ Intervals \subseteq Nat \ {0}
    /\ {MaxObservations, MaxRevision, MaxPolicies, MaxPruned} \subseteq Nat

\* SQL NULL, and the time before any observation.
Unset == -1

VARIABLES
    cluster,        \* the objects at the last observation: uid -> name and revision
    seen,           \* the objects that were ever observed
    watching,       \* the Relay has observed since it started
    outbox,         \* deltas the Relay has not seen acknowledged
    observations,   \* deltas so far, and the Relay's clock
    policy,         \* the policy revision the Relay was last sent
    scope,          \* change_scope
    events,         \* change_event, in the order of change_event_id and received_at
    applied,        \* deltas that were committed
    pruned          \* names an event of which retention removed

inventoryVars == <<cluster, seen, watching, outbox, observations, policy, scope, events, applied, pruned>>

Moments == 0 .. MaxObservations
Object == [name : Names, revision : 1 .. MaxRevision]
Gone == [name |-> 0, revision |-> 0]
Kinds == {"baseline", "created", "modified", "deleted"}

\* A deletion has no revision: "".
Change == [name : Names, uid : Uids, revision : 0 .. MaxRevision, kind : Kinds]
Delta == [at : 1 .. MaxObservations, baseline : BOOLEAN, policy : 0 .. MaxPolicies, changes : SUBSET Change]

NoScope == [open |-> FALSE, interval |-> 0, policy |-> 0, covered |-> Unset, baseline |-> Unset,
            confirmed |-> Unset]

InventoryInit ==
    /\ cluster = [u \in Uids |-> Gone]
    /\ seen = {}
    /\ watching = FALSE
    /\ outbox = {}
    /\ observations = 0
    /\ policy = Unset
    /\ scope = NoScope
    /\ events = <<>>
    /\ applied = {}
    /\ pruned = {}

-----------------------------------------------------------------------------
(* The cluster and the Relay. *)

\* What the cluster may have become since: a name is of one object at a time, a
\* revision only grows, and a UID that is gone does not come back.
Became(next) ==
    /\ \A u, v \in Uids : u # v /\ next[u] # Gone => next[u].name # next[v].name
    /\ \A u \in Uids :
        /\ cluster[u] # Gone /\ next[u] # Gone => /\ next[u].name = cluster[u].name
                                                  /\ next[u].revision >= cluster[u].revision
        /\ cluster[u] = Gone /\ u \in seen => next[u] = Gone

\* What is different from the last observation, or everything when there is none.
Differences(next) ==
    LET before == IF watching THEN cluster ELSE [u \in Uids |-> Gone]
        Named(u) == IF next[u] = Gone THEN before[u].name ELSE next[u].name
        Kind(u) == CASE next[u] = Gone -> "deleted" [] before[u] = Gone -> "created" [] OTHER -> "modified"
    IN  {[name |-> Named(u), uid |-> u, revision |-> next[u].revision, kind |-> Kind(u)] :
            u \in {v \in Uids : next[v] # before[v]}}

Observe(next) ==
    /\ observations < MaxObservations /\ policy # Unset
    /\ Became(next)
    /\ ~watching \/ Differences(next) # {}
    /\ observations' = observations + 1
    /\ outbox' = outbox \cup {[at |-> observations + 1, baseline |-> ~watching, policy |-> policy,
                               changes |-> Differences(next)]}
    /\ cluster' = next /\ watching' = TRUE
    /\ seen' = seen \cup {u \in Uids : next[u] # Gone}
    /\ UNCHANGED <<policy, scope, events, applied, pruned>>

RelayRestarts ==
    /\ watching
    /\ watching' = FALSE /\ outbox' = {} /\ policy' = Unset
    /\ UNCHANGED <<cluster, seen, observations, scope, events, applied, pruned>>

-----------------------------------------------------------------------------
(* The scope. *)

\* OpenInventoryScopes: the revision moves when the interval does.
OpenInventoryScopes(interval) ==
    LET moved == scope.open /\ scope.interval # interval
    IN  [scope EXCEPT !.open = TRUE, !.interval = interval, !.policy = @ + (IF moved THEN 1 ELSE 0)]

\* refreshInventoryPolicies, sendInventoryPolicies: the policy goes to the Relay,
\* and may be lost; only while this Relay serves the Integration.
SendInventoryPolicies(interval) ==
    /\ scope' = OpenInventoryScopes(interval) /\ scope'.policy <= MaxPolicies
    /\ policy' \in {policy, scope'.policy}
    /\ UNCHANGED <<cluster, seen, watching, outbox, observations, events, applied, pruned>>

Greatest(a, b) == IF a > b THEN a ELSE b

\* advanceChangeScope: a baseline that brings something new, or comes after a gap,
\* begins the coverage again.  Without a scope there is nothing to update.
AdvanceChangeScope(delta, inserted) ==
    LET restarts == \/ scope.covered = Unset \/ inserted > 0 \/ scope.confirmed = Unset
                    \/ delta.at - scope.confirmed > 2 * scope.interval
        confirmed == [scope EXCEPT !.confirmed = Greatest(@, delta.at)]
    IN  CASE ~scope.open -> scope
          [] scope.open /\ ~delta.baseline -> confirmed
          [] OTHER -> [confirmed EXCEPT !.covered = IF restarts THEN delta.at ELSE @,
                                        !.baseline = Greatest(@, delta.at),
                                        !.policy = Greatest(@, delta.policy)]

-----------------------------------------------------------------------------
(* Deltas. *)

\* reduceDelta, reduceChange: a change this build cannot record is left out.
ReduceDelta(delta) == {c \in delta.changes : (c.kind = "deleted") = (c.revision = 0)}

\* compareChanges: by UID, then by revision.
CompareChanges(a, b) == a.uid < b.uid \/ (a.uid = b.uid /\ a.revision < b.revision)

\* The rows a delta adds: (integration, object_uid, observed_revision) is unique.
Rows(delta) ==
    LET fresh == {c \in ReduceDelta(delta) :
                    \A k \in DOMAIN events : events[k].uid # c.uid \/ events[k].revision # c.revision}
        Place(c) == 1 + Cardinality({b \in fresh : CompareChanges(b, c)})
        Kind(c) == IF delta.baseline THEN "baseline" ELSE c.kind
        Row(c) == [name |-> c.name, uid |-> c.uid, revision |-> c.revision, kind |-> Kind(c), at |-> delta.at]
    IN  [k \in 1 .. Cardinality(fresh) |-> Row(CHOOSE c \in fresh : Place(c) = k)]

\* recordInventoryDelta: RecordInventoryDelta is one transaction.  It fails, and
\* nothing is acknowledged, or it commits, and acknowledges.  The acknowledgement
\* may be lost.
RecordInventoryDelta(delta) ==
    LET rows == Rows(delta)
    IN  /\ delta \in outbox
        /\ events' = events \o rows
        /\ scope' = AdvanceChangeScope(delta, Len(rows))
        /\ applied' = applied \cup {delta}
        /\ outbox' \in {outbox, outbox \ {delta}}
        /\ UNCHANGED <<cluster, seen, watching, observations, policy, pruned>>

\* A delta of an Integration that is disabled, gone or another Relay's by then is
\* refused, and acknowledged.
RefuseInventoryDelta(delta) ==
    /\ delta \in outbox
    /\ outbox' = outbox \ {delta}
    /\ UNCHANGED <<cluster, seen, watching, observations, policy, scope, events, applied, pruned>>

\* Mutant: the heartbeat's time as it is.
FreshnessAsSent(at) == [scope EXCEPT !.confirmed = at]

RecordInventoryFreshness(at) == [scope EXCEPT !.confirmed = Greatest(@, at)]

\* recordInventoryFreshness: a heartbeat says when the last complete observation
\* ended; it may be older than what is confirmed.  One that says the observation
\* failed confirms nothing (faulted and truncated are shown beside the coverage and
\* decide nothing).
Heartbeat(at) ==
    /\ scope.open
    /\ scope' = RecordInventoryFreshness(at)
    /\ UNCHANGED <<cluster, seen, watching, outbox, observations, policy, events, applied, pruned>>

\* Sweep, PruneChangesBefore: the events received first, in batches.
PruneChangesBefore(n) ==
    /\ n \in 1 .. Len(events) /\ Cardinality(pruned) < MaxPruned
    /\ events' = SubSeq(events, n + 1, Len(events))
    /\ pruned' = pruned \cup {events[k].name : k \in 1 .. n}
    /\ UNCHANGED <<cluster, seen, watching, outbox, observations, policy, scope, applied>>

-----------------------------------------------------------------------------
(* What an Investigation reads. *)

\* Mutant: the event that was recorded last.
RecordedLast(j, k) == j > k

\* ORDER BY observed_at DESC, change_event_id DESC.
Later(j, k) == events[j].at > events[k].at \/ (events[j].at = events[k].at /\ j > k)

\* The workloads whose latest event is no deletion.
Existing ==
    {n \in Workloads : \E k \in DOMAIN events :
        /\ events[k].name = n /\ events[k].kind # "deleted"
        /\ \A j \in DOMAIN events : events[j].name = n => j = k \/ Later(k, j)}

Before(n) == Cardinality({m \in Existing : m < n})

\* WorkloadInventory: of a scope that is open, the first of them.
WorkloadInventory ==
    IF ~scope.open THEN {} ELSE {n \in Existing : Before(n) < InventoryLimit}

InventoryNext ==
    \/ \E next \in [Uids -> Object \cup {Gone}] : Observe(next)
    \/ RelayRestarts
    \/ \E i \in Intervals : SendInventoryPolicies(i)
    \/ \E d \in outbox : RecordInventoryDelta(d) \/ RefuseInventoryDelta(d)
    \/ \E at \in Moments : at <= observations /\ Heartbeat(at)
    \/ \E n \in 1 .. Len(events) : PruneChangesBefore(n)

InventorySpec == InventoryInit /\ [][InventoryNext]_inventoryVars

-----------------------------------------------------------------------------
(* Properties. *)

InventoryTypeOK ==
    /\ outbox \subseteq Delta /\ applied \subseteq Delta
    /\ scope.policy \in 0 .. MaxPolicies
    /\ {scope.covered, scope.baseline, scope.confirmed} \subseteq Moments \cup {Unset}
    /\ \A k \in DOMAIN events : events[k].at \in Moments /\ events[k].kind \in Kinds

About(n) == {d \in applied : \E c \in d.changes : c.name = n}
Latest(n) == CHOOSE d \in About(n) : \A e \in About(n) : e.at <= d.at
Deletes(d, n) == \E c \in d.changes : c.name = n /\ c.kind = "deleted"
Creates(d, n) == \E c \in d.changes : c.name = n /\ c.kind # "deleted"

\* However often deltas are repeated and in whichever order they are recorded, a
\* workload is listed if and only if the latest observation of its name that was
\* recorded is not its deletion and fewer than the limit come before it, as long as
\* retention has removed nothing of it.
\* A name that was deleted and given again within one observation is left out: the
\* two events have one time, and the order of the UIDs decides which is the later
\* (RecordInventoryDelta, compareChanges, WorkloadInventory).
InventoryIsCurrent ==
    /\ InventoryTypeOK
    /\ \A n \in Workloads \ pruned :
        IF ~scope.open \/ About(n) = {} THEN n \notin WorkloadInventory
        ELSE (\A d \in About(n) : ~(Deletes(d, n) /\ Creates(d, n))) =>
                (n \in WorkloadInventory <=> Creates(Latest(n), n) /\ Before(n) < InventoryLimit)

\* "so ""monotonic"" stays a true statement": what a repeated or late delta, a late
\* heartbeat or another interval does to a scope never takes back a confirmation, a
\* baseline or a policy revision, and coverage never begins after what is confirmed
\* (advanceChangeScope, RecordInventoryFreshness, OpenInventoryScopes).
ConfirmationOnlyAdvances ==
    [][/\ scope.confirmed <= scope'.confirmed
       /\ scope.baseline <= scope'.baseline
       /\ scope.policy <= scope'.policy
       /\ scope'.covered <= scope'.confirmed]_inventoryVars

=============================================================================
