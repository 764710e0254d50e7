----------------------------- MODULE AuditTrail -----------------------------
(***************************************************************************)
(* Every administrative change is written with an audit event in one        *)
(* transaction, an Organization declares how long its events are kept, and  *)
(* sweeps, one of every replica, remove what is older, batch by batch,      *)
(* while changes go on and beside each other.                               *)
(* audit_event is append-only but for the sweeps' own transactions.         *)
(*                                                                          *)
(* Time passes in days.                                                     *)
(***************************************************************************)
EXTENDS Integers, FiniteSets

CONSTANTS
    Tenants,
    Retentions,     \* audit_retention_days an Organization may declare; 0 keeps events for ever
    Changes,        \* audited calls
    Pruners,        \* replicas, each with a Pruner
    MaxDays,        \* bound: the clock
    PruneBatch,     \* pruneBatch
    MaxBatches,     \* maxBatchesPerSweep
    KeepsAll        \* the change that is no change of retention

ASSUME AuditAssumption ==
    /\ Retentions \subseteq Nat /\ 0 \in Retentions /\ KeepsAll \notin Retentions
    /\ {MaxDays, PruneBatch, MaxBatches} \subseteq Nat

VARIABLES
    today,
    retention,      \* organization.audit_retention_days
    orgLock,        \* the transaction that holds the organization's row
    changes,        \* audited calls
    trail,          \* audit_event: the call, its organization and occurred_at
    removed,        \* events the sweep removed, with the days they were kept
    least,          \* by sweep, the shortest retention in force since it began, or none
    sweep           \* Pruner.Sweep of each replica

auditVars == <<today, retention, orgLock, changes, trail, removed, least, sweep>>

Days == 0 .. MaxDays
Nobody == "none"
Event == [call : Changes, org : Tenants, at : Days]
NoChange == [pc |-> "unused", org |-> Nobody, days |-> KeepsAll, at |-> 0]
Idle == [pc |-> "idle", declared |-> {}, org |-> Nobody, before |-> 0, batches |-> 0,
         batch |-> {}]

\* A retention of 0 never removes anything.
Shorter(a, b) == IF a = 0 THEN b ELSE IF b = 0 \/ a < b THEN a ELSE b

AuditInit ==
    /\ today = 0
    /\ retention = [o \in Tenants |-> 0]
    /\ orgLock = [o \in Tenants |-> Nobody]
    /\ changes = [c \in Changes |-> NoChange]
    /\ trail = {}
    /\ removed = {}
    /\ least = [p \in Pruners |-> [o \in Tenants |-> 0]]
    /\ sweep = [p \in Pruners |-> Idle]

DayPasses ==
    /\ today < MaxDays
    /\ today' = today + 1
    /\ UNCHANGED <<retention, orgLock, changes, trail, removed, least, sweep>>

-----------------------------------------------------------------------------
(* An audited change. *)

\* auditedWithAction of a principal of the Organization: the transaction begins
\* and mutates.  SetOrganizationAuditRetention holds the Organization's row.
Mutate(c, o, days) ==
    /\ changes[c].pc = "unused"
    /\ days # KeepsAll => orgLock[o] = Nobody
    /\ orgLock' = IF days # KeepsAll THEN [orgLock EXCEPT ![o] = c] ELSE orgLock
    /\ changes' = [changes EXCEPT ![c] = [pc |-> "write event", org |-> o, days |-> days, at |-> 0]]
    /\ UNCHANGED <<today, retention, trail, removed, least, sweep>>

\* Mutant: the event is written beside the transaction.
WriteOutside(c) ==
    /\ changes[c].pc = "write event"
    /\ changes' = [changes EXCEPT ![c].pc = "commit", ![c].at = today]
    /\ trail' = trail \cup {[call |-> c, org |-> changes[c].org, at |-> today]}
    /\ UNCHANGED <<today, retention, orgLock, removed, least, sweep>>

\* writeEvent, in the same transaction: the time is the process's.
WriteEvent(c) ==
    /\ changes[c].pc = "write event"
    /\ changes' = [changes EXCEPT ![c].pc = "commit", ![c].at = today]
    /\ UNCHANGED <<today, retention, orgLock, trail, removed, least, sweep>>

Release(c) == [o \in Tenants |-> IF orgLock[o] = c THEN Nobody ELSE orgLock[o]]

Commit(c) ==
    LET change == changes[c]
        o == change.org
    IN  /\ change.pc = "commit"
        /\ changes' = [changes EXCEPT ![c].pc = "committed"]
        /\ trail' = trail \cup {[call |-> c, org |-> o, at |-> change.at]}
        /\ IF change.days = KeepsAll THEN UNCHANGED <<retention, least>>
           ELSE /\ retention' = [retention EXCEPT ![o] = change.days]
                /\ least' = [p \in Pruners |-> [least[p] EXCEPT ![o] = Shorter(@, change.days)]]
        /\ orgLock' = Release(c)
        /\ UNCHANGED <<today, removed, sweep>>

\* The mutation, the event or the commit fails, or the process dies.
RollBackChange(c) ==
    /\ changes[c].pc \in {"write event", "commit"}
    /\ changes' = [changes EXCEPT ![c].pc = "rolled back"]
    /\ orgLock' = Release(c)
    /\ UNCHANGED <<today, retention, trail, removed, least, sweep>>

-----------------------------------------------------------------------------
(* The sweep. *)

\* DeclaredRetentions: WHERE audit_retention_days > 0.
DeclaredRetentions == {[org |-> o, days |-> retention[o]] : o \in {p \in Tenants : retention[p] > 0}}

StartSweep(p) ==
    /\ sweep[p].pc = "idle"
    /\ sweep' = [sweep EXCEPT ![p] = [Idle EXCEPT !.pc = "next", !.declared = DeclaredRetentions]]
    /\ least' = [least EXCEPT ![p] = retention]
    /\ UNCHANGED <<today, retention, orgLock, changes, trail, removed>>

\* prune: the horizon of an Organization is reckoned when its turn comes.
Horizon(days) == today - days

TakeOrganization(p, declared) ==
    /\ sweep[p].pc = "next" /\ declared \in sweep[p].declared
    /\ sweep' = [sweep EXCEPT ![p] =
            [pc |-> "select", declared |-> sweep[p].declared \ {declared}, org |-> declared.org,
             before |-> Horizon(declared.days), batches |-> 0, batch |-> {}]]
    /\ UNCHANGED <<today, retention, orgLock, changes, trail, removed, least>>

\* PruneEventsBefore, one statement in its transaction.  The sub-select takes the
\* oldest events before the horizon ...
SelectBatch(p) ==
    LET due == {e \in trail : e.org = sweep[p].org /\ e.at < sweep[p].before}
        Oldest(batch) == \A e \in batch, f \in due \ batch : e.at <= f.at
        size == IF Cardinality(due) < PruneBatch THEN Cardinality(due) ELSE PruneBatch
    IN  /\ sweep[p].pc = "select"
        /\ \E batch \in SUBSET due :
            /\ Cardinality(batch) = size /\ Oldest(batch)
            /\ sweep' = [sweep EXCEPT ![p].pc = "delete", ![p].batch = batch]
        /\ UNCHANGED <<today, retention, orgLock, changes, trail, removed, least>>

\* ... and the DELETE waits for another sweep and removes what that one left.  Fewer
\* than a batch, the last batch of a sweep or an error, and the Organization is done.
DeleteBatch(p) ==
    LET taken == sweep[p].batch \cap trail
        more == Cardinality(taken) = PruneBatch /\ sweep[p].batches + 1 < MaxBatches
    IN  /\ sweep[p].pc = "delete"
        /\ trail' = trail \ taken
        /\ removed' = removed \cup
                {[event |-> e, kept |-> today - e.at, least |-> least[p][e.org]] : e \in taken}
        /\ sweep' = [sweep EXCEPT ![p].pc = IF more THEN "select" ELSE "next",
                                  ![p].batches = IF more THEN @ + 1 ELSE @, ![p].batch = {}]
        /\ UNCHANGED <<today, retention, orgLock, changes, least>>

PruneFails(p) ==
    /\ sweep[p].pc \in {"select", "delete"}
    /\ sweep' = [sweep EXCEPT ![p].pc = "next", ![p].batch = {}]
    /\ UNCHANGED <<today, retention, orgLock, changes, trail, removed, least>>

\* Every declared retention is applied, or the process ends.
EndSweep(p) ==
    /\ sweep[p].pc = "next"
    /\ sweep' = [sweep EXCEPT ![p] = Idle]
    /\ UNCHANGED <<today, retention, orgLock, changes, trail, removed, least>>

AuditNext ==
    \/ \E c \in Changes :
        \/ \E o \in Tenants, days \in Retentions \cup {KeepsAll} : Mutate(c, o, days)
        \/ WriteEvent(c) \/ Commit(c) \/ RollBackChange(c)
    \/ \E p \in Pruners :
        \/ StartSweep(p) \/ SelectBatch(p) \/ DeleteBatch(p) \/ PruneFails(p) \/ EndSweep(p)
        \/ \E declared \in sweep[p].declared : TakeOrganization(p, declared)
    \/ DayPasses

AuditSpec == AuditInit /\ [][AuditNext]_auditVars

-----------------------------------------------------------------------------
(* Properties. *)

AuditTypeOK ==
    /\ trail \subseteq Event
    /\ retention \in [Tenants -> Retentions]
    /\ \A r \in removed : r.event \in Event

\* "The mutation and audit event commit together, so neither can exist without the
\* other": whatever fails, a change took effect if and only if its event is in the
\* trail or was removed by retention.  And retention removes only an event that is
\* older than the shortest period its Organization declared since the sweep that
\* removed it began: never one of an Organization that kept everything (audited,
\* auditedWithAction, DeclaredRetentions, PruneEventsBefore).
TrailIsKept ==
    /\ AuditTypeOK
    /\ {c \in Changes : changes[c].pc = "committed"} =
        {e.call : e \in trail} \cup {r.event.call : r \in removed}
    /\ \A r \in removed : r.least > 0 /\ r.kept > r.least

=============================================================================
