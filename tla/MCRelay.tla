------------------------------ MODULE MCRelay ------------------------------
(* Relays, for TLC: the Jobs and the sessions that carry them, the presence   *)
(* of a Relay in one process, its enrolment, the watch on contested           *)
(* identities, and the inventory a Relay reports.  Each is explored by itself *)
(* while the others rest.                                                     *)
EXTENDS RelayJob, RelayPresence, RelayEnrolment, RelayChurn, Inventory, TLC

VARIABLE part       \* the component that is explored

\* Bound: two names are observed at most twice, which lets both be listed and one
\* of them go; the last observation is made where there was only ever one name.
FewNames ==
    observations = MaxObservations =>
        \A d \in outbox \cup applied : \A c \in d.changes : c.name = 1

FleetInit ==
    /\ part \in {"jobs", "presence", "enrolment", "churn", "inventory"}
    /\ Init /\ PresenceInit /\ EnrolmentInit /\ ChurnInit /\ InventoryInit

FleetNext ==
    \/ part = "jobs" /\ Next
       /\ UNCHANGED <<part, presenceVars, enrolmentVars, churnVars, inventoryVars>>
    \/ part = "presence" /\ PresenceNext
       /\ UNCHANGED <<part, vars, enrolmentVars, churnVars, inventoryVars>>
    \/ part = "enrolment" /\ EnrolmentNext
       /\ UNCHANGED <<part, vars, presenceVars, churnVars, inventoryVars>>
    \/ part = "churn" /\ ChurnNext
       /\ UNCHANGED <<part, vars, presenceVars, enrolmentVars, inventoryVars>>
    \/ part = "inventory" /\ InventoryNext /\ FewNames'
       /\ UNCHANGED <<part, vars, presenceVars, enrolmentVars, churnVars>>

FleetSpec ==
    FleetInit /\ [][FleetNext]_<<part, vars, presenceVars, enrolmentVars, churnVars, inventoryVars>>

\* Relays that share an identity are interchangeable, and so are replicas.
FleetSymmetry == Permutations(Relays) \cup Permutations(Replicas)

=============================================================================
