----------------------------- MODULE MCRecords -----------------------------
(* What the control plane records, for TLC: alerts and Incidents, Postmortems, *)
(* the run of an Investigation's agent, and the audit trail.  Each is explored *)
(* by itself while the others rest.                                            *)
EXTENDS MCIncidentIntake, Postmortem, AgentRun, AuditTrail, TLC

VARIABLE part       \* the component that is explored

-----------------------------------------------------------------------------
(* Postmortems. *)

\* A correction of the cause cites what is known, one of the title nothing.
MCCited == [c \in Corrections |-> IF c = "cause" THEN Facts ELSE {}]

-----------------------------------------------------------------------------

\* The components that rest are in one state.
RecordsInit ==
    /\ part \in {"intake", "postmortem", "agent", "audit"}
    /\ Init /\ PostmortemInit /\ AgentInit /\ AuditInit
    /\ part # "agent" => offered /\ kept = {}

\* The other components may come to rest.  The run of the agent may not before it
\* has ended: its clock moves only twice, so one without a step left deadlocks.
RecordsNext ==
    \/ part = "intake" /\ Next
       /\ UNCHANGED <<part, postmortemVars, agentVars, auditVars>>
    \/ part = "postmortem" /\ PostmortemNext
       /\ UNCHANGED <<part, vars, agentVars, auditVars>>
    \/ part = "agent" /\ AgentNext
       /\ UNCHANGED <<part, vars, postmortemVars, auditVars>>
    \/ part = "audit" /\ AuditNext
       /\ UNCHANGED <<part, vars, postmortemVars, agentVars>>
    \/ part # "agent"
       /\ UNCHANGED <<part, vars, postmortemVars, agentVars, auditVars>>

RecordsSpec ==
    RecordsInit /\ [][RecordsNext]_<<part, vars, postmortemVars, agentVars, auditVars>>

\* The replicas that sweep are interchangeable.
RecordsSymmetry == Permutations(Pruners)

=============================================================================
