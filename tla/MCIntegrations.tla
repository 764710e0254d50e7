--------------------------- MODULE MCIntegrations ---------------------------
EXTENDS Integrations, TLC

\* Every User is of another Organization, which the User stands for.
MCHome == [o \in Operators |-> o]

\* Integrations of different types share no row, so each type is explored by
\* itself.
VARIABLE offered

MCInit == Init /\ offered \in {{p} : p \in Served}
MCNext == Step(offered) /\ UNCHANGED offered
MCSpec == MCInit /\ [][MCNext]_<<vars, offered>>

\* Bounds: one Integration at a time is disabled or has rows that name it, tool
\* runs or what webhooks record, and two requests are in progress or connect flows
\* wait for their callback.
FewAtATime ==
    LET disabled == {i \in Ids : integration[i].disabled}
        named == {i \in Ids : records[i] # {}}
        busy == {r \in Requests : request[r] # Idle}
        waiting == {f \in Flows : flow[f].state \in {"open", "expired"}}
    IN  /\ Cardinality(disabled) + Cardinality(named) <= 1
        /\ \A i \in Ids : ~ Counted \subseteq records[i]
        /\ Cardinality(busy) + Cardinality(waiting) <= 2

\* No part of a state: the history, every step being checked with the one it
\* sets, and what a redeemed flow said once no callback goes by it.
MCView ==
    LET shown(f) == IF flow[f].state = "gone" /\ \A r \in Requests : request[r].flow # f
                    THEN None ELSE flow[f]
    IN  <<integration, records, [f \in Flows |-> shown(f)], request, fresh, offered>>

IntegrationSymmetry ==
    UNION {Permutations(S) : S \in {Requests, Ids, Flows, Operators}}

=============================================================================
