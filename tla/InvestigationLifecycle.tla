----------------------- MODULE InvestigationLifecycle -----------------------
(***************************************************************************)
(* What the store promises about each Investigation, whoever calls it: it   *)
(* waits, is leased once, and ends once. Notes and evidence are added only   *)
(* under an unexpired lease; a lapsed lease can only end in failure or       *)
(* cancellation; a closing note is the last thing written.                   *)
(***************************************************************************)
EXTENDS Sequences

CONSTANTS
    Ids,        \* Investigations
    Notes,      \* what a run may announce in its stream
    Ordinals    \* numbers of the tool runs it may record

VARIABLES
    phase,      \* where each Investigation stands
    log,        \* its event stream
    evidence    \* its recorded tool runs

lifecycleVars == <<phase, log, evidence>>

Endings == {"concluded", "failed", "cancelled"}
Phases == {"absent", "waiting", "leased", "lapsed"} \cup Endings

Closing(outcome) == [type |-> outcome, ordinal |-> 0]

LifecycleInit ==
    /\ phase = [i \in Ids |-> "absent"]
    /\ log = [i \in Ids |-> <<>>]
    /\ evidence = [i \in Ids |-> {}]

Move(i, from, to) ==
    /\ phase[i] = from
    /\ phase' = [phase EXCEPT ![i] = to]
    /\ UNCHANGED <<log, evidence>>

Open(i) == Move(i, "absent", "waiting")

Lease(i) == Move(i, "waiting", "leased")

\* The clock may pass several expiries at once.
Lapse(S) ==
    /\ \A i \in S : phase[i] = "leased"
    /\ phase' = [i \in Ids |-> IF i \in S THEN "lapsed" ELSE phase[i]]
    /\ UNCHANGED <<log, evidence>>

Report(i) ==
    /\ phase[i] = "leased"
    /\ \E note \in Notes : log' = [log EXCEPT ![i] = Append(@, note)]
    /\ UNCHANGED <<phase, evidence>>

Record(i) ==
    /\ phase[i] = "leased"
    /\ \E n \in Ordinals \ evidence[i] : evidence' = [evidence EXCEPT ![i] = @ \cup {n}]
    /\ UNCHANGED <<phase, log>>

\* One transaction ends one Investigation, or sweeps several lapsed ones.
End(S, outcome) ==
    /\ \A i \in S : \/ phase[i] = "leased"
                    \/ phase[i] = "waiting" /\ outcome = "cancelled"
                    \/ phase[i] = "lapsed" /\ outcome \in {"failed", "cancelled"}
    /\ phase' = [i \in Ids |-> IF i \in S THEN outcome ELSE phase[i]]
    /\ log' = [i \in Ids |-> IF i \in S THEN Append(log[i], Closing(outcome))
                                        ELSE log[i]]
    /\ UNCHANGED evidence

LifecycleNext ==
    \/ \E i \in Ids : Open(i) \/ Lease(i) \/ Report(i) \/ Record(i)
    \/ \E S \in SUBSET Ids : Lapse(S) \/ \E outcome \in Endings : End(S, outcome)

LifecycleSpec == LifecycleInit /\ [][LifecycleNext]_lifecycleVars
=============================================================================
