--------------------------- MODULE RecordsProofs ---------------------------
(***************************************************************************)
(* What is recorded stays true for every number of Organizations, alerts,   *)
(* deliveries, Incidents, corrections and audited changes, and for every    *)
(* budget of an agent's run: the theorems of AuditTrail, IncidentIntake,    *)
(* Postmortem and AgentRun and their proofs.                                *)
(***************************************************************************)
EXTENDS IncidentIntake, Postmortem, AgentRun, AuditTrail, WellFoundedInduction,
        SequenceTheorems, TLAPS

-----------------------------------------------------------------------------
(* The audit trail. *)

ChangesTypeOK ==
    /\ today \in Days
    /\ least \in [Pruners -> [Tenants -> Nat]]
    /\ changes \in [Changes -> [pc : {"unused", "write event", "commit", "committed", "rolled back"},
                                org : Tenants \cup {Nobody}, days : Retentions \cup {KeepsAll}, at : Days]]
    /\ \A c \in Changes : changes[c].pc # "unused" => changes[c].org \in Tenants

\* A change is committed if and only if its event is in the trail or was removed.
CommittedWithTheirEvent ==
    {c \in Changes : changes[c].pc = "committed"} =
        {e.call : e \in trail} \cup {r.event.call : r \in removed}

\* What retention removed had been kept for longer than the Organization asked.
RemovedInTime == \A r \in removed : r.least > 0 /\ r.kept > r.least

Sweeps == [pc : {"idle", "next", "select", "delete"},
           declared : SUBSET [org : Tenants, days : Nat],
           org : Tenants \cup {Nobody}, before : Int, batches : Nat, batch : SUBSET Event]

\* A sweep works from what was declared when it began.  The shortest period in
\* force since then is no longer than what it read, and its horizon, reckoned once,
\* only grows older as days pass: of an Organization and of what it selected.
SweepIsWithin(s, short) ==
    /\ \A d \in s.declared :
        d.org \in Tenants /\ d.days \in Nat /\ 0 < short[d.org] /\ short[d.org] <= d.days
    /\ s.pc \in {"select", "delete"} =>
        /\ s.org \in Tenants /\ s.before \in Int
        /\ 0 < short[s.org] /\ short[s.org] <= today - s.before
    /\ \A e \in s.batch : e \in Event /\ e.org = s.org /\ e.at < s.before

SweepsWithinRetention ==
    /\ sweep \in [Pruners -> Sweeps]
    /\ \A p \in Pruners : SweepIsWithin(sweep[p], least[p])

AuditInv ==
    AuditTypeOK /\ ChangesTypeOK /\ CommittedWithTheirEvent /\ RemovedInTime /\ SweepsWithinRetention

LEMMA ShorterFacts ==
    ASSUME NEW a \in Nat, NEW b \in Nat
    PROVE  Shorter(a, b) \in Nat /\ (0 < a => 0 < Shorter(a, b) /\ Shorter(a, b) <= a)
BY DEF Shorter

LEMMA AuditInvInit == AuditInit => AuditInv
BY AuditAssumption
   DEF AuditInit, AuditInv, AuditTypeOK, ChangesTypeOK, CommittedWithTheirEvent, RemovedInTime,
       SweepsWithinRetention, SweepIsWithin, Sweeps, Days, NoChange, Idle

LEMMA AuditInvNext == AuditInv /\ [AuditNext]_auditVars => AuditInv'
<1> SUFFICES ASSUME AuditInv, [AuditNext]_auditVars PROVE AuditInv'
  OBVIOUS
<1>0. /\ AuditTypeOK /\ ChangesTypeOK /\ CommittedWithTheirEvent
      /\ RemovedInTime /\ SweepsWithinRetention
      /\ 0 \in Days /\ Days \subseteq Nat /\ Retentions \subseteq Nat
  BY AuditAssumption DEF AuditInv, Days
<1>a. today \in Nat /\ least \in [Pruners -> [Tenants -> Nat]] /\ MaxDays \in Nat
  BY AuditAssumption, <1>0 DEF ChangesTypeOK, Days
\* A change that does not commit leaves what is recorded alone.
<1>1. ASSUME NEW c \in Changes, UNCHANGED <<today, retention, trail, removed, least, sweep>>,
             \A d \in Changes \ {c} : changes'[d] = changes[d],
             ChangesTypeOK', changes[c].pc # "committed", changes'[c].pc # "committed"
      PROVE  AuditInv'
  <2>1. CommittedWithTheirEvent'
    BY <1>0, <1>1 DEF CommittedWithTheirEvent
  <2> QED
    BY <1>0, <1>1, <2>1 DEF AuditInv, AuditTypeOK, RemovedInTime, SweepsWithinRetention,
                            SweepIsWithin
<1>2. ASSUME NEW c \in Changes, NEW o \in Tenants, NEW days \in Retentions \cup {KeepsAll},
             Mutate(c, o, days)
      PROVE  AuditInv'
  <2>1. ChangesTypeOK'
    BY <1>0, <1>2 DEF ChangesTypeOK, Mutate, Days
  <2> QED
    BY <1>0, <1>1, <1>2, <2>1 DEF ChangesTypeOK, Mutate
<1>3. ASSUME NEW c \in Changes, WriteEvent(c) PROVE AuditInv'
  <2>1. /\ changes[c].pc = "write event"
        /\ changes' = [changes EXCEPT ![c] = [changes[c] EXCEPT !.pc = "commit", !.at = today]]
        /\ UNCHANGED <<today, retention, trail, removed, least, sweep>>
    BY <1>3 DEF WriteEvent
  <2>2. ChangesTypeOK' /\ changes'[c].pc = "commit"
    BY <1>0, <2>1 DEF ChangesTypeOK
  <2> QED
    BY <1>0, <1>1, <2>1, <2>2 DEF ChangesTypeOK
<1>4. ASSUME NEW c \in Changes, RollBackChange(c) PROVE AuditInv'
  <2>1. ChangesTypeOK'
    BY <1>0, <1>4 DEF ChangesTypeOK, RollBackChange
  <2> QED
    BY <1>0, <1>1, <1>4, <2>1 DEF ChangesTypeOK, RollBackChange
<1>5. ASSUME NEW c \in Changes, Commit(c) PROVE AuditInv'
  <2> DEFINE o == changes[c].org
             event == [call |-> c, org |-> o, at |-> changes[c].at]
  <2>1. /\ changes[c].pc = "commit" /\ o \in Tenants
        /\ changes' = [changes EXCEPT ![c].pc = "committed"]
        /\ trail' = trail \cup {event}
        /\ UNCHANGED <<today, removed, sweep>>
    BY <1>0, <1>5 DEF Commit, ChangesTypeOK
  <2>2. event \in Event /\ event.call = c
    BY <1>0, <2>1 DEF Event, ChangesTypeOK
  <2>3. /\ retention' \in [Tenants -> Retentions]
        /\ least' \in [Pruners -> [Tenants -> Nat]]
        /\ \A p \in Pruners, q \in Tenants :
              0 < least[p][q] => 0 < least'[p][q] /\ least'[p][q] <= least[p][q]
    <3>1. CASE changes[c].days = KeepsAll
      <4>1. UNCHANGED <<retention, least>>
        BY <1>5, <3>1 DEF Commit
      <4> QED
        BY <1>0, <1>a, <4>1 DEF AuditTypeOK
    <3>2. CASE changes[c].days # KeepsAll
      <4>1. /\ changes[c].days \in Retentions /\ changes[c].days \in Nat
            /\ retention' = [retention EXCEPT ![o] = changes[c].days]
            /\ least' = [p \in Pruners |->
                            [least[p] EXCEPT ![o] = Shorter(least[p][o], changes[c].days)]]
        BY <1>0, <1>5, <3>2 DEF Commit, ChangesTypeOK
      <4>2. retention' \in [Tenants -> Retentions]
        BY <1>0, <4>1 DEF AuditTypeOK
      <4>3. ASSUME NEW p \in Pruners
            PROVE  /\ least'[p] \in [Tenants -> Nat]
                   /\ \A q \in Tenants :
                        0 < least[p][q] => 0 < least'[p][q] /\ least'[p][q] <= least[p][q]
        <5> DEFINE short == Shorter(least[p][o], changes[c].days)
        <5>1. least[p] \in [Tenants -> Nat] /\ least[p][o] \in Nat
          BY <1>a, <2>1
        <5>2. short \in Nat /\ (0 < least[p][o] => 0 < short /\ short <= least[p][o])
          BY <4>1, <5>1, ShorterFacts
        <5>3. least'[p] = [least[p] EXCEPT ![o] = short]
          BY <4>1
        <5> HIDE DEF short, o
        <5>4. \A q \in Tenants : least[p][q] <= least[p][q]
          BY <5>1
        <5> QED
          BY <2>1, <5>1, <5>2, <5>3, <5>4
      <4>4. least' \in [Pruners -> [Tenants -> Nat]]
        <5>1. DOMAIN least' = Pruners /\ least' = [p \in Pruners |-> least'[p]]
          BY <4>1
        <5> QED
          BY <4>3, <5>1
      <4> QED
        BY <4>2, <4>3, <4>4
    <3> QED
      BY <3>1, <3>2
  <2> HIDE DEF event
  <2>4. AuditTypeOK' /\ RemovedInTime'
    BY <1>0, <2>1, <2>2, <2>3 DEF AuditTypeOK, RemovedInTime
  <2>5. ChangesTypeOK'
    BY <1>0, <2>1, <2>3 DEF ChangesTypeOK
  <2>6. CommittedWithTheirEvent'
    <3>1. {d \in Changes : changes'[d].pc = "committed"} =
            {d \in Changes : changes[d].pc = "committed"} \cup {c}
      BY <1>0, <2>1 DEF ChangesTypeOK
    <3>2. {e.call : e \in trail'} = {e.call : e \in trail} \cup {c}
      BY <2>1, <2>2
    <3> QED
      BY <1>0, <2>1, <3>1, <3>2 DEF CommittedWithTheirEvent
  <2>7. SweepsWithinRetention'
    <3>1. /\ UNCHANGED <<sweep, today>> /\ today \in Int
          /\ \A p \in Pruners, q \in Tenants : least[p][q] \in Nat /\ least'[p][q] \in Nat
      BY <1>a, <2>1, <2>3
    <3>2. \A p \in Pruners, q \in Tenants, n \in Int :
              0 < least[p][q] /\ least[p][q] <= n => 0 < least'[p][q] /\ least'[p][q] <= n
      BY <2>3, <3>1
    <3>3. \A n \in Int : today - n \in Int
      BY <3>1
    <3>4. ASSUME NEW p \in Pruners PROVE SweepIsWithin(sweep[p], least[p])'
      BY <1>0, <3>1, <3>2, <3>3 DEF SweepsWithinRetention, SweepIsWithin
    <3> QED
      BY <1>0, <3>1, <3>4 DEF SweepsWithinRetention
  <2> QED
    BY <2>4, <2>5, <2>6, <2>7 DEF AuditInv
\* A sweep that removes nothing.
<1>6. ASSUME NEW p \in Pruners, NEW next \in Sweeps, sweep' = [sweep EXCEPT ![p] = next],
             UNCHANGED <<today, retention, changes, trail, removed>>,
             least' \in [Pruners -> [Tenants -> Nat]], SweepIsWithin(next, least'[p]),
             \A q \in Pruners \ {p} : least'[q] = least[q]
      PROVE  AuditInv'
  <2>1. ASSUME NEW q \in Pruners PROVE SweepIsWithin(sweep[q], least[q])'
    <3>1. CASE q = p
      <4>1. sweep'[q] = next
        BY <1>0, <1>6, <3>1 DEF SweepsWithinRetention
      <4> QED
        BY <1>6, <3>1, <4>1 DEF SweepIsWithin
    <3>2. CASE q # p
      <4>1. sweep'[q] = sweep[q] /\ least'[q] = least[q]
        BY <1>0, <1>6, <3>2 DEF SweepsWithinRetention
      <4> QED
        BY <1>0, <1>6, <4>1 DEF SweepsWithinRetention, SweepIsWithin
    <3> QED
      BY <3>1, <3>2
  <2>2. SweepsWithinRetention'
    BY <1>0, <1>6, <2>1 DEF SweepsWithinRetention
  <2> QED
    BY <1>0, <1>6, <2>2
       DEF AuditInv, AuditTypeOK, ChangesTypeOK, CommittedWithTheirEvent, RemovedInTime
<1>7. ASSUME NEW p \in Pruners, StartSweep(p) \/ EndSweep(p) \/ PruneFails(p)
      PROVE  AuditInv'
  <2>0. sweep[p] \in Sweeps /\ SweepIsWithin(sweep[p], least[p])
    BY <1>0 DEF SweepsWithinRetention
  <2>1. CASE StartSweep(p)
    <3> DEFINE next == [Idle EXCEPT !.pc = "next", !.declared = DeclaredRetentions]
    <3>1. /\ sweep' = [sweep EXCEPT ![p] = next] /\ least' = [least EXCEPT ![p] = retention]
          /\ UNCHANGED <<today, retention, changes, trail, removed>>
      BY <2>1 DEF StartSweep
    <3>2. retention \in [Tenants -> Nat]
      BY <1>0 DEF AuditTypeOK
    <3>3. /\ DeclaredRetentions \subseteq [org : Tenants, days : Nat]
          /\ \A d \in DeclaredRetentions : 0 < d.days /\ retention[d.org] = d.days
      BY <3>2 DEF DeclaredRetentions
    <3>5. Idle \in Sweeps
      BY DEF Idle, Sweeps
    <3>6. next \in Sweeps
      BY <3>3, <3>5 DEF Sweeps
    <3>7. next.pc = "next" /\ next.declared = DeclaredRetentions /\ next.batch = {}
      BY <3>5 DEF Idle, Sweeps
    <3>8. SweepIsWithin(next, retention)
      <4> HIDE DEF next
      <4>1. \A d \in DeclaredRetentions : d.org \in Tenants /\ d.days \in Nat /\ d.days <= d.days
        BY <3>3
      <4> QED
        BY <3>3, <3>7, <4>1 DEF SweepIsWithin
    <3>4. /\ least' \in [Pruners -> [Tenants -> Nat]] /\ least'[p] = retention
          /\ \A q \in Pruners \ {p} : least'[q] = least[q]
      BY <1>a, <3>1, <3>2
    <3> HIDE DEF next
    <3> QED
      BY <1>6, <3>1, <3>4, <3>6, <3>8
  <2>2. CASE EndSweep(p)
    <3>1. Idle \in Sweeps /\ SweepIsWithin(Idle, least[p])
      BY DEF Idle, Sweeps, SweepIsWithin
    <3> QED
      BY <1>6, <1>a, <2>2, <3>1 DEF EndSweep
  <2>3. CASE PruneFails(p)
    <3> DEFINE next == [sweep[p] EXCEPT !.pc = "next", !.batch = {}]
    <3>1. sweep' = [sweep EXCEPT ![p] = next]
          /\ UNCHANGED <<today, retention, changes, trail, removed, least>>
      BY <2>3 DEF PruneFails
    <3>2. next \in Sweeps /\ SweepIsWithin(next, least[p])
      BY <2>0 DEF Sweeps, SweepIsWithin
    <3> HIDE DEF next
    <3> QED
      BY <1>6, <1>a, <3>1, <3>2
  <2> QED
    BY <1>7, <2>1, <2>2, <2>3
<1>8. ASSUME NEW p \in Pruners, NEW declared \in sweep[p].declared, TakeOrganization(p, declared)
      PROVE  AuditInv'
  <2> DEFINE next == [pc |-> "select", declared |-> sweep[p].declared \ {declared},
                     org |-> declared.org, before |-> today - declared.days, batches |-> 0,
                     batch |-> {}]
  <2>0. sweep[p] \in Sweeps /\ SweepIsWithin(sweep[p], least[p])
    BY <1>0 DEF SweepsWithinRetention
  <2>1. sweep' = [sweep EXCEPT ![p] = next]
        /\ UNCHANGED <<today, retention, changes, trail, removed, least>>
    BY <1>8 DEF TakeOrganization, Horizon
  <2>2. today \in Int /\ declared.org \in Tenants /\ declared.days \in Nat
        /\ 0 < least[p][declared.org] /\ least[p][declared.org] <= declared.days
    BY <1>8, <1>a, <2>0 DEF SweepIsWithin
  <2>3. /\ today - declared.days \in Int
        /\ today - (today - declared.days) = declared.days
    BY <2>2
  <2>4. next \in Sweeps
    BY <2>0, <2>2, <2>3 DEF Sweeps
  <2>5. /\ next.declared = sweep[p].declared \ {declared} /\ next.batch = {}
        /\ next.org = declared.org /\ next.before = today - declared.days
    OBVIOUS
  <2> HIDE DEF next
  <2>6. SweepIsWithin(next, least[p])
    BY <2>0, <2>2, <2>3, <2>5 DEF SweepIsWithin
  <2> QED
    BY <1>6, <1>a, <2>1, <2>4, <2>6
<1>9. ASSUME NEW p \in Pruners, SelectBatch(p) PROVE AuditInv'
  <2>0. sweep[p] \in Sweeps /\ SweepIsWithin(sweep[p], least[p])
    BY <1>0 DEF SweepsWithinRetention
  <2>1. PICK oldest \in SUBSET {e \in trail : e.org = sweep[p].org /\ e.at < sweep[p].before} :
            sweep' = [sweep EXCEPT ![p].pc = "delete", ![p].batch = oldest]
    BY <1>9 DEF SelectBatch
  <2>2. sweep[p].pc = "select" /\ UNCHANGED <<today, retention, changes, trail, removed, least>>
    BY <1>9 DEF SelectBatch
  <2>3. oldest \in SUBSET Event
    BY <1>0 DEF AuditTypeOK
  <2> DEFINE next == [sweep[p] EXCEPT !.pc = "delete", !.batch = oldest]
  <2>4. sweep' = [sweep EXCEPT ![p] = next]
    BY <2>1
  <2>5. next \in Sweeps /\ SweepIsWithin(next, least[p])
    BY <2>0, <2>2, <2>3 DEF Sweeps, SweepIsWithin
  <2> HIDE DEF next
  <2> QED
    BY <1>6, <1>a, <2>2, <2>4, <2>5
<1>12. ASSUME NEW p \in Pruners, DeleteBatch(p) PROVE AuditInv'
  <2> DEFINE Removal(e) == [event |-> e, kept |-> today - e.at, least |-> least[p][e.org]]
             taken == sweep[p].batch \cap trail
             more == Cardinality(taken) = PruneBatch /\ sweep[p].batches + 1 < MaxBatches
             next == [sweep[p] EXCEPT !.pc = IF more THEN "select" ELSE "next",
                                      !.batches = IF more THEN sweep[p].batches + 1 ELSE sweep[p].batches,
                                      !.batch = {}]
  <2>0. sweep[p] \in Sweeps /\ SweepIsWithin(sweep[p], least[p])
    BY <1>0 DEF SweepsWithinRetention
  <2>1. /\ sweep[p].pc = "delete"
        /\ trail' = trail \ taken /\ removed' = removed \cup {Removal(e) : e \in taken}
        /\ UNCHANGED <<today, retention, changes, least>>
    BY <1>12 DEF DeleteBatch
  <2>2. sweep' = [sweep EXCEPT ![p] = next]
    BY <1>12 DEF DeleteBatch
  <2>3. \A e \in taken : /\ e \in Event /\ Removal(e).event = e
                         /\ Removal(e).least > 0 /\ Removal(e).kept > Removal(e).least
    <3> SUFFICES ASSUME NEW e \in taken
                 PROVE  /\ e \in Event /\ Removal(e).event = e
                        /\ Removal(e).least > 0 /\ Removal(e).kept > Removal(e).least
      OBVIOUS
    <3>1. e \in Event /\ e.org = sweep[p].org /\ e.at < sweep[p].before
      BY <2>0 DEF SweepIsWithin
    <3>2. e.at \in Int /\ today \in Int
      BY <1>0, <1>a, <3>1 DEF Event, Days
    <3>3. /\ sweep[p].before \in Int /\ least[p][sweep[p].org] \in Nat
          /\ 0 < least[p][sweep[p].org] /\ least[p][sweep[p].org] <= today - sweep[p].before
      BY <1>a, <2>0, <2>1 DEF SweepIsWithin
    <3> QED
      BY <3>1, <3>2, <3>3
  <2> HIDE DEF Removal
  <2>4. taken \subseteq trail
    OBVIOUS
  <2>5. next \in Sweeps /\ SweepIsWithin(next, least[p])
    <3>1. more \in BOOLEAN
      OBVIOUS
    <3> HIDE DEF taken, more
    <3>2. next \in Sweeps
      <4> DEFINE count == IF more THEN sweep[p].batches + 1 ELSE sweep[p].batches
                 step == IF more THEN "select" ELSE "next"
      <4>1. count \in Nat
        BY <2>0 DEF Sweeps
      <4>2. step \in {"select", "next"}
        OBVIOUS
      <4>3. next = [sweep[p] EXCEPT !.pc = step, !.batches = count, !.batch = {}]
        OBVIOUS
      <4> HIDE DEF count, step, next
      <4> QED
        BY <2>0, <4>1, <4>2, <4>3 DEF Sweeps
    <3>3. /\ next.declared = sweep[p].declared /\ next.org = sweep[p].org
          /\ next.before = sweep[p].before /\ next.batch = {}
      BY <2>0 DEF Sweeps
    <3> HIDE DEF next
    <3> QED
      BY <2>0, <2>1, <3>2, <3>3 DEF SweepIsWithin
  <2> HIDE DEF taken, next
  <2>6. AuditTypeOK' /\ RemovedInTime' /\ CommittedWithTheirEvent'
    BY <1>0, <2>1, <2>3, <2>4 DEF AuditTypeOK, RemovedInTime, CommittedWithTheirEvent
  <2>7. ASSUME NEW q \in Pruners PROVE sweep'[q] \in Sweeps /\ SweepIsWithin(sweep[q], least[q])'
    <3>1. CASE q = p
      <4>1. sweep'[q] = next
        BY <1>0, <2>2, <3>1 DEF SweepsWithinRetention
      <4> QED
        BY <2>1, <2>5, <3>1, <4>1 DEF SweepIsWithin
    <3>2. CASE q # p
      <4>1. sweep'[q] = sweep[q]
        BY <1>0, <2>2, <3>2 DEF SweepsWithinRetention
      <4> QED
        BY <1>0, <2>1, <4>1 DEF SweepsWithinRetention, SweepIsWithin
    <3> QED
      BY <3>1, <3>2
  <2>8. SweepsWithinRetention'
    BY <1>0, <2>2, <2>7 DEF SweepsWithinRetention
  <2>9. ChangesTypeOK'
    BY <1>0, <2>1 DEF ChangesTypeOK
  <2> QED
    BY <2>6, <2>8, <2>9 DEF AuditInv
<1>10. ASSUME DayPasses PROVE AuditInv'
  <2>1. /\ today < MaxDays /\ today' = today + 1
        /\ UNCHANGED <<retention, changes, trail, removed, least, sweep>>
    BY <1>10 DEF DayPasses
  <2>2. today' \in Days /\ today \in Int
    BY <1>a, <2>1 DEF Days
  <2>3. \A n, b \in Int : n <= today - b => n <= today' - b
    BY <2>1, <2>2
  <2>4. SweepsWithinRetention'
    BY <1>0, <1>a, <2>1, <2>3 DEF SweepsWithinRetention, SweepIsWithin
  <2> QED
    BY <1>0, <2>1, <2>2, <2>4
       DEF AuditInv, AuditTypeOK, ChangesTypeOK, CommittedWithTheirEvent, RemovedInTime
<1>11. CASE UNCHANGED auditVars
  BY <1>0, <1>11 DEF auditVars, AuditInv, AuditTypeOK, ChangesTypeOK, CommittedWithTheirEvent,
                     RemovedInTime, SweepsWithinRetention, SweepIsWithin
<1> QED
  BY <1>2, <1>3, <1>4, <1>5, <1>7, <1>8, <1>9, <1>10, <1>11, <1>12 DEF AuditNext

\* Whatever fails and however a sweep races new declarations, a change took effect
\* if and only if its event was written, and retention removes only what is older
\* than the shortest period declared since the sweep that removed it began, however
\* many replicas sweep at a time (auditedWithAction, DeclaredRetentions, PruneEventsBefore).
THEOREM TrailIsAlwaysKept == AuditSpec => []TrailIsKept
<1>1. AuditInv => TrailIsKept
  BY DEF AuditInv, CommittedWithTheirEvent, RemovedInTime, TrailIsKept
<1> QED
  BY AuditInvInit, AuditInvNext, <1>1, PTL DEF AuditSpec

-----------------------------------------------------------------------------
(* Alert intake: the invariant. *)

\* The rows of a table that a transaction may have in its own version.
Versions(X, R) == UNION {[Y -> R] : Y \in SUBSET X}

Steps == {"idle", "upsert", "group", "count", "refresh", "open", "merge"}
TxnRow == [step : Steps, todo : SUBSET Alerts, target : Incidents \cup {None}, firing : BOOLEAN,
           fresh : SUBSET Incidents, alerts : Versions(Alerts, AlertRow),
           incidents : Versions(Incidents, IncidentRow)]

TablesTypeOK ==
    /\ alert \in [Alerts -> AlertRow]
    /\ incident \in [Incidents -> IncidentRow]
    /\ accepted \in [Identities -> Deliveries \cup {None}]
    /\ answer \in [Deliveries ->
           {None, "accepted", "already accepted", "conflict", "not recorded"}]
    /\ txn \in [Txns -> TxnRow]

\* The predicates below are about a transaction t whose row is r, while A and I
\* are the committed alerts and Incidents.

\* An Incident as the transaction sees it.
View(r, I, i) == IF i \in DOMAIN r.incidents THEN r.incidents[i] ELSE I[i]

\* An operator only ever locks rows.
LocksOnly(r, I) ==
    /\ r.step \in {"idle", "merge"} /\ DOMAIN r.alerts = {} /\ r.fresh = {}
    /\ \A i \in DOMAIN r.incidents : r.incidents[i] = I[i]

\* Where a transaction stands in its loop over the Alert Events.
StepIsSound(t, r, I) ==
    /\ r.step = "idle" => r = NoTxn
    /\ t \in Operators => LocksOnly(r, I)
    /\ t \in Deliveries => r.step # "merge" /\ r.todo \subseteq DOMAIN Batch[t]
    /\ r.step \in {"upsert", "group", "count", "refresh"} => r.todo # {}
    /\ r.step = "open" => r.todo = {}
    /\ IF r.step \in {"count", "refresh", "merge"} THEN r.target \in Incidents ELSE r.target = None
    /\ r.step \in {"count", "refresh"} => View(r, I, r.target).status # "absent"
    /\ r.step = "merge" => r.target \notin DOMAIN r.incidents
    /\ r.step = "group" => /\ Min(r.todo) \in DOMAIN r.alerts
                           /\ r.alerts[Min(r.todo)].status = "firing"

\* What it has written of an Alert Event: a resolved row is left as it was, and a
\* firing one is in an Incident of its key, or about to be.
AlertIsSound(r, A, I, a) ==
    /\ r.alerts[a].status # "absent"
    /\ A[a].status = "resolved" => r.alerts[a] = A[a]
    /\ r.alerts[a].status = "firing" /\ r.alerts[a].incident = None =>
          r.step = "group" /\ a = Min(r.todo)
    /\ r.alerts[a].incident # None =>
          /\ View(r, I, r.alerts[a].incident).status # "absent"
          /\ View(r, I, r.alerts[a].incident).key = Key[a]

\* What it has written of an Incident: it keeps key and merge, and is investigated
\* unless it is to be.
IncidentIsSound(r, I, i) ==
    /\ r.incidents[i].status # "absent"
    /\ I[i].status # "absent" => r.incidents[i].key = I[i].key
    /\ r.incidents[i].merged = I[i].merged
    /\ r.incidents[i].investigated <=> AgentAvailable /\ i \notin r.fresh

\* The Alert Events a delivery has dealt with are recorded in its version.
Handled(t, r) ==
    IF r.step = "idle" THEN {}
    ELSE (DOMAIN Batch[t] \ r.todo)
         \cup (IF r.step \in {"group", "count", "refresh"} THEN {Min(r.todo)} ELSE {})

BatchIsRecorded(t, r) ==
    t \in Deliveries => \A a \in Handled(t, r) :
        /\ a \in DOMAIN r.alerts
        /\ Batch[t][a] = "resolved" => r.alerts[a].status = "resolved"

TxnIsSound(t, r, A, I) ==
    /\ StepIsSound(t, r, I) /\ BatchIsRecorded(t, r)
    /\ r.fresh \subseteq DOMAIN r.incidents
    /\ \A a \in DOMAIN r.alerts : AlertIsSound(r, A, I, a)
    /\ \A i \in DOMAIN r.incidents : IncidentIsSound(r, I, i)

\* Two transactions that have rows in hand: none of the rows is the same, and no
\* two open Incidents of one key are among them.
Apart(q, r) ==
    /\ DOMAIN q.alerts \cap DOMAIN r.alerts = {}
    /\ DOMAIN q.incidents \cap DOMAIN r.incidents = {}
    /\ \A i \in DOMAIN q.incidents, j \in DOMAIN r.incidents :
          ~(/\ q.incidents[i].status = "open" /\ r.incidents[j].status = "open"
            /\ q.incidents[i].key = r.incidents[j].key)

\* An Incident that a transaction leaves open is the only one of its key, but for
\* those it has in hand itself and does not leave open.
OpenAlone(r, I) ==
    \A i \in DOMAIN r.incidents : r.incidents[i].status = "open" =>
        \A j \in Incidents \ {i} :
            View(r, I, j).status = "open" => View(r, I, j).key # r.incidents[i].key

\* The committed rows.
RowsAreSound ==
    /\ AlertsReachIncidents /\ OneOpenIncidentPerKey /\ MergesAreAcyclic
    /\ \A i \in Incidents : incident[i].status = "absent" => incident[i].merged = None
    /\ \A n \in Identities : accepted[n] # None => \A a \in DOMAIN Batch[accepted[n]] :
          /\ alert[a].status # "absent"
          /\ Batch[accepted[n]][a] = "resolved" => alert[a].status = "resolved"

IntakeInv ==
    /\ TablesTypeOK /\ RowsAreSound
    /\ \A t \in Txns : TxnIsSound(t, txn[t], alert, incident) /\ OpenAlone(txn[t], incident)
    /\ \A t, u \in Txns : t # u => Apart(txn[t], txn[u])

-----------------------------------------------------------------------------
(* Alert intake: the operators. *)

\* A set of numbers has a least one.
LEMMA MinFacts ==
    ASSUME NEW S \in SUBSET Nat, S # {}
    PROVE  Min(S) \in S
<1>1. PICK k \in S : \A j \in S : ~(<<j, k>> \in OpToRel(<, Nat))
  BY NatLessThanWellFounded, WFMin
<1>2. \A j \in S : k <= j
  <2> SUFFICES ASSUME NEW j \in S, j < k PROVE FALSE
    OBVIOUS
  <2>1. <<j, k>> \in Nat \X Nat /\ <<j, k>>[1] < <<j, k>>[2]
    OBVIOUS
  <2>2. <<j, k>> \in OpToRel(<, Nat)
    BY <2>1, Zenon DEF OpToRel
  <2> QED
    BY <1>1, <2>2
<1> QED
  BY <1>2 DEF Min

\* The table as a transaction sees it.
LEMMA OverFacts ==
    ASSUME NEW X, NEW R, NEW old \in [X -> R], NEW new \in Versions(X, R)
    PROVE  /\ Over(new, old) \in [X -> R]
           /\ \A x \in X : Over(new, old)[x] = IF x \in DOMAIN new THEN new[x] ELSE old[x]
           /\ DOMAIN new \subseteq X
<1>1. PICK Y \in SUBSET X : new \in [Y -> R]
  BY DEF Versions
<1> QED
  BY <1>1 DEF Over

\* One more row in hand.
LEMMA WithType ==
    ASSUME NEW X, NEW R, NEW rows \in Versions(X, R), NEW x \in X, NEW now \in R
    PROVE  With(rows, x, now) \in Versions(X, R)
<1>1. PICK Y \in SUBSET X : rows \in [Y -> R]
  BY DEF Versions
<1>2. With(rows, x, now) \in [Y \cup {x} -> R]
  BY <1>1 DEF With
<1> QED
  BY <1>2 DEF Versions

LEMMA WithFacts == \A rows, x, now :
    /\ DOMAIN With(rows, x, now) = DOMAIN rows \cup {x}
    /\ With(rows, x, now)[x] = now
    /\ \A y \in DOMAIN rows \ {x} : With(rows, x, now)[y] = rows[y]
BY DEF With

\* What the constants are.
LEMMA IntakeFacts ==
    /\ Alerts \subseteq Nat /\ Incidents \subseteq Nat /\ None \notin Incidents
    /\ None \notin Deliveries /\ Operators \cap Deliveries = {}
    /\ Txns = Deliveries \cup Operators
    /\ \A d \in Deliveries : DOMAIN Batch[d] \subseteq Alerts
    /\ \A d \in Deliveries : \A a \in DOMAIN Batch[d] : Batch[d][a] \in {"firing", "resolved"}
    /\ \A a \in Alerts : Key[a] \in Keys
    /\ \A d \in Deliveries : Identity[d] \in Identities
<1>1. Incidents \subseteq Nat
  BY BoundAssumption DEF Incidents
<1> QED
  BY <1>1, AlertsAssumption, BatchAssumption, NoneAssumption, OperatorsAssumption
     DEF Txns, Keys, Identities

LEMMA TxnFacts ==
    ASSUME NEW r \in TxnRow
    PROVE  /\ r.step \in Steps /\ r.todo \subseteq Alerts /\ r.target \in Incidents \cup {None}
           /\ r.firing \in BOOLEAN /\ r.fresh \subseteq Incidents
           /\ r.alerts \in Versions(Alerts, AlertRow)
           /\ r.incidents \in Versions(Incidents, IncidentRow)
           /\ DOMAIN r.alerts \subseteq Alerts /\ DOMAIN r.incidents \subseteq Incidents
           /\ \A a \in DOMAIN r.alerts : r.alerts[a] \in AlertRow
           /\ \A i \in DOMAIN r.incidents : r.incidents[i] \in IncidentRow
<1>1. /\ r.alerts \in Versions(Alerts, AlertRow)
      /\ r.incidents \in Versions(Incidents, IncidentRow)
  BY DEF TxnRow
<1>2. PICK Y \in SUBSET Alerts : r.alerts \in [Y -> AlertRow]
  BY <1>1 DEF Versions
<1>3. PICK Z \in SUBSET Incidents : r.incidents \in [Z -> IncidentRow]
  BY <1>1 DEF Versions
<1> QED
  BY <1>1, <1>2, <1>3 DEF TxnRow

LEMMA NoTxnFacts ==
    /\ NoTxn \in TxnRow /\ NoTxn.step = "idle" /\ DOMAIN NoTxn.alerts = {}
    /\ DOMAIN NoTxn.incidents = {} /\ NoTxn.fresh = {} /\ NoTxn.target = None
<1>1. <<>> \in Versions(Alerts, AlertRow) /\ <<>> \in Versions(Incidents, IncidentRow)
  <2>1. <<>> \in [{} -> AlertRow] /\ <<>> \in [{} -> IncidentRow]
    OBVIOUS
  <2> QED
    BY <2>1 DEF Versions
<1>2. DOMAIN <<>> = {}
  OBVIOUS
<1> QED
  BY <1>1, <1>2 DEF NoTxn, TxnRow, Steps

\* A transaction that has nothing in hand is sound.
LEMMA NoTxnIsSound ==
    ASSUME NEW A, NEW I
    PROVE  /\ \A t \in Txns : TxnIsSound(t, NoTxn, A, I)
           /\ OpenAlone(NoTxn, I)
           /\ \A r : Apart(NoTxn, r) /\ Apart(r, NoTxn)
<1>1. \A t \in Txns : TxnIsSound(t, NoTxn, A, I)
  BY NoTxnFacts DEF TxnIsSound, StepIsSound, LocksOnly, BatchIsRecorded, Handled, NoTxn
<1> QED
  BY <1>1, NoTxnFacts DEF OpenAlone, Apart

\* A transaction sees the rows it has in hand, and the committed ones.
LEMMA ViewFacts ==
    ASSUME TablesTypeOK, NEW t \in Txns
    PROVE  /\ txn[t] \in TxnRow
           /\ \A a \in Alerts : SeenAlert(t, a) =
                 IF a \in DOMAIN txn[t].alerts THEN txn[t].alerts[a] ELSE alert[a]
           /\ \A a \in Alerts : SeenAlert(t, a) \in AlertRow
           /\ \A i \in Incidents : SeenIncident(t, i) = View(txn[t], incident, i)
           /\ \A i \in Incidents : View(txn[t], incident, i) \in IncidentRow
<1>1. /\ txn[t] \in TxnRow /\ alert \in [Alerts -> AlertRow] /\ incident \in [Incidents -> IncidentRow]
  BY DEF TablesTypeOK
<1>2. /\ txn[t].alerts \in Versions(Alerts, AlertRow)
      /\ txn[t].incidents \in Versions(Incidents, IncidentRow)
      /\ \A i \in DOMAIN txn[t].incidents : txn[t].incidents[i] \in IncidentRow
      /\ \A a \in DOMAIN txn[t].alerts : txn[t].alerts[a] \in AlertRow
  BY <1>1, TxnFacts
<1>3. \A a \in Alerts : SeenAlert(t, a) =
                 IF a \in DOMAIN txn[t].alerts THEN txn[t].alerts[a] ELSE alert[a]
  BY <1>1, <1>2, OverFacts DEF SeenAlert
<1>4. \A i \in Incidents : SeenIncident(t, i) =
                 IF i \in DOMAIN txn[t].incidents THEN txn[t].incidents[i] ELSE incident[i]
  BY <1>1, <1>2, OverFacts DEF SeenIncident
<1> QED
  BY <1>1, <1>2, <1>3, <1>4 DEF View

\* A transaction that has a row in hand is one that the others see.
LEMMA LockFacts ==
    ASSUME IntakeInv, NEW t \in Txns, NEW u \in Txns, t # u
    PROVE  /\ \A a \in DOMAIN txn[u].alerts : AlertLocked(t, a)
           /\ \A i \in DOMAIN txn[u].incidents : IncidentLocked(t, i)
           /\ \A i \in DOMAIN txn[u].incidents : i \notin FreeIds
           /\ \A i \in DOMAIN txn[u].incidents :
                 txn[u].incidents[i].status = "open" => KeyContended(t, txn[u].incidents[i].key)
<1>1. txn[u].step = "idle" => DOMAIN txn[u].alerts = {} /\ DOMAIN txn[u].incidents = {}
  BY NoTxnFacts DEF IntakeInv, TxnIsSound, StepIsSound
<1>2. txn[u].step # "idle" => u \in Active \ {t} /\ u \in Active
  BY DEF Active
<1> QED
  BY <1>1, <1>2 DEF AlertLocked, IncidentLocked, FreeIds, KeyContended

-----------------------------------------------------------------------------
(* Alert intake: the parts of a step. *)

\* A transaction goes on with what it has in hand; nothing is committed.
LEMMA MoveKeepsInv ==
    ASSUME IntakeInv, NEW t \in Txns, NEW r \in TxnRow, txn' = [txn EXCEPT ![t] = r],
           UNCHANGED <<alert, incident, accepted>>, AcceptedIsRecorded',
           answer' \in [Deliveries ->
               {None, "accepted", "already accepted", "conflict", "not recorded"}],
           TxnIsSound(t, r, alert, incident), OpenAlone(r, incident),
           \A u \in Txns \ {t} : Apart(r, txn[u])
    PROVE  IntakeInv'
<1>1. /\ TablesTypeOK /\ RowsAreSound /\ txn \in [Txns -> TxnRow]
      /\ txn'[t] = r /\ \A u \in Txns \ {t} : txn'[u] = txn[u]
  BY DEF IntakeInv, TablesTypeOK
<1>2. TablesTypeOK'
  BY <1>1 DEF TablesTypeOK
<1>3. RowsAreSound'
  BY <1>1, ZenonT(40) DEF RowsAreSound, AlertsReachIncidents, FiringIsGrouped, IncidentsAreInvestigated,
              OneOpenIncidentPerKey, MergesAreAcyclic
<1>4. \A u \in Txns : TxnIsSound(u, txn'[u], alert', incident') /\ OpenAlone(txn'[u], incident')
  BY <1>1 DEF IntakeInv
<1>5. \A u, v \in Txns : u # v => Apart(txn'[u], txn'[v])
  <2>1. \A w \in Txns \ {t} : Apart(r, txn[w]) /\ Apart(txn[w], r)
    BY DEF Apart
  <2> QED
    BY <1>1, <2>1 DEF IntakeInv
<1> QED
  BY <1>2, <1>3, <1>4, <1>5 DEF IntakeInv

\* What an Incident goes through when a transaction that has it in hand ends.
IncidentEnds(q, i) ==
    \/ incident'[i] = incident[i]
    \/ /\ i \in DOMAIN q.incidents
       /\ incident'[i].status = q.incidents[i].status /\ incident'[i].key = q.incidents[i].key

\* A transaction ends, with or without a trace; the others do not notice.
LEMMA EndKeepsInv ==
    ASSUME IntakeInv, NEW t \in Txns, txn' = [txn EXCEPT ![t] = NoTxn],
           TablesTypeOK', RowsAreSound',
           \A a \in Alerts \ DOMAIN txn[t].alerts : alert'[a] = alert[a],
           \A i \in Incidents : IncidentEnds(txn[t], i)
    PROVE  IntakeInv'
<1>1. /\ TablesTypeOK /\ RowsAreSound /\ txn \in [Txns -> TxnRow] /\ txn[t] \in TxnRow
      /\ txn'[t] = NoTxn /\ \A u \in Txns \ {t} : txn'[u] = txn[u]
      /\ TxnIsSound(t, txn[t], alert, incident) /\ \A u \in Txns : txn[u] \in TxnRow
  BY DEF IntakeInv, TablesTypeOK
<1>2. \A i \in Incidents : incident[i].status # "absent" =>
         incident'[i].status # "absent" /\ incident'[i].key = incident[i].key
  BY <1>1 DEF IncidentEnds, TxnIsSound, IncidentIsSound
<1>3. ASSUME NEW u \in Txns \ {t}
      PROVE  TxnIsSound(u, txn'[u], alert', incident') /\ OpenAlone(txn'[u], incident')
  <2>1. PICK q \in TxnRow : q = txn[u]
    BY <1>1
  <2>2. /\ txn'[u] = q /\ TxnIsSound(u, q, alert, incident) /\ OpenAlone(q, incident)
        /\ Apart(q, txn[t])
        /\ DOMAIN q.alerts \subseteq Alerts /\ DOMAIN q.incidents \subseteq Incidents
        /\ q.target \in Incidents \cup {None}
        /\ \A a \in DOMAIN q.alerts : q.alerts[a] \in AlertRow
    BY <1>1, <2>1, TxnFacts DEF IntakeInv
  <2>3. /\ \A a \in DOMAIN q.alerts : alert'[a] = alert[a]
        /\ \A i \in DOMAIN q.incidents : incident'[i] = incident[i]
    BY <2>2 DEF Apart, IncidentEnds
  <2>4. \A i \in Incidents : View(q, incident, i).status # "absent" =>
           /\ View(q, incident', i).status # "absent"
           /\ View(q, incident', i).key = View(q, incident, i).key
    BY <1>2, <2>3 DEF View
  <2>5. StepIsSound(u, q, incident')
    BY <2>2, <2>3, <2>4 DEF TxnIsSound, StepIsSound, LocksOnly
  <2>6. \A a \in DOMAIN q.alerts : AlertIsSound(q, alert', incident', a)
    BY <2>2, <2>3, <2>4 DEF TxnIsSound, AlertIsSound, AlertRow
  <2>7. \A i \in DOMAIN q.incidents : IncidentIsSound(q, incident', i)
    BY <2>2, <2>3 DEF TxnIsSound, IncidentIsSound
  <2>8. ASSUME NEW i \in DOMAIN q.incidents, q.incidents[i].status = "open",
               NEW j \in Incidents \ {i}, View(q, incident', j).status = "open"
        PROVE  View(q, incident', j).key # q.incidents[i].key
    <3>1. CASE View(q, incident', j) = View(q, incident, j)
      BY <2>2, <2>8, <3>1 DEF OpenAlone
    <3>2. CASE View(q, incident', j) # View(q, incident, j)
      BY <2>2, <2>8, <3>2 DEF View, IncidentEnds, Apart
    <3> QED
      BY <3>1, <3>2
  <2> QED
    BY <2>2, <2>5, <2>6, <2>7, <2>8 DEF TxnIsSound, OpenAlone
<1>4. TxnIsSound(t, txn'[t], alert', incident') /\ OpenAlone(txn'[t], incident')
  BY <1>1, NoTxnIsSound
<1>5. \A u, v \in Txns : u # v => Apart(txn'[u], txn'[v])
  BY <1>1, NoTxnIsSound DEF IntakeInv
<1> QED
  BY <1>3, <1>4, <1>5 DEF IntakeInv

LEMMA IntakeInvInit == Init => IntakeInv
<1> SUFFICES ASSUME Init PROVE IntakeInv
  OBVIOUS
<1>0. /\ \A a \in Alerts : alert[a].status = "absent" /\ alert[a].incident = None
      /\ \A i \in Incidents : /\ incident[i].status = "absent" /\ incident[i].merged = None
                              /\ incident[i].investigated = FALSE
      /\ \A n \in Identities : accepted[n] = None
      /\ \A d \in Deliveries : answer[d] = None
      /\ \A t \in Txns : txn[t] = NoTxn
  BY DEF Init
<1>1. TablesTypeOK
  BY NoTxnFacts DEF Init, TablesTypeOK, AlertRow, IncidentRow
<1>2. MergesAreAcyclic
  <2> SUFFICES ASSUME NEW S \in (SUBSET Incidents) \ {{}} PROVE \E j \in S : incident[j].merged \notin S
    BY DEF MergesAreAcyclic
  <2>1. PICK i \in S : TRUE
    OBVIOUS
  <2>2. incident[i].merged \notin S
    BY <1>0, IntakeFacts
  <2> QED
    BY <2>2
<1>3. AlertsReachIncidents
  <2>1. AcceptedIsRecorded
    BY <1>0, NoneAssumption DEF AcceptedIsRecorded
  <2> QED
    BY <1>0, <2>1 DEF AlertsReachIncidents, FiringIsGrouped, IncidentsAreInvestigated
<1>4. RowsAreSound
  BY <1>0, <1>2, <1>3 DEF RowsAreSound, OneOpenIncidentPerKey
<1> QED
  BY <1>0, <1>1, <1>4, NoTxnIsSound DEF IntakeInv
-----------------------------------------------------------------------------
(* Alert intake: the steps. *)

LEMMA ClaimKeepsInv ==
    ASSUME IntakeInv, NEW d \in Deliveries, ClaimDelivery(d)
    PROVE  IntakeInv'
<1> DEFINE r == [NoTxn EXCEPT !.step = IF DOMAIN Batch[d] = {} THEN "open" ELSE "upsert",
                              !.todo = DOMAIN Batch[d]]
<1>1. /\ TablesTypeOK /\ d \in Txns /\ txn[d] \in TxnRow /\ txn[d] = NoTxn
      /\ txn \in [Txns -> TxnRow] /\ RowsAreSound
  BY IntakeFacts DEF ClaimDelivery, Begin, IntakeInv, TablesTypeOK, TxnIsSound, StepIsSound
<1>2. txn' = [txn EXCEPT ![d] = r] /\ UNCHANGED <<alert, incident, accepted, answer>>
  BY <1>1 DEF ClaimDelivery
<1>3. /\ r \in TxnRow /\ r.step = (IF DOMAIN Batch[d] = {} THEN "open" ELSE "upsert")
      /\ r.todo = DOMAIN Batch[d] /\ r.target = None /\ r.fresh = {}
      /\ DOMAIN r.alerts = {} /\ DOMAIN r.incidents = {}
  BY NoTxnFacts, IntakeFacts DEF NoTxn, TxnRow, Steps
<1> HIDE DEF r
<1>4. TxnIsSound(d, r, alert, incident) /\ OpenAlone(r, incident)
  BY <1>3, IntakeFacts DEF TxnIsSound, StepIsSound, BatchIsRecorded, Handled, OpenAlone
<1>5. \A u \in Txns \ {d} : Apart(r, txn[u])
  BY <1>3 DEF Apart
<1>6. AcceptedIsRecorded' /\ answer' \in [Deliveries ->
          {None, "accepted", "already accepted", "conflict", "not recorded"}]
  BY <1>1, <1>2 DEF TablesTypeOK, RowsAreSound, AlertsReachIncidents, AcceptedIsRecorded
<1> QED
  BY <1>1, <1>2, <1>3, <1>4, <1>5, <1>6, MoveKeepsInv

LEMMA RefuseKeepsInv ==
    ASSUME IntakeInv, NEW d \in Deliveries, RefuseDelivery(d)
    PROVE  IntakeInv'
<1>1. /\ TablesTypeOK /\ RowsAreSound /\ d \in Txns /\ txn[d] \in TxnRow /\ txn \in [Txns -> TxnRow]
      /\ answer \in [Deliveries ->
             {None, "accepted", "already accepted", "conflict", "not recorded"}]
  BY IntakeFacts DEF IntakeInv, TablesTypeOK
<1>2. PICK said \in {"already accepted", "conflict"} :
         /\ answer' = [answer EXCEPT ![d] = said]
         /\ said = "already accepted" => Batch[accepted[Identity[d]]] = Batch[d]
         /\ accepted[Identity[d]] # None
         /\ UNCHANGED <<alert, incident, accepted, txn>>
  BY DEF RefuseDelivery
<1>3. said = "already accepted" => \A a \in DOMAIN Batch[d] :
         /\ alert[a].status # "absent"
         /\ Batch[d][a] = "resolved" => alert[a].status = "resolved"
  <2>1. PICK n \in Identities : n = Identity[d]
    BY IntakeFacts
  <2>2. \A a \in DOMAIN Batch[accepted[n]] :
           /\ alert[a].status # "absent"
           /\ Batch[accepted[n]][a] = "resolved" => alert[a].status = "resolved"
    BY <1>1, <1>2, <2>1 DEF RowsAreSound
  <2> QED
    BY <1>2, <2>1, <2>2
<1>4. AcceptedIsRecorded
  BY <1>1 DEF RowsAreSound, AlertsReachIncidents
<1>5. AcceptedIsRecorded'
  BY <1>1, <1>2, <1>3, <1>4 DEF AcceptedIsRecorded
<1>6. txn' = [txn EXCEPT ![d] = txn[d]]
  BY <1>1, <1>2
<1>7. /\ TxnIsSound(d, txn[d], alert, incident) /\ OpenAlone(txn[d], incident)
      /\ \A u \in Txns \ {d} : Apart(txn[d], txn[u])
  BY <1>1 DEF IntakeInv
<1>8. answer' \in [Deliveries ->
          {None, "accepted", "already accepted", "conflict", "not recorded"}]
  BY <1>1, <1>2
<1> QED
  BY <1>1, <1>2, <1>5, <1>6, <1>7, <1>8, MoveKeepsInv

LEMMA RollbackKeepsInv ==
    ASSUME IntakeInv, NEW t \in Txns, Rollback(t)
    PROVE  IntakeInv'
<1>1. /\ TablesTypeOK /\ RowsAreSound /\ txn' = [txn EXCEPT ![t] = NoTxn]
      /\ UNCHANGED <<alert, incident, accepted>>
      /\ answer' = IF t \in Deliveries THEN [answer EXCEPT ![t] = "not recorded"] ELSE answer
  BY DEF IntakeInv, Rollback
<1>2. TablesTypeOK'
  BY <1>1, NoTxnFacts DEF TablesTypeOK
<1>3. AcceptedIsRecorded
  BY <1>1 DEF RowsAreSound, AlertsReachIncidents
<1>4. AcceptedIsRecorded'
  BY <1>1, <1>3 DEF AcceptedIsRecorded, TablesTypeOK
<1>5. RowsAreSound'
  BY <1>1, <1>4 DEF RowsAreSound, AlertsReachIncidents, FiringIsGrouped, IncidentsAreInvestigated,
                    OneOpenIncidentPerKey, MergesAreAcyclic
<1> QED
  BY <1>1, <1>2, <1>5, EndKeepsInv DEF IncidentEnds

LEMMA CountKeepsInv ==
    ASSUME IntakeInv, NEW d \in Deliveries, CountFiring(d)
    PROVE  IntakeInv'
<1>1. /\ TablesTypeOK /\ RowsAreSound /\ d \in Txns /\ txn[d] \in TxnRow /\ txn \in [Txns -> TxnRow]
      /\ TxnIsSound(d, txn[d], alert, incident) /\ OpenAlone(txn[d], incident)
      /\ \A u \in Txns \ {d} : Apart(txn[d], txn[u])
  BY IntakeFacts DEF IntakeInv, TablesTypeOK
<1>2. PICK q \in TxnRow, any \in BOOLEAN :
         /\ q = txn[d] /\ q.step = "count"
         /\ txn' = [txn EXCEPT ![d] = [q EXCEPT !.firing = any, !.step = "refresh"]]
         /\ UNCHANGED <<alert, incident, accepted, answer>>
  BY <1>1 DEF CountFiring
<1> DEFINE r == [q EXCEPT !.firing = any, !.step = "refresh"]
<1>3. /\ r \in TxnRow
      /\ r.step = "refresh" /\ r.todo = q.todo /\ r.target = q.target /\ r.fresh = q.fresh
      /\ r.alerts = q.alerts /\ r.incidents = q.incidents
  BY DEF TxnRow, Steps
<1> HIDE DEF r
<1>4. StepIsSound(d, r, incident)
  BY <1>1, <1>2, <1>3, IntakeFacts DEF TxnIsSound, StepIsSound, View
<1>5. TxnIsSound(d, r, alert, incident)
  <2>1. TxnIsSound(d, q, alert, incident)
    BY <1>1, <1>2
  <2>2. BatchIsRecorded(d, r)
    <3>1. Handled(d, r) = Handled(d, q)
      BY <1>2, <1>3 DEF Handled
    <3> QED
      BY <1>3, <2>1, <3>1 DEF TxnIsSound, BatchIsRecorded
  <2>3. \A a \in DOMAIN r.alerts : AlertIsSound(r, alert, incident, a)
    <3> SUFFICES ASSUME NEW a \in DOMAIN r.alerts PROVE AlertIsSound(r, alert, incident, a)
      OBVIOUS
    <3>1. AlertIsSound(q, alert, incident, a)
      BY <1>3, <2>1 DEF TxnIsSound
    <3>2. View(r, incident, r.alerts[a].incident) = View(q, incident, q.alerts[a].incident)
      BY <1>3 DEF View
    <3> QED
      BY <1>2, <1>3, <3>1, <3>2 DEF AlertIsSound
  <2>4. \A i \in DOMAIN r.incidents : IncidentIsSound(r, incident, i)
    BY <1>3, <2>1 DEF TxnIsSound, IncidentIsSound
  <2> QED
    BY <1>3, <1>4, <2>1, <2>2, <2>3, <2>4 DEF TxnIsSound
<1>6. OpenAlone(r, incident) /\ \A u \in Txns \ {d} : Apart(r, txn[u])
  BY <1>1, <1>2, <1>3 DEF OpenAlone, View, Apart
<1>7. AcceptedIsRecorded' /\ answer' \in [Deliveries ->
          {None, "accepted", "already accepted", "conflict", "not recorded"}]
  BY <1>1, <1>2 DEF TablesTypeOK, RowsAreSound, AlertsReachIncidents, AcceptedIsRecorded
<1>8. txn' = [txn EXCEPT ![d] = r]
  BY <1>2 DEF r
<1> QED
  BY <1>1, <1>2, <1>3, <1>5, <1>6, <1>7, <1>8, MoveKeepsInv
LEMMA LockKeepsInv ==
    ASSUME IntakeInv, NEW o \in Operators, NEW i \in Incidents, NEW j \in Incidents,
           LockAbsorbed(o, i, j)
    PROVE  IntakeInv'
<1> DEFINE held == With(NoTxn.incidents, i, incident[i])
           r == [NoTxn EXCEPT !.step = "merge", !.target = j, !.incidents = held]
<1>1. /\ TablesTypeOK /\ RowsAreSound /\ o \in Txns /\ txn \in [Txns -> TxnRow]
      /\ txn[o] = NoTxn /\ i # j /\ incident[i].status # "absent" /\ ~IncidentLocked(o, i)
      /\ incident[i] \in IncidentRow
  BY IntakeFacts DEF LockAbsorbed, Begin, IntakeInv, TablesTypeOK, TxnIsSound, StepIsSound
<1>2. UNCHANGED <<alert, incident, accepted, answer>>
  BY DEF LockAbsorbed
<1>3. NoTxn.incidents \in Versions(Incidents, IncidentRow) /\ DOMAIN NoTxn.incidents = {}
  BY NoTxnFacts, TxnFacts
<1>4. txn' = [txn EXCEPT ![o] = r]
  BY <1>1 DEF LockAbsorbed
<1>6. /\ held \in Versions(Incidents, IncidentRow) /\ DOMAIN held = {i} /\ held[i] = incident[i]
  <2>1. held \in Versions(Incidents, IncidentRow)
    BY <1>1, <1>3, WithType
  <2>2. DOMAIN held = {i}
    <3>1. DOMAIN With(NoTxn.incidents, i, incident[i]) = DOMAIN NoTxn.incidents \cup {i}
      BY WithFacts
    <3> QED
      BY <1>3, <3>1
  <2>3. held[i] = incident[i]
    BY WithFacts
  <2> QED
    BY <2>1, <2>2, <2>3
<1> HIDE DEF held
<1>7. /\ r \in TxnRow /\ r.step = "merge" /\ r.target = j /\ r.fresh = {} /\ r.todo = {}
      /\ DOMAIN r.alerts = {} /\ r.incidents = held
  BY <1>6, NoTxnFacts DEF NoTxn, TxnRow, Steps
<1> HIDE DEF r
<1>8. incident[i].investigated <=> AgentAvailable
  BY <1>1, Zenon DEF RowsAreSound, AlertsReachIncidents, IncidentsAreInvestigated
<1>9. TxnIsSound(o, r, alert, incident)
  BY <1>1, <1>6, <1>7, <1>8, IntakeFacts
     DEF TxnIsSound, StepIsSound, LocksOnly, BatchIsRecorded, IncidentIsSound
<1>10. OpenAlone(r, incident)
  BY <1>1, <1>6, <1>7 DEF OpenAlone, View, RowsAreSound, OneOpenIncidentPerKey
<1>11. ASSUME NEW u \in Txns \ {o} PROVE Apart(r, txn[u])
  <2>1. i \notin DOMAIN txn[u].incidents
    BY <1>1, LockFacts
  <2>2. /\ OpenAlone(txn[u], incident) /\ View(txn[u], incident, i) = incident[i]
        /\ DOMAIN txn[u].incidents \subseteq Incidents
    BY <1>1, <2>1, TxnFacts DEF IntakeInv, View
  <2> QED
    BY <1>6, <1>7, <2>1, <2>2 DEF Apart, OpenAlone
<1>12. AcceptedIsRecorded' /\ answer' \in [Deliveries ->
           {None, "accepted", "already accepted", "conflict", "not recorded"}]
  BY <1>1, <1>2 DEF TablesTypeOK, RowsAreSound, AlertsReachIncidents, AcceptedIsRecorded
<1> QED
  BY <1>1, <1>2, <1>4, <1>7, <1>9, <1>10, <1>11, <1>12, MoveKeepsInv

LEMMA MergeKeepsInv ==
    ASSUME IntakeInv, NEW o \in Operators, MergeIncidents(o)
    PROVE  /\ IntakeInv'
           /\ \A i \in Incidents : incident[i].merged # None => incident'[i].merged = incident[i].merged
<1>1. /\ TablesTypeOK /\ RowsAreSound /\ o \in Txns /\ txn[o] \in TxnRow /\ txn \in [Txns -> TxnRow]
      /\ incident \in [Incidents -> IncidentRow]
      /\ TxnIsSound(o, txn[o], alert, incident)
  BY IntakeFacts DEF IntakeInv, TablesTypeOK
<1>2. PICK q \in TxnRow : q = txn[o]
  BY <1>1
<1>3. /\ q.step = "merge" /\ LocksOnly(q, incident) /\ q.target \in Incidents
      /\ q.target \notin DOMAIN q.incidents /\ DOMAIN q.incidents \subseteq Incidents
  BY <1>1, <1>2, TxnFacts DEF MergeIncidents, TxnIsSound, StepIsSound
<1>4. PICK i \in DOMAIN q.incidents :
         incident' = IF Mergeable(q.incidents[i], incident[q.target])
                     THEN [incident EXCEPT ![i] = [q.incidents[i] EXCEPT !.merged = q.target]]
                     ELSE incident
  BY <1>2 DEF MergeIncidents
<1>5. /\ txn' = [txn EXCEPT ![o] = NoTxn] /\ UNCHANGED <<alert, accepted, answer>>
  BY DEF MergeIncidents
<1>6. PICK old \in IncidentRow, j \in Incidents :
         /\ old = incident[i] /\ q.incidents[i] = old /\ j = q.target /\ j # i /\ i \in Incidents
  BY <1>1, <1>3 DEF LocksOnly
<1>7. [old EXCEPT !.merged = j] \in IncidentRow
  BY DEF IncidentRow
<1>8. /\ incident' \in [Incidents -> IncidentRow]
      /\ \A k \in Incidents : /\ incident'[k].status = incident[k].status
                              /\ incident'[k].key = incident[k].key
                              /\ incident'[k].investigated = incident[k].investigated
      /\ \A k \in Incidents : incident[k].merged # None => incident'[k].merged = incident[k].merged
      /\ \A k \in Incidents \ {i} : incident'[k] = incident[k]
      /\ incident'[i].merged # incident[i].merged => incident'[i].merged = j /\ incident[j].merged = None
  BY <1>1, <1>4, <1>6, <1>7 DEF Mergeable, IncidentRow
<1>9. MergesAreAcyclic'
  <2> SUFFICES ASSUME NEW S \in (SUBSET Incidents) \ {{}} PROVE \E k \in S : incident'[k].merged \notin S
    BY DEF MergesAreAcyclic
  <2>1. CASE incident'[i].merged = incident[i].merged
    <3>1. PICK k \in S : incident[k].merged \notin S
      BY <1>1 DEF RowsAreSound, MergesAreAcyclic
    <3> QED
      BY <1>8, <2>1, <3>1
  <2>2. CASE incident'[i].merged # incident[i].merged /\ j \in S
    BY <1>6, <1>8, <2>2, IntakeFacts
  <2>3. CASE incident'[i].merged # incident[i].merged /\ j \notin S /\ i \in S
    BY <1>8, <2>3
  <2>4. CASE i \notin S
    <3>1. PICK k \in S : incident[k].merged \notin S
      BY <1>1 DEF RowsAreSound, MergesAreAcyclic
    <3> QED
      BY <1>8, <2>4, <3>1
  <2> QED
    BY <2>1, <2>2, <2>3, <2>4
<1>10. TablesTypeOK'
  BY <1>1, <1>5, <1>8, NoTxnFacts DEF TablesTypeOK
<1>11. AlertsReachIncidents' /\ OneOpenIncidentPerKey'
  <2>1. alert \in [Alerts -> AlertRow]
    BY <1>1 DEF TablesTypeOK
  <2>2. AcceptedIsRecorded'
    BY <1>1, <1>5 DEF RowsAreSound, AlertsReachIncidents, AcceptedIsRecorded
  <2>3. IncidentsAreInvestigated'
    BY <1>1, <1>8 DEF RowsAreSound, AlertsReachIncidents, IncidentsAreInvestigated
  <2>4. OneOpenIncidentPerKey'
    BY <1>1, <1>8 DEF RowsAreSound, OneOpenIncidentPerKey
  <2>5. FiringIsGrouped'
    BY <1>1, <1>5, <1>8, <2>1 DEF RowsAreSound, AlertsReachIncidents, FiringIsGrouped, AlertRow
  <2> QED
    BY <2>2, <2>3, <2>4, <2>5 DEF AlertsReachIncidents
<1>12. \A k \in Incidents : incident'[k].status = "absent" => incident'[k].merged = None
  <2>1. old.status # "absent"
    BY <1>1, <1>2, <1>6 DEF TxnIsSound, IncidentIsSound
  <2> QED
    BY <1>1, <1>6, <1>8, <2>1 DEF RowsAreSound
<1>13. RowsAreSound'
  BY <1>1, <1>5, <1>9, <1>11, <1>12 DEF RowsAreSound
<1>14. \A k \in Incidents : IncidentEnds(txn[o], k)
  BY <1>2, <1>6, <1>8 DEF IncidentEnds
<1> QED
  BY <1>1, <1>5, <1>8, <1>10, <1>13, <1>14, EndKeepsInv
LEMMA CommitKeepsInv ==
    ASSUME IntakeInv, NEW d \in Deliveries, CommitDelivery(d)
    PROVE  /\ IntakeInv'
           /\ \A a \in Alerts : alert[a].status = "resolved" => alert'[a] = alert[a]
           /\ \A i \in Incidents : incident'[i].merged = incident[i].merged
<1>1. /\ TablesTypeOK /\ RowsAreSound /\ d \in Txns /\ txn[d] \in TxnRow /\ txn \in [Txns -> TxnRow]
      /\ alert \in [Alerts -> AlertRow] /\ incident \in [Incidents -> IncidentRow]
      /\ accepted \in [Identities -> Deliveries \cup {None}]
      /\ TxnIsSound(d, txn[d], alert, incident) /\ OpenAlone(txn[d], incident)
      /\ Identity[d] \in Identities /\ DOMAIN Batch[d] \subseteq Alerts
  BY IntakeFacts DEF IntakeInv, TablesTypeOK
<1>2. PICK q \in TxnRow : q = txn[d]
  BY <1>1
<1>3. /\ q.step = "open" /\ TxnIsSound(d, q, alert, incident) /\ OpenAlone(q, incident)
      /\ q.alerts \in Versions(Alerts, AlertRow) /\ q.incidents \in Versions(Incidents, IncidentRow)
      /\ DOMAIN q.incidents \subseteq Incidents /\ DOMAIN q.alerts \subseteq Alerts
      /\ \A i \in DOMAIN q.incidents : q.incidents[i] \in IncidentRow
      /\ q.fresh \subseteq DOMAIN q.incidents
  BY <1>1, <1>2, TxnFacts DEF CommitDelivery, TxnIsSound
<1>4. /\ alert' = Over(q.alerts, alert) /\ accepted' = [accepted EXCEPT ![Identity[d]] = d]
      /\ answer' = [answer EXCEPT ![d] = "accepted"] /\ txn' = [txn EXCEPT ![d] = NoTxn]
  BY <1>2 DEF CommitDelivery
<1>5. /\ alert' \in [Alerts -> AlertRow]
      /\ \A a \in Alerts : alert'[a] = IF a \in DOMAIN q.alerts THEN q.alerts[a] ELSE alert[a]
  BY <1>1, <1>3, <1>4, OverFacts
<1>6. PICK seen \in [Incidents -> IncidentRow] :
         /\ seen = Over(q.incidents, incident)
         /\ \A i \in Incidents : seen[i] = View(q, incident, i)
  <2>1. /\ Over(q.incidents, incident) \in [Incidents -> IncidentRow]
        /\ \A i \in Incidents : Over(q.incidents, incident)[i] =
              IF i \in DOMAIN q.incidents THEN q.incidents[i] ELSE incident[i]
    BY <1>1, <1>3, OverFacts
  <2> QED
    BY <2>1 DEF View
<1>7. incident' = [i \in Incidents |-> IF AgentAvailable /\ i \in q.fresh
                                       THEN [seen[i] EXCEPT !.investigated = TRUE] ELSE seen[i]]
  BY <1>2, <1>6 DEF CommitDelivery, OpenInvestigations
<1>8. /\ incident' \in [Incidents -> IncidentRow]
      /\ \A i \in Incidents : /\ incident'[i].status = seen[i].status
                              /\ incident'[i].key = seen[i].key
                              /\ incident'[i].merged = seen[i].merged
      /\ \A i \in Incidents : i \notin q.fresh => incident'[i] = seen[i]
      /\ \A i \in q.fresh : AgentAvailable => incident'[i].investigated = TRUE
      /\ \A i \in q.fresh : ~AgentAvailable => incident'[i] = seen[i]
  <2> SUFFICES ASSUME NEW i \in Incidents
               PROVE  /\ incident'[i] \in IncidentRow
                      /\ incident'[i].status = seen[i].status /\ incident'[i].key = seen[i].key
                      /\ incident'[i].merged = seen[i].merged
                      /\ i \notin q.fresh => incident'[i] = seen[i]
                      /\ i \in q.fresh /\ AgentAvailable => incident'[i].investigated = TRUE
                      /\ i \in q.fresh /\ ~AgentAvailable => incident'[i] = seen[i]
    BY <1>3, <1>7
  <2>1. PICK now \in IncidentRow : now = seen[i]
    BY <1>6
  <2>2. /\ [now EXCEPT !.investigated = TRUE] \in IncidentRow
        /\ [now EXCEPT !.investigated = TRUE].status = now.status
        /\ [now EXCEPT !.investigated = TRUE].key = now.key
        /\ [now EXCEPT !.investigated = TRUE].merged = now.merged
        /\ [now EXCEPT !.investigated = TRUE].investigated = TRUE
    BY DEF IncidentRow
  <2>3. CASE AgentAvailable /\ i \in q.fresh
    BY <1>7, <2>1, <2>2, <2>3
  <2>4. CASE ~(AgentAvailable /\ i \in q.fresh)
    BY <1>7, <2>1, <2>4
  <2> QED
    BY <2>3, <2>4
\* What was committed and what the delivery has written agree.
<1>9. \A i \in Incidents : /\ seen[i].merged = incident[i].merged
                           /\ incident[i].status # "absent" => /\ seen[i].status # "absent"
                                                               /\ seen[i].key = incident[i].key
  BY <1>3, <1>6 DEF View, TxnIsSound, IncidentIsSound
<1>10. \A a \in Alerts : /\ alert[a].status = "resolved" => alert'[a] = alert[a]
                         /\ alert[a].status # "absent" => alert'[a].status # "absent"
  BY <1>3, <1>5 DEF TxnIsSound, AlertIsSound
\* Every Alert Event of the delivery is recorded.
<1>11. \A a \in DOMAIN Batch[d] : /\ alert'[a].status # "absent"
                                  /\ Batch[d][a] = "resolved" => alert'[a].status = "resolved"
  <2>1. Handled(d, q) = DOMAIN Batch[d]
    BY <1>3 DEF Handled, TxnIsSound, StepIsSound
  <2> QED
    BY <1>1, <1>3, <1>5, <2>1 DEF TxnIsSound, BatchIsRecorded, AlertIsSound
<1>12. TablesTypeOK'
  BY <1>1, <1>4, <1>5, <1>8, NoTxnFacts DEF TablesTypeOK
<1>13. AcceptedIsRecorded'
  <2> SUFFICES ASSUME NEW e \in Deliveries, answer'[e] \in {"accepted", "already accepted"},
                      NEW a \in DOMAIN Batch[e]
               PROVE  /\ alert'[a].status # "absent"
                      /\ Batch[e][a] = "resolved" => alert'[a].status = "resolved"
    BY DEF AcceptedIsRecorded
  <2>1. CASE e = d
    BY <1>11, <2>1
  <2>2. CASE e # d
    <3>1. answer'[e] = answer[e] /\ a \in Alerts
      BY <1>1, <1>4, <2>2, IntakeFacts DEF TablesTypeOK
    <3>2. /\ alert[a].status # "absent"
          /\ Batch[e][a] = "resolved" => alert[a].status = "resolved"
      BY <1>1, <3>1 DEF RowsAreSound, AlertsReachIncidents, AcceptedIsRecorded
    <3> QED
      BY <1>10, <3>1, <3>2
  <2> QED
    BY <2>1, <2>2
<1>14. FiringIsGrouped'
  <2> SUFFICES ASSUME NEW a \in Alerts
               PROVE  /\ alert'[a].status = "firing" => alert'[a].incident # None
                      /\ alert'[a].incident # None =>
                            /\ incident'[alert'[a].incident].status # "absent"
                            /\ incident'[alert'[a].incident].key = Key[a]
    BY DEF FiringIsGrouped
  <2>1. PICK now \in AlertRow : now = alert'[a]
    BY <1>5
  <2>2. now.incident \in Incidents \cup {None}
    BY DEF AlertRow
  <2>3. CASE a \in DOMAIN q.alerts
    BY <1>3, <1>5, <1>6, <1>8, <2>1, <2>2, <2>3 DEF TxnIsSound, AlertIsSound
  <2>4. CASE a \notin DOMAIN q.alerts
    BY <1>1, <1>5, <1>8, <1>9, <2>1, <2>2, <2>4 DEF RowsAreSound, AlertsReachIncidents, FiringIsGrouped
  <2> QED
    BY <2>3, <2>4
<1>15. IncidentsAreInvestigated'
  <2> SUFFICES ASSUME NEW i \in Incidents
               PROVE  incident'[i].investigated <=> (AgentAvailable /\ incident'[i].status # "absent")
    BY DEF IncidentsAreInvestigated
  <2>1. CASE i \in DOMAIN q.incidents
    <3>1. IncidentIsSound(q, incident, i) /\ seen[i] = q.incidents[i]
      BY <1>3, <1>6, <2>1 DEF View, TxnIsSound
    <3> QED
      BY <1>8, <3>1 DEF IncidentIsSound
  <2>2. CASE i \notin DOMAIN q.incidents
    <3>1. incident'[i] = incident[i]
      BY <1>3, <1>6, <1>8, <2>2 DEF View
    <3> QED
      BY <1>1, <3>1 DEF RowsAreSound, AlertsReachIncidents, IncidentsAreInvestigated
  <2> QED
    BY <2>1, <2>2
<1>16. OneOpenIncidentPerKey'
  <2>1. \A i, j \in Incidents : seen[i].status = "open" /\ seen[j].status = "open" /\ i # j
           => seen[i].key # seen[j].key
    BY <1>1, <1>3, <1>6 DEF OpenAlone, View, RowsAreSound, OneOpenIncidentPerKey
  <2> QED
    BY <1>8, <2>1 DEF OneOpenIncidentPerKey
<1>17. MergesAreAcyclic'
  <2> SUFFICES ASSUME NEW S \in (SUBSET Incidents) \ {{}} PROVE \E k \in S : incident'[k].merged \notin S
    BY DEF MergesAreAcyclic
  <2>1. PICK k \in S : incident[k].merged \notin S
    BY <1>1 DEF RowsAreSound, MergesAreAcyclic
  <2>2. incident'[k].merged = incident[k].merged
    BY <1>8, <1>9
  <2> QED
    BY <2>1, <2>2
<1>18. \A i \in Incidents : incident'[i].status = "absent" => incident'[i].merged = None
  BY <1>1, <1>3, <1>6, <1>8, <1>9 DEF View, RowsAreSound, TxnIsSound, IncidentIsSound
<1>19. \A n \in Identities : accepted'[n] # None => \A a \in DOMAIN Batch[accepted'[n]] :
          /\ alert'[a].status # "absent"
          /\ Batch[accepted'[n]][a] = "resolved" => alert'[a].status = "resolved"
  <2> SUFFICES ASSUME NEW n \in Identities, accepted'[n] # None, NEW a \in DOMAIN Batch[accepted'[n]]
               PROVE  /\ alert'[a].status # "absent"
                      /\ Batch[accepted'[n]][a] = "resolved" => alert'[a].status = "resolved"
    OBVIOUS
  <2>1. CASE n = Identity[d]
    BY <1>1, <1>4, <1>11, <2>1
  <2>2. CASE n # Identity[d]
    <3>1. accepted'[n] = accepted[n] /\ accepted[n] \in Deliveries /\ a \in Alerts
      BY <1>1, <1>4, <2>2, IntakeFacts
    <3> QED
      BY <1>1, <1>10, <3>1 DEF RowsAreSound
  <2> QED
    BY <2>1, <2>2
<1>20. RowsAreSound'
  BY <1>13, <1>14, <1>15, <1>16, <1>17, <1>18, <1>19 DEF RowsAreSound, AlertsReachIncidents
<1>21. \A i \in Incidents : IncidentEnds(txn[d], i)
  BY <1>2, <1>3, <1>6, <1>8 DEF IncidentEnds, View
<1>22. \A a \in Alerts \ DOMAIN txn[d].alerts : alert'[a] = alert[a]
  BY <1>2, <1>5
<1> QED
  BY <1>1, <1>4, <1>8, <1>9, <1>10, <1>12, <1>20, <1>21, <1>22, EndKeepsInv
\* Nobody else is disturbed by a transaction that writes one Incident.
LEMMA WriteKeepsApart ==
    ASSUME IntakeInv, NEW d \in Txns, NEW q \in TxnRow, q = txn[d], NEW r \in TxnRow,
           \A u \in Txns \ {d} : DOMAIN r.alerts \cap DOMAIN txn[u].alerts = {},
           NEW i \in Incidents, \A u \in Txns \ {d} : i \notin DOMAIN txn[u].incidents,
           DOMAIN r.incidents = DOMAIN q.incidents \cup {i},
           \A j \in DOMAIN q.incidents \ {i} : r.incidents[j] = q.incidents[j],
           r.incidents[i].status = "open" =>
               /\ ~KeyContended(d, r.incidents[i].key)
               /\ \A j \in Incidents \ {i} : View(q, incident, j).status = "open" =>
                      View(q, incident, j).key # r.incidents[i].key
    PROVE  /\ OpenAlone(r, incident)
           /\ \A u \in Txns \ {d} : Apart(r, txn[u])
<1>1. /\ OpenAlone(q, incident) /\ DOMAIN q.incidents \subseteq Incidents
      /\ \A u \in Txns \ {d} : Apart(q, txn[u])
  BY TxnFacts DEF IntakeInv
<1>2. \A j \in Incidents \ {i} : View(r, incident, j) = View(q, incident, j)
  BY DEF View
<1>3. OpenAlone(r, incident)
  <2> SUFFICES ASSUME NEW k \in DOMAIN r.incidents, r.incidents[k].status = "open",
                      NEW j \in Incidents \ {k}, View(r, incident, j).status = "open"
               PROVE  View(r, incident, j).key # r.incidents[k].key
    BY DEF OpenAlone
  <2>1. CASE k = i
    BY <1>2, <2>1
  <2>2. CASE j = i
    <3>1. View(r, incident, j) = r.incidents[i] /\ k \in DOMAIN q.incidents /\ k # i
      BY <2>2 DEF View
    <3>2. View(q, incident, k) = r.incidents[k]
      BY <3>1 DEF View
    <3> QED
      BY <1>1, <2>2, <3>1, <3>2
  <2>3. CASE k # i /\ j # i
    BY <1>1, <1>2, <2>3 DEF OpenAlone
  <2> QED
    BY <2>1, <2>2, <2>3
<1>4. ASSUME NEW u \in Txns \ {d} PROVE Apart(r, txn[u])
  <2>1. \A j \in DOMAIN txn[u].incidents :
           txn[u].incidents[j].status = "open" => KeyContended(d, txn[u].incidents[j].key)
    BY LockFacts
  <2> QED
    BY <1>1, <2>1 DEF Apart
<1> QED
  BY <1>3, <1>4

\* The same, for one that writes an Alert Event only.
LEMMA AlertKeepsApart ==
    ASSUME IntakeInv, NEW d \in Txns, NEW q \in TxnRow, q = txn[d], NEW r \in TxnRow, NEW a \in Alerts,
           ~AlertLocked(d, a), DOMAIN r.alerts = DOMAIN q.alerts \cup {a}, r.incidents = q.incidents
    PROVE  /\ OpenAlone(r, incident)
           /\ \A u \in Txns \ {d} : Apart(r, txn[u])
<1>1. OpenAlone(q, incident) /\ \A u \in Txns \ {d} : Apart(q, txn[u])
  BY DEF IntakeInv
<1>2. \A u \in Txns \ {d} : a \notin DOMAIN txn[u].alerts
  BY LockFacts
<1> QED
  BY <1>1, <1>2 DEF OpenAlone, View, Apart

\* The first Alert Event that is left, in sorted order.
LEMMA FirstLeft ==
    ASSUME NEW q \in TxnRow, q.todo # {}
    PROVE  Min(q.todo) \in q.todo /\ Min(q.todo) \in Alerts
BY TxnFacts, MinFacts, IntakeFacts

LEMMA AdvanceFacts ==
    ASSUME NEW q \in TxnRow, NEW a
    PROVE  /\ Advance(q, a) \in TxnRow /\ Advance(q, a).alerts = q.alerts
           /\ Advance(q, a).incidents = q.incidents /\ Advance(q, a).fresh = q.fresh
           /\ Advance(q, a).todo = q.todo \ {a} /\ Advance(q, a).target = None
           /\ Advance(q, a).step = IF q.todo = {a} THEN "open" ELSE "upsert"
BY DEF Advance, TxnRow, Steps

LEMMA UpsertKeepsInv ==
    ASSUME IntakeInv, NEW d \in Deliveries, UpsertAlertEvent(d)
    PROVE  IntakeInv'
<1>1. /\ TablesTypeOK /\ RowsAreSound /\ d \in Txns /\ txn[d] \in TxnRow /\ txn \in [Txns -> TxnRow]
      /\ alert \in [Alerts -> AlertRow] /\ TxnIsSound(d, txn[d], alert, incident)
      /\ d \notin Operators
  BY IntakeFacts DEF IntakeInv, TablesTypeOK
<1>2. PICK q \in TxnRow : q = txn[d]
  BY <1>1
<1>3. /\ q.step = "upsert" /\ q.todo # {} /\ TxnIsSound(d, q, alert, incident)
      /\ q.todo \subseteq DOMAIN Batch[d] /\ q.target = None
  BY <1>1, <1>2 DEF UpsertAlertEvent, TxnIsSound, StepIsSound
<1>4. PICK a \in Alerts : a = Min(q.todo) /\ a \in q.todo
  BY <1>3, FirstLeft
<1>5. PICK now \in AlertRow : now = SeenAlert(d, a)
  BY <1>1, ViewFacts
<1>6. now = IF a \in DOMAIN q.alerts THEN q.alerts[a] ELSE alert[a]
  BY <1>1, <1>2, <1>5, ViewFacts
<1>7. PICK status \in {"firing", "resolved"} : status = KeptStatus(now, Batch[d][a])
  BY <1>3, <1>4, IntakeFacts DEF KeptStatus
<1>8. PICK new \in AlertRow : /\ new = [now EXCEPT !.status = status]
                              /\ new.status = status /\ new.incident = now.incident
  <2>1. /\ [now EXCEPT !.status = status] \in AlertRow
        /\ [now EXCEPT !.status = status].status = status
        /\ [now EXCEPT !.status = status].incident = now.incident
    BY DEF AlertRow
  <2> QED
    BY <2>1
<1> DEFINE mine == With(q.alerts, a, new)
           to == [q EXCEPT !.alerts = mine]
<1>9. /\ mine \in Versions(Alerts, AlertRow) /\ DOMAIN mine = DOMAIN q.alerts \cup {a}
      /\ mine[a] = new /\ \A b \in DOMAIN q.alerts \ {a} : mine[b] = q.alerts[b]
  <2>1. mine \in Versions(Alerts, AlertRow)
    BY TxnFacts, WithType
  <2>2. DOMAIN mine = DOMAIN q.alerts \cup {a}
    BY WithFacts
  <2>3. mine[a] = new
    BY WithFacts
  <2>4. \A b \in DOMAIN q.alerts \ {a} : mine[b] = q.alerts[b]
    BY WithFacts
  <2> QED
    BY <2>1, <2>2, <2>3, <2>4
<1>10. /\ ~AlertLocked(d, a) /\ UNCHANGED <<alert, incident, accepted, answer>>
       /\ txn' = [txn EXCEPT ![d] =
              CASE now.status = "absent" /\ Batch[d][a] = "resolved" -> Advance(to, a)
                [] now.status = "absent" /\ Batch[d][a] = "firing" -> [to EXCEPT !.step = "group"]
                [] now.status = "firing" /\ now.incident = None -> Advance(to, a)
                [] now.status = "firing" /\ now.incident # None ->
                       [to EXCEPT !.step = "count", !.target = now.incident]
                [] now.status = "resolved" -> Advance(to, a)]
  BY <1>2, <1>4, <1>5, <1>7, <1>8 DEF UpsertAlertEvent
<1> HIDE DEF mine
\* A row that is resolved stays as it is.
<1>11. /\ Batch[d][a] = "resolved" => status = "resolved"
       /\ now.status = "resolved" => new = now
       /\ now.status # "resolved" => status = Batch[d][a]
  BY <1>7, <1>8 DEF KeptStatus, AlertRow
<1>12. alert[a].status = "resolved" => now = alert[a]
  BY <1>3, <1>6 DEF TxnIsSound, AlertIsSound
<1>13. /\ now.status = "firing" => now.incident # None
       /\ now.incident # None => /\ now.incident \in Incidents
                                 /\ View(q, incident, now.incident).status # "absent"
                                 /\ View(q, incident, now.incident).key = Key[a]
  <2>1. now.incident \in Incidents \cup {None}
    BY DEF AlertRow
  <2>2. CASE a \in DOMAIN q.alerts
    BY <1>3, <1>6, <2>1, <2>2 DEF TxnIsSound, AlertIsSound
  <2>3. CASE a \notin DOMAIN q.alerts
    <3>1. /\ now.status = "firing" => now.incident # None
          /\ now.incident # None => /\ incident[now.incident].status # "absent"
                                    /\ incident[now.incident].key = Key[a]
      BY <1>1, <1>6, <2>3 DEF RowsAreSound, AlertsReachIncidents, FiringIsGrouped
    <3> QED
      BY <1>3, <2>1, <3>1 DEF View, TxnIsSound, IncidentIsSound
  <2> QED
    BY <2>2, <2>3
\* The delivery goes on with the next Alert Event, groups this one or refreshes
\* the Incident it is in.
<1>14. PICK r \in TxnRow :
         /\ txn' = [txn EXCEPT ![d] = r]
         /\ r.alerts = mine /\ r.incidents = q.incidents /\ r.fresh = q.fresh
         /\ \/ /\ status = "resolved" /\ r.todo = q.todo \ {a} /\ r.target = None
               /\ r.step = IF q.todo = {a} THEN "open" ELSE "upsert"
            \/ /\ status = "firing" /\ r.todo = q.todo /\ r.target = None /\ r.step = "group"
            \/ /\ now.incident # None /\ r.todo = q.todo /\ r.target = now.incident /\ r.step = "count"
  <2>1. /\ to \in TxnRow /\ to.step = q.step /\ to.todo = q.todo /\ to.fresh = q.fresh
        /\ to.alerts = mine /\ to.incidents = q.incidents /\ to.target = q.target
    BY <1>9 DEF TxnRow
  <2> HIDE DEF to
  <2>2. /\ Advance(to, a) \in TxnRow /\ Advance(to, a).alerts = mine
        /\ Advance(to, a).incidents = q.incidents /\ Advance(to, a).fresh = q.fresh
        /\ Advance(to, a).todo = q.todo \ {a} /\ Advance(to, a).target = None
        /\ Advance(to, a).step = IF q.todo = {a} THEN "open" ELSE "upsert"
    BY <2>1, AdvanceFacts
  <2>3. CASE now.status = "resolved" \/ (now.status = "absent" /\ Batch[d][a] = "resolved")
    <3>1. txn' = [txn EXCEPT ![d] = Advance(to, a)] /\ status = "resolved"
      BY <1>10, <1>11, <1>8, <2>3
    <3> QED
      BY <2>2, <3>1
  <2>4. CASE now.status = "absent" /\ Batch[d][a] = "firing"
    <3> DEFINE group == [to EXCEPT !.step = "group"]
    <3>1. /\ group \in TxnRow /\ group.step = "group" /\ group.todo = to.todo /\ group.fresh = to.fresh
          /\ group.alerts = to.alerts /\ group.incidents = to.incidents /\ group.target = to.target
      BY <2>1 DEF TxnRow, Steps
    <3>2. txn' = [txn EXCEPT ![d] = group] /\ status = "firing"
      BY <1>10, <1>11, <2>4
    <3> QED
      BY <1>3, <2>1, <3>1, <3>2
  <2>5. CASE now.status = "firing"
    <3> DEFINE count == [to EXCEPT !.step = "count", !.target = now.incident]
    <3>1. /\ count \in TxnRow /\ count.step = "count" /\ count.todo = to.todo /\ count.fresh = to.fresh
          /\ count.alerts = to.alerts /\ count.incidents = to.incidents
          /\ count.target = now.incident
      BY <1>13, <2>1, <2>5 DEF TxnRow, Steps
    <3>2. txn' = [txn EXCEPT ![d] = count]
      BY <1>10, <1>13, <2>5
    <3> QED
      BY <1>13, <2>1, <2>5, <3>1, <3>2
  <2> QED
    BY <1>3, <1>4, <2>3, <2>4, <2>5, IntakeFacts DEF AlertRow
<1> HIDE DEF to
<1>15. Min(r.todo) = a \/ r.step \notin {"group", "count"}
  BY <1>4, <1>14
<1>16. StepIsSound(d, r, incident)
  <2>1. r.step = "count" => r.target \in Incidents /\ View(r, incident, r.target).status # "absent"
    BY <1>13, <1>14 DEF View
  <2>2. r.step = "group" => /\ Min(r.todo) \in DOMAIN r.alerts
                            /\ r.alerts[Min(r.todo)].status = "firing"
    BY <1>8, <1>9, <1>14, <1>15
  <2> QED
    BY <1>1, <1>3, <1>4, <1>14, <2>1, <2>2 DEF StepIsSound
<1>17. BatchIsRecorded(d, r)
  <2>1. Handled(d, r) = Handled(d, q) \cup {a}
    BY <1>3, <1>4, <1>14, <1>15 DEF Handled
  <2> QED
    BY <1>3, <1>8, <1>9, <1>11, <1>14, <2>1 DEF TxnIsSound, BatchIsRecorded
<1>18. \A b \in DOMAIN r.alerts : AlertIsSound(r, alert, incident, b)
  <2>1. AlertIsSound(r, alert, incident, a)
    <3>1. r.alerts[a].incident # None =>
             /\ View(r, incident, r.alerts[a].incident).status # "absent"
             /\ View(r, incident, r.alerts[a].incident).key = Key[a]
      BY <1>8, <1>9, <1>13, <1>14 DEF View
    <3>2. alert[a].status = "resolved" => r.alerts[a] = alert[a]
      BY <1>9, <1>11, <1>12, <1>14
    <3> QED
      BY <1>8, <1>9, <1>14, <1>15, <3>1, <3>2 DEF AlertIsSound
  <2>2. \A b \in DOMAIN q.alerts \ {a} : AlertIsSound(r, alert, incident, b)
    BY <1>3, <1>9, <1>14 DEF TxnIsSound, AlertIsSound, View
  <2> QED
    BY <1>9, <1>14, <2>1, <2>2
<1>19. TxnIsSound(d, r, alert, incident)
  BY <1>3, <1>14, <1>16, <1>17, <1>18 DEF TxnIsSound, IncidentIsSound
<1>20. OpenAlone(r, incident) /\ \A u \in Txns \ {d} : Apart(r, txn[u])
  BY <1>1, <1>2, <1>9, <1>10, <1>14, AlertKeepsApart
<1>21. AcceptedIsRecorded' /\ answer' \in [Deliveries ->
           {None, "accepted", "already accepted", "conflict", "not recorded"}]
  BY <1>1, <1>10 DEF TablesTypeOK, RowsAreSound, AlertsReachIncidents, AcceptedIsRecorded
<1> QED
  BY <1>1, <1>10, <1>14, <1>19, <1>20, <1>21, MoveKeepsInv
\* A transaction sees at most one open Incident of a key.
LEMMA OpenOnce ==
    ASSUME IntakeInv, NEW t \in Txns, NEW i \in Incidents, NEW j \in Incidents, i # j,
           View(txn[t], incident, i).status = "open", View(txn[t], incident, j).status = "open"
    PROVE  View(txn[t], incident, i).key # View(txn[t], incident, j).key
BY DEF IntakeInv, OpenAlone, View, RowsAreSound, OneOpenIncidentPerKey

LEMMA GroupKeepsInv ==
    ASSUME IntakeInv, NEW d \in Deliveries, GroupAlertEvent(d)
    PROVE  IntakeInv'
<1>1. /\ TablesTypeOK /\ RowsAreSound /\ d \in Txns /\ txn[d] \in TxnRow /\ txn \in [Txns -> TxnRow]
      /\ incident \in [Incidents -> IncidentRow] /\ TxnIsSound(d, txn[d], alert, incident)
      /\ d \notin Operators
  BY IntakeFacts DEF IntakeInv, TablesTypeOK
<1>2. PICK q \in TxnRow : q = txn[d]
  BY <1>1
<1>3. /\ q.step = "group" /\ q.todo # {} /\ TxnIsSound(d, q, alert, incident)
      /\ q.todo \subseteq DOMAIN Batch[d] /\ q.target = None
  BY <1>1, <1>2 DEF GroupAlertEvent, TxnIsSound, StepIsSound
<1>4. PICK a \in Alerts : a = Min(q.todo) /\ a \in q.todo
  BY <1>3, FirstLeft
\* The Alert Event it groups is firing, in its own version.
<1>5. PICK seen \in AlertRow :
         /\ seen = SeenAlert(d, a) /\ seen = q.alerts[a] /\ a \in DOMAIN q.alerts /\ seen.status = "firing"
  <2>1. a \in DOMAIN q.alerts /\ q.alerts[a].status = "firing"
    BY <1>3, <1>4 DEF TxnIsSound, StepIsSound
  <2> QED
    BY <1>1, <1>2, <2>1, ViewFacts
<1>6. OpenOf(d, Key[a]) = {i \in Incidents : View(q, incident, i).status = "open"
                                             /\ View(q, incident, i).key = Key[a]}
  BY <1>1, <1>2, ViewFacts DEF OpenOf
\* The Incident it joins: one nobody has used, or the open one of the key.
<1>7. PICK i \in Incidents, now \in IncidentRow :
         /\ i = (IF OpenOf(d, Key[a]) = {} THEN Min(FreeIds) ELSE Min(OpenOf(d, Key[a])))
         /\ now = (IF OpenOf(d, Key[a]) = {}
                   THEN [status |-> "open", key |-> Key[a], merged |-> None, investigated |-> FALSE]
                   ELSE SeenIncident(d, i))
         /\ OpenOf(d, Key[a]) = {} => i \in FreeIds
         /\ OpenOf(d, Key[a]) # {} => /\ i \in OpenOf(d, Key[a]) /\ now = View(q, incident, i)
                                      /\ ~IncidentLocked(d, i)
         /\ ~KeyContended(d, Key[a]) /\ now.status = "open" /\ now.key = Key[a]
  <2>1. CASE OpenOf(d, Key[a]) = {}
    <3>1. FreeIds # {} /\ ~KeyContended(d, Key[a]) /\ FreeIds \subseteq Incidents
      BY <1>2, <1>4, <2>1 DEF GroupAlertEvent, FreeIds
    <3>2. Min(FreeIds) \in FreeIds
      BY <3>1, MinFacts, IntakeFacts
    <3>3. [status |-> "open", key |-> Key[a], merged |-> None, investigated |-> FALSE] \in IncidentRow
      BY IntakeFacts DEF IncidentRow
    <3> QED
      BY <2>1, <3>1, <3>2, <3>3
  <2>2. CASE OpenOf(d, Key[a]) # {}
    <3>1. /\ ~KeyContended(d, Key[a]) /\ \A j \in OpenOf(d, Key[a]) : ~IncidentLocked(d, j)
      BY <1>2, <1>4 DEF GroupAlertEvent
    <3>2. Min(OpenOf(d, Key[a])) \in OpenOf(d, Key[a]) /\ OpenOf(d, Key[a]) \subseteq Incidents
      BY <2>2, MinFacts, IntakeFacts DEF OpenOf
    <3>3. PICK j \in Incidents : j = Min(OpenOf(d, Key[a]))
      BY <3>2
    <3>4. /\ SeenIncident(d, j) = View(q, incident, j) /\ View(q, incident, j) \in IncidentRow
          /\ View(q, incident, j).status = "open" /\ View(q, incident, j).key = Key[a]
      BY <1>1, <1>2, <1>6, <3>2, <3>3, ViewFacts
    <3> QED
      BY <2>2, <3>1, <3>2, <3>3, <3>4
  <2> QED
    BY <2>1, <2>2
<1> DEFINE opened == OpenOf(d, Key[a]) = {}
           grouped == [seen EXCEPT !.incident = i]
           alerts == With(q.alerts, a, grouped)
           held == With(q.incidents, i, now)
           fresh == IF opened THEN q.fresh \cup {i} ELSE q.fresh
           r == [q EXCEPT !.alerts = alerts, !.incidents = held, !.fresh = fresh,
                          !.target = i, !.step = "count"]
<1>8. /\ grouped \in AlertRow /\ grouped.status = "firing" /\ grouped.incident = i
  BY <1>5 DEF AlertRow
<1>9. txn' = [txn EXCEPT ![d] = r] /\ UNCHANGED <<alert, incident, accepted, answer>>
  BY <1>1, <1>2, <1>4, <1>5, <1>7, ZenonT(40) DEF GroupAlertEvent
<1> HIDE DEF grouped
<1>10. /\ alerts \in Versions(Alerts, AlertRow) /\ DOMAIN alerts = DOMAIN q.alerts
       /\ alerts[a] = grouped /\ \A b \in DOMAIN q.alerts \ {a} : alerts[b] = q.alerts[b]
  <2>1. alerts \in Versions(Alerts, AlertRow)
    BY <1>8, TxnFacts, WithType
  <2>2. DOMAIN alerts = DOMAIN q.alerts \cup {a}
    BY WithFacts
  <2>3. alerts[a] = grouped
    BY WithFacts
  <2>4. \A b \in DOMAIN q.alerts \ {a} : alerts[b] = q.alerts[b]
    BY WithFacts
  <2> QED
    BY <1>5, <2>1, <2>2, <2>3, <2>4
<1>11. /\ held \in Versions(Incidents, IncidentRow) /\ DOMAIN held = DOMAIN q.incidents \cup {i}
       /\ held[i] = now /\ \A j \in DOMAIN q.incidents \ {i} : held[j] = q.incidents[j]
  <2>1. held \in Versions(Incidents, IncidentRow)
    BY TxnFacts, WithType
  <2>2. DOMAIN held = DOMAIN q.incidents \cup {i}
    BY WithFacts
  <2>3. held[i] = now
    BY WithFacts
  <2>4. \A j \in DOMAIN q.incidents \ {i} : held[j] = q.incidents[j]
    BY WithFacts
  <2> QED
    BY <2>1, <2>2, <2>3, <2>4
<1> HIDE DEF alerts, held
<1>12. fresh \subseteq Incidents
  BY TxnFacts
<1> HIDE DEF fresh
<1>13. /\ r \in TxnRow /\ r.alerts = alerts /\ r.incidents = held /\ r.fresh = fresh
       /\ r.target = i /\ r.step = "count" /\ r.todo = q.todo
  BY <1>10, <1>11, <1>12 DEF TxnRow, Steps
<1> HIDE DEF r
\* An Incident that is opened was not seen before.
<1>14. /\ opened => /\ View(q, incident, i) = incident[i] /\ incident[i].status = "absent"
                    /\ i \notin DOMAIN q.incidents /\ \A u \in Txns \ {d} : i \notin DOMAIN txn[u].incidents
       /\ ~opened => \A u \in Txns \ {d} : i \notin DOMAIN txn[u].incidents
  <2>1. CASE opened
    <3>1. incident[i].status = "absent" /\ d \in Active
      BY <1>1, <1>2, <1>3, <1>7, <2>1 DEF FreeIds, Active
    <3>2. i \notin DOMAIN q.incidents
      BY <1>2, <1>7, <2>1, <3>1 DEF FreeIds
    <3>3. \A u \in Txns \ {d} : i \notin DOMAIN txn[u].incidents
      BY <1>1, <1>7, <2>1, LockFacts
    <3> QED
      BY <2>1, <3>1, <3>2, <3>3 DEF View
  <2>2. CASE ~opened
    BY <1>1, <1>7, <2>2, LockFacts
  <2> QED
    BY <2>1, <2>2
<1>15. \A j \in Incidents : View(q, incident, j).status # "absent" =>
          View(r, incident, j) = View(q, incident, j)
  BY <1>7, <1>11, <1>13, <1>14 DEF View
<1>16. View(r, incident, i) = now
  BY <1>11, <1>13 DEF View
<1>17. StepIsSound(d, r, incident)
  BY <1>1, <1>3, <1>7, <1>13, <1>16 DEF StepIsSound
<1>18. BatchIsRecorded(d, r)
  <2>1. Handled(d, r) = Handled(d, q)
    BY <1>3, <1>13 DEF Handled
  <2> QED
    BY <1>3, <1>5, <1>8, <1>10, <1>13, <2>1 DEF TxnIsSound, BatchIsRecorded
<1>19. \A b \in DOMAIN r.alerts : AlertIsSound(r, alert, incident, b)
  <2>1. AlertIsSound(r, alert, incident, a)
    <3>1. alert[a].status # "resolved"
      BY <1>3, <1>5 DEF TxnIsSound, AlertIsSound
    <3> QED
      BY <1>7, <1>8, <1>10, <1>13, <1>16, <3>1, IntakeFacts DEF AlertIsSound
  <2>2. ASSUME NEW b \in DOMAIN q.alerts \ {a} PROVE AlertIsSound(r, alert, incident, b)
    <3>1. AlertIsSound(q, alert, incident, b) /\ r.alerts[b] = q.alerts[b]
      BY <1>3, <1>10, <1>13 DEF TxnIsSound
    <3>2. q.alerts[b].incident \in Incidents \cup {None}
      BY TxnFacts DEF AlertRow
    <3> QED
      BY <1>4, <1>15, <3>1, <3>2 DEF AlertIsSound
  <2> QED
    BY <1>10, <1>13, <2>1, <2>2
<1>20. \A j \in DOMAIN r.incidents : IncidentIsSound(r, incident, j)
  <2>1. IncidentIsSound(r, incident, i)
    <3>1. CASE opened
      <4>1. now.merged = None /\ now.investigated = FALSE /\ i \in fresh
        BY <1>7, <3>1 DEF fresh
      <4> QED
        BY <1>1, <1>7, <1>11, <1>13, <1>14, <3>1, <4>1 DEF IncidentIsSound, RowsAreSound
    <3>2. CASE ~opened /\ i \in DOMAIN q.incidents
      <4>1. IncidentIsSound(q, incident, i) /\ now = q.incidents[i] /\ fresh = q.fresh
        BY <1>3, <1>7, <3>2 DEF TxnIsSound, View, fresh
      <4> QED
        BY <1>11, <1>13, <4>1 DEF IncidentIsSound
    <3>3. CASE ~opened /\ i \notin DOMAIN q.incidents
      <4>1. now = incident[i] /\ fresh = q.fresh /\ i \notin q.fresh
        BY <1>3, <1>7, <3>3 DEF TxnIsSound, View, fresh
      <4>2. incident[i].investigated <=> AgentAvailable
        BY <1>1, <1>7, <4>1, Zenon DEF RowsAreSound, AlertsReachIncidents, IncidentsAreInvestigated
      <4> QED
        BY <1>7, <1>11, <1>13, <4>1, <4>2 DEF IncidentIsSound
    <3> QED
      BY <3>1, <3>2, <3>3
  <2>2. ASSUME NEW j \in DOMAIN q.incidents \ {i} PROVE IncidentIsSound(r, incident, j)
    <3>1. IncidentIsSound(q, incident, j) /\ r.incidents[j] = q.incidents[j]
      BY <1>3, <1>11, <1>13 DEF TxnIsSound
    <3>2. j \in r.fresh <=> j \in q.fresh
      BY <1>13 DEF fresh
    <3> QED
      BY <3>1, <3>2 DEF IncidentIsSound
  <2> QED
    BY <1>11, <1>13, <2>1, <2>2
<1>21. TxnIsSound(d, r, alert, incident)
  <2>1. r.fresh \subseteq DOMAIN r.incidents
    BY <1>3, <1>11, <1>13 DEF TxnIsSound, fresh
  <2> QED
    BY <1>17, <1>18, <1>19, <1>20, <2>1 DEF TxnIsSound
<1>22. OpenAlone(r, incident) /\ \A u \in Txns \ {d} : Apart(r, txn[u])
  <2>1. \A j \in Incidents \ {i} : View(q, incident, j).status = "open" =>
           View(q, incident, j).key # Key[a]
    <3>1. CASE opened
      BY <1>6, <3>1
    <3>2. CASE ~opened
      BY <1>1, <1>2, <1>6, <1>7, <3>2, OpenOnce
    <3> QED
      BY <3>1, <3>2
  <2>2. \A u \in Txns \ {d} : DOMAIN r.alerts \cap DOMAIN txn[u].alerts = {}
    BY <1>1, <1>2, <1>10, <1>13 DEF IntakeInv, Apart
  <2>3. \A u \in Txns \ {d} : i \notin DOMAIN txn[u].incidents
    BY <1>14
  <2> QED
    <3>1. /\ DOMAIN r.incidents = DOMAIN q.incidents \cup {i}
          /\ \A j \in DOMAIN q.incidents \ {i} : r.incidents[j] = q.incidents[j]
          /\ r.incidents[i].key = Key[a] /\ ~KeyContended(d, r.incidents[i].key)
      BY <1>7, <1>11, <1>13
    <3>2. \A j \in Incidents \ {i} : View(q, incident, j).status = "open" =>
             View(q, incident, j).key # r.incidents[i].key
      BY <2>1, <3>1
    <3> QED
      BY <1>1, <1>2, <1>13, <2>2, <2>3, <3>1, <3>2, WriteKeepsApart
<1>23. AcceptedIsRecorded' /\ answer' \in [Deliveries ->
           {None, "accepted", "already accepted", "conflict", "not recorded"}]
  BY <1>1, <1>9 DEF TablesTypeOK, RowsAreSound, AlertsReachIncidents, AcceptedIsRecorded
<1> QED
  BY <1>1, <1>9, <1>13, <1>21, <1>22, <1>23, MoveKeepsInv
LEMMA RefreshKeepsInv ==
    ASSUME IntakeInv, NEW d \in Deliveries, RefreshIncident(d)
    PROVE  IntakeInv'
<1>1. /\ TablesTypeOK /\ RowsAreSound /\ d \in Txns /\ txn[d] \in TxnRow /\ txn \in [Txns -> TxnRow]
      /\ incident \in [Incidents -> IncidentRow] /\ TxnIsSound(d, txn[d], alert, incident)
      /\ d \notin Operators
  BY IntakeFacts DEF IntakeInv, TablesTypeOK
<1>2. PICK q \in TxnRow : q = txn[d]
  BY <1>1
<1>3. /\ q.step = "refresh" /\ q.todo # {} /\ TxnIsSound(d, q, alert, incident)
      /\ q.todo \subseteq DOMAIN Batch[d]
  BY <1>1, <1>2 DEF RefreshIncident, TxnIsSound, StepIsSound
<1>4. PICK a \in Alerts : a = Min(q.todo) /\ a \in q.todo
  BY <1>3, FirstLeft
<1>5. PICK i \in Incidents : i = q.target /\ View(q, incident, i).status # "absent"
  BY <1>3 DEF TxnIsSound, StepIsSound
<1>6. PICK seen \in IncidentRow : /\ seen = SeenIncident(d, i) /\ seen = View(q, incident, i)
                                  /\ seen.status # "absent"
  BY <1>1, <1>2, <1>5, ViewFacts
<1>7. PICK status \in {"open", "resolved"} : status = (IF q.firing THEN "open" ELSE "resolved")
  OBVIOUS
<1> DEFINE now == [seen EXCEPT !.status = status]
           held == With(q.incidents, i, now)
           to == [q EXCEPT !.incidents = held]
           r == Advance(to, a)
<1>8. /\ now \in IncidentRow /\ now.status = status /\ now.key = seen.key
      /\ now.merged = seen.merged /\ now.investigated = seen.investigated
  BY DEF IncidentRow
<1>9. /\ txn' = [txn EXCEPT ![d] = r] /\ UNCHANGED <<alert, incident, accepted, answer>>
      /\ ~IncidentLocked(d, i)
      /\ status = "open" => OpenOf(d, seen.key) \subseteq {i} /\ ~KeyContended(d, seen.key)
  BY <1>1, <1>2, <1>4, <1>5, <1>6, <1>7 DEF RefreshIncident
<1> HIDE DEF now
<1>10. /\ held \in Versions(Incidents, IncidentRow) /\ DOMAIN held = DOMAIN q.incidents \cup {i}
       /\ held[i] = now /\ \A j \in DOMAIN q.incidents \ {i} : held[j] = q.incidents[j]
  <2>1. held \in Versions(Incidents, IncidentRow)
    BY <1>8, TxnFacts, WithType
  <2>2. DOMAIN held = DOMAIN q.incidents \cup {i}
    BY WithFacts
  <2>3. held[i] = now
    BY WithFacts
  <2>4. \A j \in DOMAIN q.incidents \ {i} : held[j] = q.incidents[j]
    BY WithFacts
  <2> QED
    BY <2>1, <2>2, <2>3, <2>4
<1> HIDE DEF held
<1>11. /\ to \in TxnRow /\ to.incidents = held /\ to.alerts = q.alerts /\ to.fresh = q.fresh
       /\ to.todo = q.todo
  BY <1>10 DEF TxnRow
<1> HIDE DEF to
<1>12. /\ r \in TxnRow /\ r.incidents = held /\ r.alerts = q.alerts /\ r.fresh = q.fresh
       /\ r.todo = q.todo \ {a} /\ r.target = None
       /\ r.step = IF q.todo = {a} THEN "open" ELSE "upsert"
  BY <1>11, AdvanceFacts
<1> HIDE DEF r
<1>13. View(r, incident, i) = now
  BY <1>10, <1>12 DEF View
<1>14. \A j \in Incidents : View(q, incident, j).status # "absent" =>
          /\ View(r, incident, j).status # "absent"
          /\ View(r, incident, j).key = View(q, incident, j).key
  <2> SUFFICES ASSUME NEW j \in Incidents, View(q, incident, j).status # "absent"
               PROVE  /\ View(r, incident, j).status # "absent"
                      /\ View(r, incident, j).key = View(q, incident, j).key
    OBVIOUS
  <2>1. CASE j = i
    BY <1>6, <1>8, <1>13, <2>1
  <2>2. CASE j # i
    BY <1>10, <1>12, <2>2 DEF View
  <2> QED
    BY <2>1, <2>2
<1>15. StepIsSound(d, r, incident)
  BY <1>1, <1>3, <1>4, <1>12 DEF StepIsSound
<1>16. BatchIsRecorded(d, r)
  <2>1. Handled(d, r) = Handled(d, q)
    BY <1>3, <1>4, <1>12 DEF Handled
  <2> QED
    BY <1>3, <1>12, <2>1 DEF TxnIsSound, BatchIsRecorded
<1>17. ASSUME NEW b \in DOMAIN q.alerts PROVE AlertIsSound(r, alert, incident, b)
  <2>1. AlertIsSound(q, alert, incident, b)
    BY <1>3 DEF TxnIsSound
  <2>2. q.alerts[b].incident \in Incidents \cup {None}
    BY TxnFacts DEF AlertRow
  <2> QED
    BY <1>3, <1>12, <1>14, <2>1, <2>2 DEF AlertIsSound
<1>18. ASSUME NEW j \in DOMAIN r.incidents PROVE IncidentIsSound(r, incident, j)
  <2>1. CASE j = i /\ i \in DOMAIN q.incidents
    <3>1. IncidentIsSound(q, incident, i) /\ seen = q.incidents[i]
      BY <1>3, <1>6, <2>1 DEF TxnIsSound, View
    <3> QED
      BY <1>7, <1>8, <1>10, <1>12, <2>1, <3>1 DEF IncidentIsSound
  <2>2. CASE j = i /\ i \notin DOMAIN q.incidents
    <3>1. seen = incident[i] /\ i \notin q.fresh
      BY <1>3, <1>6, <2>2 DEF TxnIsSound, View
    <3>2. incident[i].investigated <=> AgentAvailable
      BY <1>1, <1>6, <3>1, Zenon DEF RowsAreSound, AlertsReachIncidents, IncidentsAreInvestigated
    <3> QED
      BY <1>7, <1>8, <1>10, <1>12, <2>2, <3>1, <3>2 DEF IncidentIsSound
  <2>3. CASE j # i
    <3>1. IncidentIsSound(q, incident, j) /\ r.incidents[j] = q.incidents[j]
      BY <1>3, <1>10, <1>12, <2>3 DEF TxnIsSound
    <3> QED
      BY <1>12, <3>1 DEF IncidentIsSound
  <2> QED
    BY <2>1, <2>2, <2>3
<1>19. TxnIsSound(d, r, alert, incident)
  <2>1. r.fresh \subseteq DOMAIN r.incidents
    BY <1>3, <1>10, <1>12 DEF TxnIsSound
  <2> QED
    BY <1>12, <1>15, <1>16, <1>17, <1>18, <2>1 DEF TxnIsSound
<1>20. OpenAlone(r, incident) /\ \A u \in Txns \ {d} : Apart(r, txn[u])
  <2>1. status = "open" => \A j \in Incidents \ {i} : View(q, incident, j).status = "open" =>
           View(q, incident, j).key # seen.key
    BY <1>1, <1>2, <1>9, ViewFacts DEF OpenOf
  <2>2. \A u \in Txns \ {d} : DOMAIN r.alerts \cap DOMAIN txn[u].alerts = {}
    BY <1>1, <1>2, <1>12 DEF IntakeInv, Apart
  <2>3. \A u \in Txns \ {d} : i \notin DOMAIN txn[u].incidents
    BY <1>1, <1>9, LockFacts
  <2>4. /\ DOMAIN r.incidents = DOMAIN q.incidents \cup {i}
        /\ \A j \in DOMAIN q.incidents \ {i} : r.incidents[j] = q.incidents[j]
        /\ r.incidents[i].key = seen.key /\ r.incidents[i].status = status
    BY <1>8, <1>10, <1>12
  <2>5. status = "open" => ~KeyContended(d, r.incidents[i].key)
    BY <1>9, <2>4
  <2>6. status = "open" => \A j \in Incidents \ {i} : View(q, incident, j).status = "open" =>
           View(q, incident, j).key # r.incidents[i].key
    BY <2>1, <2>4
  <2> QED
    BY <1>1, <1>2, <1>12, <2>2, <2>3, <2>4, <2>5, <2>6, WriteKeepsApart
<1>21. AcceptedIsRecorded' /\ answer' \in [Deliveries ->
           {None, "accepted", "already accepted", "conflict", "not recorded"}]
  BY <1>1, <1>9 DEF TablesTypeOK, RowsAreSound, AlertsReachIncidents, AcceptedIsRecorded
<1> QED
  BY <1>1, <1>9, <1>12, <1>19, <1>20, <1>21, MoveKeepsInv
LEMMA IntakeInvNext == IntakeInv /\ [Next]_vars => IntakeInv'
<1> SUFFICES ASSUME IntakeInv, [Next]_vars PROVE IntakeInv'
  OBVIOUS
<1>1. ASSUME NEW d \in Deliveries, DeliveryStep(d) PROVE IntakeInv'
  BY <1>1, ClaimKeepsInv, RefuseKeepsInv, UpsertKeepsInv, GroupKeepsInv, CountKeepsInv,
     RefreshKeepsInv, CommitKeepsInv DEF DeliveryStep
<1>2. ASSUME NEW o \in Operators, MergeStep(o) PROVE IntakeInv'
  BY <1>2, LockKeepsInv, MergeKeepsInv DEF MergeStep
<1>3. ASSUME NEW t \in Txns, Rollback(t) PROVE IntakeInv'
  BY <1>3, RollbackKeepsInv
<1>4. CASE UNCHANGED vars
  <2>1. UNCHANGED <<alert, incident, accepted, answer, txn>>
    BY <1>4 DEF vars
  <2>2. TablesTypeOK' /\ MergesAreAcyclic' /\ OneOpenIncidentPerKey'
    BY <2>1 DEF IntakeInv, TablesTypeOK, RowsAreSound, OneOpenIncidentPerKey, MergesAreAcyclic
  <2>3. AlertsReachIncidents'
    BY <2>1 DEF IntakeInv, RowsAreSound, AlertsReachIncidents, AcceptedIsRecorded, FiringIsGrouped,
                IncidentsAreInvestigated
  <2>4. RowsAreSound'
    BY <2>1, <2>2, <2>3 DEF IntakeInv, RowsAreSound
  <2> QED
    BY <2>1, <2>2, <2>4 DEF IntakeInv
<1> QED
  BY <1>1, <1>2, <1>3, <1>4 DEF Next

LEMMA IntakeInvTypes == IntakeInv => TypeOK
<1> SUFFICES ASSUME IntakeInv PROVE TypeOK
  OBVIOUS
<1>1. ASSUME NEW t \in Txns
      PROVE  /\ txn[t] \in TxnRow
             /\ txn[t].target \in
                    IF txn[t].step \in {"count", "refresh", "merge"} THEN Incidents ELSE {None}
  BY DEF IntakeInv, TablesTypeOK, TxnIsSound, StepIsSound
<1>2. TablesTypeOK
  BY DEF IntakeInv
<1>3. ASSUME NEW t \in Txns
      PROVE  /\ txn[t].step \in {"idle", "upsert", "group", "count", "refresh", "open", "merge"}
             /\ txn[t].todo \subseteq Alerts
             /\ txn[t].firing \in BOOLEAN
             /\ txn[t].fresh \subseteq Incidents
             /\ \A a \in DOMAIN txn[t].alerts : a \in Alerts /\ txn[t].alerts[a] \in AlertRow
             /\ \A i \in DOMAIN txn[t].incidents :
                    i \in Incidents /\ txn[t].incidents[i] \in IncidentRow
  <2>1. PICK q \in TxnRow : q = txn[t]
    BY <1>1
  <2> QED
    BY <2>1, TxnFacts DEF Steps
<1> QED
  BY <1>1, <1>2, <1>3 DEF TypeOK, TablesTypeOK

LEMMA IntakeInvHolds == Spec => []IntakeInv
BY IntakeInvInit, IntakeInvNext, PTL DEF Spec

\* However deliveries overlap, are repeated or roll back, what a source was told is
\* accepted is recorded whole, every firing Alert Event is in an Incident of its
\* grouping key and every Incident has its automatic Investigation
\* (RecordDelivery, groupAlertEvent, openAlertInvestigations).
THEOREM AlertsAlwaysReachIncidents == Spec => []AlertsReachIncidents
<1>1. IntakeInv => AlertsReachIncidents
  BY DEF IntakeInv, RowsAreSound
<1> QED
  BY IntakeInvHolds, <1>1, PTL

\* A grouping key never has two open Incidents, and however many operators merge
\* at once no circle of merges is closed (openIncident, refreshIncident,
\* MergeIncidents).
THEOREM IncidentsAreAlwaysSound == Spec => []IncidentsAreSound
<1>1. IntakeInv => IncidentsAreSound
  BY IntakeInvTypes DEF IntakeInv, RowsAreSound, IncidentsAreSound
<1> QED
  BY IntakeInvHolds, <1>1, PTL

\* No delivery, however late, changes a resolved Alert Event, and nothing undoes or
\* redirects a merge (upsertAlertEvent, refreshIncident, MergeIncidents).
THEOREM NothingIsEverUndone == Spec => NothingIsUndone
<1> DEFINE Kept == /\ \A a \in Alerts : alert[a].status = "resolved" => alert'[a] = alert[a]
                   /\ \A i \in Incidents : incident[i].merged # None =>
                          incident'[i].merged = incident[i].merged
<1>1. IntakeInv /\ [Next]_vars => [Kept]_vars
  <2> SUFFICES ASSUME IntakeInv, [Next]_vars PROVE Kept \/ UNCHANGED vars
    OBVIOUS
  <2>1. CASE UNCHANGED <<alert, incident>>
    BY <2>1
  <2>2. ASSUME NEW d \in Deliveries, CommitDelivery(d) PROVE Kept
    BY <2>2, CommitKeepsInv
  <2>3. ASSUME NEW o \in Operators, MergeIncidents(o) PROVE Kept
    <3>1. UNCHANGED alert
      BY <2>3 DEF MergeIncidents
    <3> QED
      BY <2>3, <3>1, MergeKeepsInv
  <2>4. ASSUME NEW d \in Deliveries, DeliveryStep(d) PROVE Kept
    <3>1. CASE ClaimDelivery(d) \/ RefuseDelivery(d) \/ CountFiring(d)
      BY <2>1, <3>1 DEF ClaimDelivery, RefuseDelivery, CountFiring
    <3>2. CASE UpsertAlertEvent(d)
      BY <2>1, <3>2 DEF UpsertAlertEvent
    <3>3. CASE GroupAlertEvent(d)
      BY <2>1, <3>3 DEF GroupAlertEvent
    <3>4. CASE RefreshIncident(d)
      BY <2>1, <3>4 DEF RefreshIncident
    <3> QED
      BY <2>2, <2>4, <3>1, <3>2, <3>3, <3>4 DEF DeliveryStep
  <2>5. ASSUME NEW o \in Operators, MergeStep(o) PROVE Kept
    BY <2>1, <2>3, <2>5 DEF MergeStep, LockAbsorbed
  <2>6. ASSUME NEW t \in Txns, Rollback(t) PROVE Kept
    BY <2>1, <2>6 DEF Rollback
  <2> HIDE DEF Kept
  <2> QED
    BY <2>4, <2>5, <2>6 DEF Next
<1> QED
  BY IntakeInvHolds, <1>1, PTL DEF Spec, NothingIsUndone

-----------------------------------------------------------------------------
(* Postmortems. *)

\* A request that will replace a draft has read one.
RegeneratesWhatIsThere ==
    \A o \in Editors : request[o].step \in {"read", "redrafted"} => postmortem.status # "absent"

PostmortemInv == PostmortemsAreCurrent /\ RegeneratesWhatIsThere

LEMMA PostmortemInvInit == PostmortemInit => PostmortemInv
<1> SUFFICES ASSUME PostmortemInit PROVE PostmortemInv
  OBVIOUS
<1> USE PostmortemAssumption DEF PostmortemInit
<1>1. PostmortemTypeOK
  <2>1. /\ Absent \in [status : {"absent", "draft", "reviewed"}, revision : Nat,
                       reviewer : Editors \cup {NoReviewer}, corrected : SUBSET Corrections]
        /\ NoRequest \in [step : {"idle", "drafted", "read", "redrafted"}, revision : Nat]
    BY DEF Absent, NoRequest
  <2>2. audit \in Seq([action : Actions, by : Editors, revision : Nat])
    OBVIOUS
  <2> QED
    BY <2>1, <2>2 DEF PostmortemTypeOK
<1>2. audit = <<>> /\ DOMAIN audit = {} /\ postmortem.status = "absent"
  BY DEF Absent
<1>3. \A o \in Editors : request[o].step = "idle"
  BY DEF NoRequest
<1> QED
  BY <1>1, <1>2, <1>3
     DEF PostmortemInv, PostmortemsAreCurrent, GeneratedOnce, ReviewIsCurrent, RegeneratesWhatIsThere

\* A write keeps the trail in step with the row: it is the draft's creation if and only
\* if nothing was there, and leaves a reviewed row if and only if it is a review.
LEMMA WriteKeepsCurrent ==
    ASSUME PostmortemInv, NEW o \in Editors, NEW action \in Actions, NEW written,
           WritePostmortem(o, action, written),
           written \in [status : {"absent", "draft", "reviewed"}, revision : Nat,
                        reviewer : Editors \cup {NoReviewer}, corrected : SUBSET Corrections],
           (action = "created") <=> (postmortem.status = "absent"),
           written.status # "absent",
           (written.status = "reviewed") <=> (action = "reviewed"),
           action = "reviewed" => written.reviewer = o,
           request' \in [Editors -> [step : {"idle", "drafted", "read", "redrafted"}, revision : Nat]]
    PROVE  PostmortemInv'
<1> DEFINE event == [action |-> action, by |-> o, revision |-> written.revision]
           AuditRow == [action : Actions, by : Editors, revision : Nat]
<1>1. /\ postmortem' = written /\ audit' = Append(audit, event)
      /\ resolved' = resolved /\ recorded' = recorded
  BY DEF WritePostmortem
<1>2. resolved \in BOOLEAN /\ recorded \subseteq Facts /\ audit \in Seq(AuditRow)
  BY DEF PostmortemInv, PostmortemsAreCurrent, GeneratedOnce, PostmortemTypeOK
<1>3. event \in AuditRow /\ event.action = action /\ event.by = o
  OBVIOUS
<1> HIDE DEF event, AuditRow
<1>4. /\ audit' \in Seq(AuditRow) /\ Len(audit') = Len(audit) + 1 /\ audit' # <<>> /\ Len(audit) \in Nat
      /\ DOMAIN audit' = 1 .. Len(audit) + 1 /\ DOMAIN audit = 1 .. Len(audit)
      /\ audit'[Len(audit) + 1] = event
      /\ \A k \in 1 .. Len(audit) : audit'[k] = audit[k]
      /\ audit = <<>> <=> Len(audit) = 0
  BY <1>1, <1>2, <1>3
<1>5. PostmortemTypeOK'
  BY <1>1, <1>2, <1>4 DEF PostmortemTypeOK, AuditRow
<1>6. (postmortem.status = "absent") <=> (Len(audit) = 0)
  BY <1>4 DEF PostmortemInv, PostmortemsAreCurrent, GeneratedOnce
<1>7. ASSUME NEW k \in DOMAIN audit' PROVE audit'[k].action = "created" <=> k = 1
  <2>1. CASE k = Len(audit) + 1
    <3>1. audit'[k].action = action
      BY <1>3, <1>4, <2>1
    <3>2. k = 1 <=> Len(audit) = 0
      BY <1>4, <2>1
    <3> QED
      BY <1>6, <3>1, <3>2
  <2>2. CASE k # Len(audit) + 1
    <3>1. k \in 1 .. Len(audit)
      BY <1>4, <2>2
    <3>2. audit'[k] = audit[k]
      BY <1>4, <3>1
    <3>3. audit[k].action = "created" <=> k = 1
      BY <1>4, <3>1 DEF PostmortemInv, PostmortemsAreCurrent, GeneratedOnce
    <3> QED
      BY <3>2, <3>3
  <2> QED
    BY <2>1, <2>2
<1>8. GeneratedOnce'
  BY <1>1, <1>4, <1>5, <1>7 DEF GeneratedOnce
<1>9. audit'[Len(audit')].action = action /\ audit'[Len(audit')].by = o
  BY <1>3, <1>4
<1>10. ReviewIsCurrent'
  BY <1>1, <1>4, <1>9 DEF ReviewIsCurrent
<1>11. RegeneratesWhatIsThere'
  BY <1>1 DEF RegeneratesWhatIsThere
<1> QED
  BY <1>8, <1>10, <1>11 DEF PostmortemInv, PostmortemsAreCurrent

\* What reads only keeps the row and the trail; what it leaves to be written is a draft
\* that is there.
LEMMA ReadKeepsCurrent ==
    ASSUME PostmortemInv, UNCHANGED <<postmortem, audit>>,
           resolved' \in BOOLEAN, recorded' \subseteq Facts,
           request' \in [Editors -> [step : {"idle", "drafted", "read", "redrafted"}, revision : Nat]],
           \A o \in Editors : request'[o].step \in {"read", "redrafted"} => postmortem.status # "absent"
    PROVE  PostmortemInv'
<1>1. PostmortemTypeOK'
  BY DEF PostmortemInv, PostmortemsAreCurrent, GeneratedOnce, PostmortemTypeOK
<1>2. GeneratedOnce'
  BY <1>1 DEF PostmortemInv, PostmortemsAreCurrent, GeneratedOnce
<1>3. ReviewIsCurrent'
  BY DEF PostmortemInv, PostmortemsAreCurrent, ReviewIsCurrent
<1> QED
  BY <1>2, <1>3 DEF PostmortemInv, PostmortemsAreCurrent, RegeneratesWhatIsThere

LEMMA PostmortemInvNext == PostmortemInv /\ [PostmortemNext]_postmortemVars => PostmortemInv'
<1> SUFFICES ASSUME PostmortemInv, [PostmortemNext]_postmortemVars PROVE PostmortemInv'
  OBVIOUS
<1> USE PostmortemAssumption
<1> DEFINE Request == [step : {"idle", "drafted", "read", "redrafted"}, revision : Nat]
           Row == [status : {"absent", "draft", "reviewed"}, revision : Nat,
                   reviewer : Editors \cup {NoReviewer}, corrected : SUBSET Corrections]
<1>1. /\ resolved \in BOOLEAN /\ recorded \subseteq Facts /\ postmortem \in Row
      /\ request \in [Editors -> Request]
      /\ \A o \in Editors : request[o].step \in {"read", "redrafted"} => postmortem.status # "absent"
  BY DEF PostmortemInv, PostmortemsAreCurrent, GeneratedOnce, PostmortemTypeOK, RegeneratesWhatIsThere
<1>2. NoRequest \in Request /\ NoRequest.step = "idle"
  BY DEF NoRequest
<1>3. \A n \in Nat : DraftFrom(n) \in Row /\ DraftFrom(n).status = "draft"
  BY DEF DraftFrom
<1>4. CASE IncidentRefreshed
  BY <1>1, <1>4, ReadKeepsCurrent DEF IncidentRefreshed
<1>5. ASSUME NEW f \in Facts, Record(f) PROVE PostmortemInv'
  BY <1>1, <1>5, ReadKeepsCurrent DEF Record
<1>6. ASSUME NEW o \in Editors, NEW step \in {"idle", "drafted", "read", "redrafted"}, NEW n \in Nat,
             HasRead(o, step, n), step \in {"read", "redrafted"} => postmortem.status # "absent"
      PROVE  PostmortemInv'
  <2>1. [step |-> step, revision |-> n] \in Request
    OBVIOUS
  <2>2. /\ request' = [request EXCEPT ![o] = [step |-> step, revision |-> n]]
        /\ UNCHANGED <<resolved, recorded, postmortem, audit>>
    BY <1>6 DEF HasRead
  <2>3. request' \in [Editors -> Request]
    BY <1>1, <2>1, <2>2
  <2>4. \A e \in Editors : request'[e].step \in {"read", "redrafted"} => postmortem.status # "absent"
    BY <1>1, <1>6, <2>2
  <2> QED
    BY <1>1, <2>2, <2>3, <2>4, ReadKeepsCurrent
<1>7. ASSUME NEW o \in Editors, Generate(o) PROVE PostmortemInv'
  BY <1>6, <1>7 DEF Generate
<1>8. ASSUME NEW o \in Editors, Regenerate(o) PROVE PostmortemInv'
  BY <1>1, <1>6, <1>8 DEF Regenerate
<1>9. ASSUME NEW o \in Editors, RegenerateInput(o) PROVE PostmortemInv'
  BY <1>1, <1>6, <1>9 DEF RegenerateInput
<1>10. ASSUME NEW o \in Editors, request' = [request EXCEPT ![o] = NoRequest]
       PROVE  /\ request' \in [Editors -> Request]
              /\ \A e \in Editors : request'[e].step \in {"read", "redrafted"} => postmortem.status # "absent"
  <2> HIDE DEF Request
  <2> QED
    BY <1>1, <1>2, <1>10
<1>11. ASSUME NEW o \in Editors, Abandon(o) PROVE PostmortemInv'
  BY <1>1, <1>10, <1>11, ReadKeepsCurrent DEF Abandon
<1>12. ASSUME NEW o \in Editors, CreateDraft(o) PROVE PostmortemInv'
  <2>1. CASE postmortem.status = "absent" /\ WritePostmortem(o, "created", DraftFrom(1))
    BY <1>3, <1>10, <1>12, <2>1, WriteKeepsCurrent DEF CreateDraft, Actions
  <2>2. CASE UNCHANGED <<resolved, recorded, postmortem, audit>>
    BY <1>1, <1>10, <1>12, <2>2, ReadKeepsCurrent DEF CreateDraft
  <2> QED
    BY <1>12, <2>1, <2>2 DEF CreateDraft
<1>13. ASSUME NEW o \in Editors, ReplaceDraft(o) PROVE PostmortemInv'
  <2>1. request[o].revision + 1 \in Nat /\ postmortem.status # "absent"
    BY <1>1, <1>13 DEF ReplaceDraft
  <2> QED
    BY <1>3, <1>10, <1>13, <2>1, WriteKeepsCurrent DEF ReplaceDraft, Actions
<1>14. ASSUME NEW o \in Editors, Review(o) PROVE PostmortemInv'
  <2> DEFINE written == [postmortem EXCEPT !.status = "reviewed", !.reviewer = o]
  <2>1. written \in Row /\ written.status = "reviewed" /\ written.reviewer = o
    BY <1>1
  <2>2. WritePostmortem(o, "reviewed", written) /\ request' = request /\ postmortem.status = "draft"
    BY <1>14 DEF Review
  <2> HIDE DEF written
  <2> QED
    BY <1>1, <2>1, <2>2, WriteKeepsCurrent DEF Actions
<1>15. ASSUME NEW o \in Editors, NEW c \in Corrections, Correct(o, c) PROVE PostmortemInv'
  <2> DEFINE written == [postmortem EXCEPT !.revision = postmortem.revision + 1,
                                           !.corrected = postmortem.corrected \cup {c}]
  <2>1. WritePostmortem(o, "corrected", written) /\ request' = request /\ postmortem.status = "draft"
    BY <1>15 DEF Correct
  <2>3. postmortem.revision + 1 \in Nat /\ postmortem.corrected \cup {c} \in SUBSET Corrections
    BY <1>1
  <2>4. written.status = "draft"
    BY <1>1, <2>1
  <2>2. written \in Row
    BY <1>1, <2>3
  <2> HIDE DEF written
  <2> QED
    BY <1>1, <2>1, <2>2, <2>4, WriteKeepsCurrent DEF Actions
<1>16. CASE UNCHANGED postmortemVars
  BY <1>1, <1>16, ReadKeepsCurrent DEF postmortemVars
<1> QED
  BY <1>4, <1>5, <1>7, <1>8, <1>9, <1>11, <1>12, <1>13, <1>14, <1>15, <1>16 DEF PostmortemNext

\* Whatever operators do at once, one draft is created and the trail starts with it, and a
\* Postmortem is reviewed exactly when the last thing that happened to it was the review
\* by the person it names (CreateDraft, ReplaceDraft, Correct, Review).
THEOREM PostmortemsAreAlwaysCurrent == PostmortemSpec => []PostmortemsAreCurrent
<1>1. PostmortemInv => PostmortemsAreCurrent
  BY DEF PostmortemInv
<1> QED
  BY <1>1, PostmortemInvInit, PostmortemInvNext, PTL DEF PostmortemSpec

-----------------------------------------------------------------------------
(* The agent's run. *)

\* Variables of a Boolean, one by one.
Flags ==
    /\ offered \in BOOLEAN /\ history \in BOOLEAN /\ reducible \in BOOLEAN
    /\ missing \in BOOLEAN /\ forced \in BOOLEAN /\ stopped \in BOOLEAN

Progress ==
    /\ pc \in {"starting", "turn", "asking", "calling", "concluding", "failing", "done"}
    /\ clock \in {"ample", "reserve", "over"}
    /\ turn \in 0 .. MaxTurns + 1 /\ attempt \in {0, 1}
    /\ row \in {"running", "concluded", "failed"}
    /\ row # "running" => pc = "done"

\* There are reads left to ask for as long as there are turns.
TurnsAreLeft ==
    /\ pc \in {"starting", "turn", "calling"} => turn <= MaxTurns
    /\ pc = "asking" /\ ~forced => turn <= MaxTurns

\* What has been shown is missing from the store only when that has been noticed.
MissingIsNoticed ==
    /\ kept \subseteq Prior /\ brief \subseteq Prior /\ shown \subseteq Prior
    /\ pc = "starting" => shown = {}
    /\ brief \cup shown \subseteq kept \/ missing

\* The calls of the last assistant turn: read ones have a result, in their order,
\* and those left to make come next; the conclusions among them follow.
Transcript ==
    /\ asked \in 0 .. MaxCalls /\ answers \in Seq(1 .. asked) /\ results \in Seq(1 .. asked)
    /\ queue \in Seq([at : 1 .. asked, call : ReadCalls])
    /\ pc \in {"starting", "turn", "calling"} =>
        /\ asked = Len(results) + Len(queue) + Len(answers)
        /\ \A i \in 1 .. Len(results) : results[i] = i
        /\ \A i \in 1 .. Len(queue) : queue[i].at = Len(results) + i
        /\ \A i \in 1 .. Len(answers) : answers[i] = Len(results) + Len(queue) + i
    /\ pc \in {"starting", "turn", "asking"} => queue = <<>>
    /\ pc = "calling" => queue # <<>>
    /\ pc = "asking" => results = <<>>

Ledger ==
    /\ batch \in [ToolReads -> Nat] /\ pagesRead \subseteq Pages /\ executed \in Nat
    /\ runs \in Seq(Outcomes) /\ stored \in Seq(Outcomes)

AgentInv ==
    /\ Flags /\ Progress /\ TurnsAreLeft /\ MissingIsNoticed /\ Transcript /\ CallsAreAnswered
    /\ Ledger /\ WorkIsAccounted /\ Grounded

LEMMA AgentStarts == AgentInit => AgentInv
<1> SUFFICES ASSUME AgentInit PROVE AgentInv
  OBVIOUS
<1> USE AgentAssumption DEF AgentInit
<1>1. Flags
  BY DEF Flags
<1>2. Progress /\ TurnsAreLeft
  BY DEF Progress, TurnsAreLeft
<1>3. MissingIsNoticed
  BY DEF MissingIsNoticed
<1>4. Transcript /\ CallsAreAnswered
  BY DEF Transcript, CallsAreAnswered
<1>5. Ledger /\ WorkIsAccounted
  BY DEF Ledger, WorkIsAccounted
<1>6. Grounded
  BY DEF Grounded
<1> QED
  BY <1>1, <1>2, <1>3, <1>4, <1>5, <1>6 DEF AgentInv

\* Everything but the turn's transcript, when no call is made or answered.
LEMMA FailStep ==
    ASSUME AgentInv, pc' = "failing", pc \notin {"concluding", "done"}, row' = row, clock' \in {"ample", "reserve", "over"},
           turn' = turn, attempt' = attempt,
           Flags', MissingIsNoticed', UNCHANGED <<asked, answers, results, queue>>, Ledger',
           executed' <= MaxRuns, Len(runs') <= Len(stored'), \A n \in DOMAIN runs' : runs'[n] = stored'[n]
    PROVE  AgentInv'
<1>1. Progress' /\ TurnsAreLeft' /\ row' = "running"
  BY DEF AgentInv, Progress, TurnsAreLeft
<1>2. Transcript' /\ CallsAreAnswered'
  BY DEF AgentInv, Transcript, CallsAreAnswered
<1>3. WorkIsAccounted' /\ Grounded'
  BY <1>1 DEF WorkIsAccounted, Grounded
<1> QED
  BY <1>1, <1>2, <1>3 DEF AgentInv

LEMMA ClockStep ==
    ASSUME AgentInv, ClockMoves
    PROVE  AgentInv'
<1> USE DEF ClockMoves, setup, prompt, evidence, move, transcript, work, ending
<1>1. Flags' /\ Progress' /\ TurnsAreLeft'
  BY DEF AgentInv, Flags, Progress, TurnsAreLeft
<1>2. MissingIsNoticed'
  BY DEF AgentInv, MissingIsNoticed
<1>3. Transcript' /\ CallsAreAnswered'
  BY DEF AgentInv, Transcript, CallsAreAnswered
<1>4. Ledger' /\ WorkIsAccounted' /\ Grounded'
  BY DEF AgentInv, Ledger, WorkIsAccounted, Grounded
<1> QED
  BY <1>1, <1>2, <1>3, <1>4 DEF AgentInv

LEMMA StartStep ==
    ASSUME AgentInv, Start
    PROVE  AgentInv'
<1> USE DEF Start, setup, prompt, evidence, move, transcript, work, ending
<1>0. UNCHANGED <<clock, turn, attempt, forced, stopped, asked, answers, results, queue, batch, pagesRead,
                  executed, runs, stored, conclusion, row>>
  OBVIOUS
<1>a. Ledger' /\ pc = "starting"
  BY <1>0 DEF AgentInv, Ledger
<1>1. CASE pc' = "failing"
  <2>1. Flags' /\ MissingIsNoticed'
    BY <1>1 DEF AgentInv, Flags, MissingIsNoticed
  <2> QED
    BY <1>0, <1>1, <1>a, <2>1, FailStep DEF AgentInv, Progress, WorkIsAccounted
<1>2. CASE pc' = "turn"
  <2>0. /\ history' \in BOOLEAN /\ brief' \in SUBSET Prior /\ reducible' \in BOOLEAN
        /\ missing' = ~(brief' \subseteq kept) /\ offered' = offered /\ kept' = kept /\ shown' = shown
    BY <1>2
  <2>1. Flags'
    BY <1>0, <2>0 DEF AgentInv, Flags
  <2>2. Progress' /\ TurnsAreLeft'
    BY <1>0, <1>2, <1>a DEF AgentInv, Progress, TurnsAreLeft
  <2>3. MissingIsNoticed'
    BY <1>2, <1>a, <2>0 DEF AgentInv, MissingIsNoticed
  <2>4. Transcript' /\ CallsAreAnswered'
    BY <1>0, <1>2, <1>a DEF AgentInv, Transcript, CallsAreAnswered
  <2>5. WorkIsAccounted'
    BY <1>0, <1>2, <1>a DEF AgentInv, WorkIsAccounted
  <2>6. Grounded'
    BY <1>0, <1>2, <1>a DEF AgentInv, Progress, Grounded
  <2> QED
    BY <1>a, <2>1, <2>2, <2>3, <2>4, <2>5, <2>6 DEF AgentInv
<1> QED
  BY <1>1, <1>2

\* The head of the loop: every call of the last assistant turn has its result.
LEMMA BeginStep ==
    ASSUME AgentInv, BeginTurn
    PROVE  AgentInv'
<1> USE DEF BeginTurn, setup, prompt, evidence, move, transcript, work, ending
<1>0. UNCHANGED <<clock, offered, history, kept, brief, reducible, shown, missing, queue, batch, pagesRead,
                  executed, runs, stored, conclusion, row>> /\ pc = "turn"
  OBVIOUS
<1>a. Ledger' /\ MissingIsNoticed'
  BY <1>0 DEF AgentInv, Ledger, MissingIsNoticed
<1>1. CASE clock = "over"
  <2>1. Flags'
    BY <1>0, <1>1 DEF AgentInv, Flags
  <2> QED
    BY <1>0, <1>1, <1>a, <2>1, FailStep DEF AgentInv, Progress, WorkIsAccounted
<1>2. CASE clock # "over"
  <2>0. /\ pc' = "asking" /\ turn' = (IF turn <= MaxTurns THEN turn + 1 ELSE turn)
        /\ stopped' = (stopped \/ StopReads(turn')) /\ forced' = (stopped' \/ (~offered /\ ~history))
        /\ attempt' = 0 /\ answers' = answers \o results /\ results' = <<>> /\ asked' = asked
    BY <1>2
  <2>1. Flags'
    BY <1>0, <2>0 DEF AgentInv, Flags
  <2>2. Progress'
    BY <1>0, <2>0, AgentAssumption DEF AgentInv, Progress, TurnsAreLeft
  <2>3. TurnsAreLeft'
    <3>1. ASSUME ~forced' PROVE turn' <= MaxTurns
      <4>1. ~(turn' > MaxTurns)
        BY <2>0, <3>1 DEF StopReads
      <4>2. turn' \in Nat /\ MaxTurns \in Nat
        BY <2>2, AgentAssumption DEF Progress
      <4> QED
        BY <4>1, <4>2
    <3> QED
      BY <2>0, <3>1 DEF TurnsAreLeft
  <2>4. Transcript' /\ CallsAreAnswered'
    <3> DEFINE all == answers \o results
    <3>1. /\ asked \in Nat /\ asked = Len(results) + Len(answers)
          /\ answers \in Seq(1 .. asked) /\ results \in Seq(1 .. asked)
          /\ \A i \in 1 .. Len(results) : results[i] = i
          /\ \A i \in 1 .. Len(answers) : answers[i] = Len(results) + i
      BY <1>0 DEF AgentInv, Transcript
    <3>2. Len(results) \in Nat /\ Len(answers) \in Nat
      BY <3>1
    <3>3. all \in Seq(1 .. asked) /\ Len(all) = asked /\ DOMAIN all = 1 .. asked
      BY <3>1, <3>2
    <3>4. \A i \in 1 .. asked : all[i] = IF i <= Len(answers) THEN Len(results) + i ELSE i - Len(answers)
      <4> SUFFICES ASSUME NEW i \in 1 .. asked
                   PROVE  all[i] = IF i <= Len(answers) THEN Len(results) + i ELSE i - Len(answers)
        OBVIOUS
      <4>1. CASE i <= Len(answers)
        BY <3>1, <3>2, <4>1
      <4>2. CASE i > Len(answers)
        <5>1. i - Len(answers) \in 1 .. Len(results)
          BY <3>1, <3>2, <4>2
        <5>2. all[i] = results[i - Len(answers)]
          BY <3>1, <3>2, <4>2
        <5> QED
          BY <3>1, <3>2, <4>2, <5>1, <5>2
      <4> QED
        BY <3>1, <3>2, <4>1, <4>2
    <3> HIDE DEF all
    <3>5. \A i, j \in 1 .. asked : all[i] = all[j] => i = j
      <4> SUFFICES ASSUME NEW i \in 1 .. asked, NEW j \in 1 .. asked, all[i] = all[j] PROVE i = j
        OBVIOUS
      <4>1. /\ all[i] = IF i <= Len(answers) THEN Len(results) + i ELSE i - Len(answers)
            /\ all[j] = IF j <= Len(answers) THEN Len(results) + j ELSE j - Len(answers)
        BY <3>4
      <4>2. CASE i <= Len(answers) /\ j <= Len(answers)
        <5>1. Len(results) + i = Len(results) + j
          BY <4>1, <4>2, Zenon
        <5>2. i \in Int /\ j \in Int
          BY <3>1
        <5> QED
          BY <3>2, <5>1, <5>2
      <4>3. CASE ~(i <= Len(answers)) /\ ~(j <= Len(answers))
        <5>1. i - Len(answers) = j - Len(answers)
          BY <4>1, <4>3, Zenon
        <5>2. i \in Int /\ j \in Int
          BY <3>1
        <5> QED
          BY <3>2, <5>1, <5>2
      <4>4. ASSUME NEW x \in 1 .. asked, NEW y \in 1 .. asked, x <= Len(answers), ~(y <= Len(answers)),
                   Len(results) + x = y - Len(answers)
            PROVE  FALSE
        <5>1. asked \in Nat /\ asked = Len(results) + Len(answers)
          BY <3>1
        <5> QED
          BY <3>2, <4>4, <5>1
      <4> QED
        BY <4>1, <4>2, <4>3, <4>4
    <3>6. ASSUME NEW n \in 1 .. asked PROVE \E i \in 1 .. asked : all[i] = n
      <4>1. CASE n <= Len(results)
        <5> DEFINE i == n + Len(answers)
        <5>1. i \in 1 .. asked /\ ~(i <= Len(answers)) /\ i - Len(answers) = n
          BY <3>1, <3>2, <4>1
        <5> HIDE DEF i
        <5> QED
          BY <3>4, <5>1
      <4>2. CASE n > Len(results)
        <5> DEFINE i == n - Len(results)
        <5>1. i \in 1 .. asked /\ i <= Len(answers) /\ Len(results) + i = n
          BY <3>1, <3>2, <4>2
        <5> HIDE DEF i
        <5> QED
          BY <3>4, <5>1
      <4> QED
        BY <3>1, <3>2, <4>1, <4>2
    <3>7. \A i \in 1 .. asked : all[i] \in 1 .. asked
      BY <3>3
    <3>8. answers' = all /\ results' = <<>> /\ asked' = asked /\ queue' = queue /\ pc' = "asking"
      BY <1>0, <2>0 DEF all
    <3>9. {all[i] : i \in DOMAIN all} = 1 .. asked
      BY <3>3, <3>6, <3>7
    <3>10. CallsAreAnswered'
      BY <3>3, <3>5, <3>8, <3>9, SMTT(40) DEF CallsAreAnswered
    <3>11. Transcript'
      BY <3>3, <3>8 DEF AgentInv, Transcript
    <3> QED
      BY <3>10, <3>11
  <2>5. WorkIsAccounted' /\ Grounded'
    BY <1>0, <2>0 DEF AgentInv, WorkIsAccounted, Grounded, Progress
  <2> QED
    BY <1>a, <2>1, <2>2, <2>3, <2>4, <2>5 DEF AgentInv
<1> QED
  BY <1>1, <1>2

LEMMA MoveFailsStep ==
    ASSUME AgentInv, MoveFails
    PROVE  AgentInv'
<1> USE DEF MoveFails, setup, prompt, evidence, move, transcript, work, ending
<1>1. Flags' /\ MissingIsNoticed' /\ Ledger'
  BY DEF AgentInv, Flags, MissingIsNoticed, Ledger
<1> QED
  BY <1>1, FailStep DEF AgentInv, Progress, WorkIsAccounted

\* The model is asked once more.
LEMMA AskAgainStep ==
    ASSUME AgentInv, pc = "asking", pc' = "asking", attempt' = 1, Flags', MissingIsNoticed',
           forced => forced', Transcript', CallsAreAnswered',
           UNCHANGED <<clock, turn, batch, pagesRead, executed, runs, stored, conclusion, row>>
    PROVE  AgentInv'
<1>1. Progress' /\ TurnsAreLeft'
  BY DEF AgentInv, Progress, TurnsAreLeft
<1>2. Ledger' /\ WorkIsAccounted' /\ Grounded'
  BY DEF AgentInv, Ledger, WorkIsAccounted, Progress, Grounded
<1> QED
  BY <1>1, <1>2 DEF AgentInv

LEMMA ContextStep ==
    ASSUME AgentInv, ContextExceeded
    PROVE  AgentInv'
<1> USE DEF ContextExceeded, setup, prompt, evidence, move, transcript, work, ending
<1>0. /\ pc = "asking" /\ pc' = "asking" /\ attempt' = 1
      /\ UNCHANGED <<clock, offered, history, kept, shown, missing, turn, asked, answers, results,
                     queue, batch, pagesRead, executed, runs, stored, conclusion, row>>
  OBVIOUS
<1>1. Flags' /\ (forced => forced')
  BY <1>0 DEF AgentInv, Flags
<1>2. MissingIsNoticed'
  <2>1. brief' = {} \/ brief' = brief
    OBVIOUS
  <2> QED
    BY <1>0, <2>1 DEF AgentInv, MissingIsNoticed
<1>3. Transcript' /\ CallsAreAnswered'
  BY <1>0 DEF AgentInv, Transcript, CallsAreAnswered
<1> QED
  BY <1>0, <1>1, <1>2, <1>3, AskAgainStep

LEMMA TruncatedStep ==
    ASSUME AgentInv, Truncated
    PROVE  AgentInv'
<1> USE DEF Truncated, setup, prompt, evidence, move, transcript, work, ending
<1>1. Flags' /\ MissingIsNoticed' /\ Ledger'
  BY DEF AgentInv, Flags, MissingIsNoticed, Ledger
<1>2. CASE attempt = 0
  <2>1. Transcript' /\ CallsAreAnswered'
    BY <1>2 DEF AgentInv, Transcript, CallsAreAnswered
  <2> QED
    BY <1>1, <1>2, <2>1, AskAgainStep
<1>3. CASE attempt # 0
  BY <1>1, <1>3, FailStep DEF AgentInv, Progress, WorkIsAccounted
<1> QED
  BY <1>2, <1>3

\* An answer that is no move: its calls are answered, in their order.
LEMMA RejectStep ==
    ASSUME AgentInv, pc = "asking", NEW n \in 0 .. MaxCalls, Reject(n),
           UNCHANGED <<clock, offered, history, kept, brief, reducible, shown, missing, turn, stopped,
                       conclusion, row>>
    PROVE  AgentInv'
<1> USE DEF Reject, work
<1>0. UNCHANGED <<results, queue, batch, pagesRead, executed, runs, stored>>
  OBVIOUS
<1>1. MissingIsNoticed' /\ Ledger'
  BY <1>0 DEF AgentInv, MissingIsNoticed, Ledger
<1>2. CASE attempt = 1
  <2>1. Flags'
    BY <1>2 DEF AgentInv, Flags
  <2> QED
    BY <1>0, <1>1, <1>2, <2>1, FailStep DEF AgentInv, Progress, WorkIsAccounted
<1>3. CASE attempt # 1
  <2>0. /\ attempt' = 1 /\ forced' = TRUE /\ asked' = n /\ answers' = [i \in 1 .. n |-> i] /\ pc' = "asking"
    BY <1>3
  <2>1. Flags'
    BY <2>0 DEF AgentInv, Flags
  <2>2. answers' \in Seq(1 .. n) /\ DOMAIN answers' = 1 .. n /\ \A i \in 1 .. n : answers'[i] = i
    <3>1. n \in Nat
      BY AgentAssumption
    <3> QED
      BY <2>0, <3>1
  <2>3. CallsAreAnswered'
    BY <2>0, <2>2 DEF CallsAreAnswered
  <2>4. results' = <<>> /\ queue' = <<>>
    BY <1>0 DEF AgentInv, Transcript
  <2>5. Transcript'
    BY <2>0, <2>2, <2>4 DEF Transcript
  <2> QED
    BY <1>0, <1>1, <2>0, <2>1, <2>3, <2>5, AskAgainStep
<1> QED
  BY <1>2, <1>3

\* The reads that are accepted are all to be made, and nothing else is unanswered.
LEMMA AcceptStep ==
    ASSUME AgentInv, pc = "asking", ~forced, NEW c \in Completions, c.reads # <<>>, AcceptReads(c),
           UNCHANGED <<clock, offered, history, kept, brief, reducible, shown, missing, turn, stopped,
                       conclusion, row>>
    PROVE  AgentInv'
<1> DEFINE k == Len(c.reads)
           m == c.conclusions
<1>1. /\ pc' = "calling" /\ asked' = k + m
      /\ answers' = [i \in 1 .. m |-> k + i]
      /\ queue' = [i \in DOMAIN c.reads |-> [at |-> i, call |-> c.reads[i]]]
      /\ batch' = [r \in ToolReads |-> 0]
      /\ UNCHANGED <<results, attempt, forced, pagesRead, executed, runs, stored>>
  BY DEF AcceptReads
<1>2. c.reads \in Seq(ReadCalls) /\ m \in 0 .. MaxCalls /\ k + m <= MaxCalls
  <2>1. /\ c.reads \in UNION {[1 .. n -> ReadCalls] : n \in 0 .. MaxCalls} /\ m \in 0 .. MaxCalls
        /\ k + m <= MaxCalls
    BY DEF Completions
  <2>2. PICK n \in 0 .. MaxCalls : c.reads \in [1 .. n -> ReadCalls]
    BY <2>1
  <2>3. n \in Nat
    BY AgentAssumption
  <2>4. c.reads \in Seq(ReadCalls)
    BY <2>2, <2>3, SeqDef
  <2> QED
    BY <2>1, <2>4
<1>3. k \in Nat /\ m \in Nat /\ DOMAIN c.reads = 1 .. k /\ k # 0 /\ MaxCalls \in Nat
  BY <1>2, AgentAssumption
<1>4. results' = <<>>
  BY <1>1 DEF AgentInv, Transcript
<1> HIDE DEF k, m
<1>5. Flags' /\ Progress' /\ TurnsAreLeft' /\ MissingIsNoticed'
  BY <1>1 DEF AgentInv, Flags, Progress, TurnsAreLeft, MissingIsNoticed
<1>6. /\ Len(answers') = m /\ answers' \in Seq(1 .. asked') /\ \A i \in 1 .. m : answers'[i] = k + i
  <2>1. \A i \in 1 .. m : k + i \in 1 .. k + m
    BY <1>3
  <2>2. answers' \in [1 .. m -> 1 .. k + m]
    BY <1>1, <2>1
  <2> QED
    BY <1>1, <1>3, <2>2, SMTT(40)
<1>7. /\ Len(queue') = k /\ queue' \in Seq([at : 1 .. asked', call : ReadCalls])
      /\ \A i \in 1 .. k : queue'[i].at = i
  <2>1. \A i \in 1 .. k : i \in 1 .. k + m /\ c.reads[i] \in ReadCalls
    BY <1>2, <1>3
  <2>2. queue' \in [1 .. k -> [at : 1 .. k + m, call : ReadCalls]]
    BY <1>1, <1>3, <2>1
  <2>3. \A i \in 1 .. k : queue'[i].at = i
    BY <1>1, <1>3
  <2>4. queue' \in [1 .. k -> [at : 1 .. asked', call : ReadCalls]]
    BY <1>1, <2>2
  <2>5. queue' \in Seq([at : 1 .. asked', call : ReadCalls])
    BY <1>3, <2>4, SeqDef, ZenonT(40)
  <2>6. DOMAIN queue' = 1 .. k
    BY <2>4
  <2>7. Len(queue') = k
    BY <1>3, <2>5, <2>6, LenProperties
  <2> QED
    BY <2>3, <2>5, <2>7
<1>8. asked' \in 0 .. MaxCalls /\ asked' = Len(results') + Len(queue') + Len(answers') /\ queue' # <<>>
  <2>1. Len(results') = 0
    BY <1>4
  <2>2. asked' = k + m /\ Len(queue') = k /\ Len(answers') = m /\ k + m <= MaxCalls
    BY <1>1, <1>2, <1>6, <1>7 DEF k, m
  <2>3. asked' \in 0 .. MaxCalls /\ asked' = Len(results') + Len(queue') + Len(answers')
    BY <1>3, <2>1, <2>2
  <2>4. queue' # <<>>
    BY <1>3, <2>2
  <2> QED
    BY <2>3, <2>4
<1>9. Transcript'
  <2>1. /\ Len(results') = 0 /\ results' \in Seq(1 .. asked')
        /\ \A i \in 1 .. Len(results') : results'[i] = i
    BY <1>4
  <2>2. \A i \in 1 .. Len(queue') : queue'[i].at = Len(results') + i
    BY <1>3, <1>7, <2>1
  <2>3. \A i \in 1 .. Len(answers') : answers'[i] = Len(results') + Len(queue') + i
    BY <1>3, <1>6, <1>7, <2>1
  <2> QED
    BY <1>1, <1>6, <1>7, <1>8, <2>1, <2>2, <2>3 DEF Transcript
<1>10. CallsAreAnswered' /\ Ledger' /\ Grounded'
  BY <1>1 DEF AgentInv, CallsAreAnswered, Ledger, Grounded, Progress
<1>11. WorkIsAccounted'
  <2>1. Len(runs) \in Nat
    BY DEF AgentInv, Ledger
  <2> QED
    BY <1>1, <2>1 DEF AgentInv, WorkIsAccounted
<1> QED
  BY <1>5, <1>9, <1>10, <1>11 DEF AgentInv

LEMMA AskStep ==
    ASSUME AgentInv, AskReads \/ AskNothingUsable \/ DocumentRefused
    PROVE  AgentInv'
<1> USE DEF setup, prompt, evidence, ending
<1>0. /\ pc = "asking"
      /\ UNCHANGED <<clock, offered, history, kept, brief, reducible, shown, missing, turn, stopped,
                     conclusion, row>>
  BY DEF AskReads, AskNothingUsable, DocumentRefused
<1>1. ASSUME NEW c \in Completions
      PROVE  Len(c.reads) + c.conclusions \in 0 .. MaxCalls /\ c.conclusions \in 0 .. MaxCalls
  <2>1. /\ c.reads \in UNION {[1 .. n -> ReadCalls] : n \in 0 .. MaxCalls} /\ c.conclusions \in 0 .. MaxCalls
        /\ Len(c.reads) + c.conclusions <= MaxCalls
    BY DEF Completions
  <2>2. PICK n \in 0 .. MaxCalls : c.reads \in [1 .. n -> ReadCalls]
    BY <2>1
  <2>3. Len(c.reads) \in Nat /\ MaxCalls \in Nat
    BY <2>2, AgentAssumption
  <2> QED
    BY <2>1, <2>3
<1>2. CASE AskReads
  <2>1. PICK c \in Completions :
            /\ c.reads # <<>>
            /\ IF forced THEN Reject(Len(c.reads) + c.conclusions) ELSE AcceptReads(c)
    BY <1>2 DEF AskReads
  <2>2. CASE forced
    BY <1>0, <1>1, <2>1, <2>2, RejectStep
  <2>3. CASE ~forced
    BY <1>0, <2>1, <2>3, AcceptStep
  <2> QED
    BY <2>2, <2>3
<1>3. CASE AskNothingUsable
  <2>1. PICK c \in Completions : Reject(c.conclusions)
    BY <1>3 DEF AskNothingUsable
  <2> QED
    BY <1>0, <1>1, <2>1, RejectStep
<1>4. CASE DocumentRefused
  <2>1. 1 \in 0 .. MaxCalls
    BY AgentAssumption
  <2> QED
    BY <1>0, <1>4, <2>1, RejectStep DEF DocumentRefused
<1> QED
  BY <1>2, <1>3, <1>4

\* A conclusion that decodes cites what is recorded and what was shown.
LEMMA ConcludeStep ==
    ASSUME AgentInv, Conclude
    PROVE  AgentInv'
<1> USE DEF setup, prompt, evidence, move, transcript, work
<1>0. /\ pc = "asking" /\ pc' = "concluding"
      /\ UNCHANGED <<clock, offered, history, kept, brief, reducible, shown, missing, turn, attempt, forced, stopped,
                     asked, answers, results, queue, batch, pagesRead, executed, runs, stored, row>>
  BY DEF Conclude
<1>1. Flags' /\ Progress' /\ TurnsAreLeft' /\ MissingIsNoticed'
  BY <1>0 DEF AgentInv, Flags, Progress, TurnsAreLeft, MissingIsNoticed
<1>2. Transcript' /\ CallsAreAnswered'
  BY <1>0 DEF AgentInv, Transcript, CallsAreAnswered
<1>3. Ledger' /\ WorkIsAccounted'
  BY <1>0 DEF AgentInv, Ledger, WorkIsAccounted
<1>4. Grounded'
  <2>1. PICK doc \in Documents : /\ DecodeConclusion(doc) /\ ~EvidenceMissing(doc.refs)
                                 /\ conclusion' = [doc EXCEPT !.marked = missing]
    BY DEF Conclude
  <2>2. /\ conclusion'.findings = doc.findings /\ conclusion'.mentions = doc.mentions
        /\ conclusion'.refs = doc.refs /\ conclusion'.marked = missing
    BY <2>1 DEF Documents
  <2>3. runs = stored /\ runs \in Seq(Outcomes) /\ DOMAIN runs = 1 .. Len(runs)
    BY <1>0 DEF AgentInv, WorkIsAccounted, Ledger
  <2>4. /\ \A n \in doc.findings : n \in DOMAIN stored /\ stored[n] = "succeeded"
        /\ doc.mentions \subseteq DOMAIN stored
    BY <2>1, <2>3 DEF DecodeConclusion
  <2>5. doc.refs \subseteq (brief \cup shown) \cap kept
    BY <2>1 DEF DecodeConclusion, EvidenceMissing, allowed
  <2>6. brief \cup shown \subseteq kept \/ missing
    BY DEF AgentInv, MissingIsNoticed
  <2> QED
    BY <1>0, <2>2, <2>4, <2>5, <2>6 DEF Grounded
<1> QED
  BY <1>1, <1>2, <1>3, <1>4 DEF AgentInv

LEMMA EndStep ==
    ASSUME AgentInv, StoreConclusion \/ PersistFailure
    PROVE  AgentInv'
<1> USE DEF setup, prompt, evidence, move, transcript, work
<1>0. /\ pc \in {"concluding", "failing"} /\ pc' = "done" /\ row' \in {"running", "concluded", "failed"}
      /\ row' = "concluded" => pc = "concluding"
      /\ UNCHANGED <<clock, offered, history, kept, brief, reducible, shown, missing, turn, attempt, forced, stopped,
                     asked, answers, results, queue, batch, pagesRead, executed, runs, stored, conclusion>>
  BY DEF StoreConclusion, PersistFailure
<1>1. Flags' /\ Progress' /\ TurnsAreLeft' /\ MissingIsNoticed'
  BY <1>0 DEF AgentInv, Flags, Progress, TurnsAreLeft, MissingIsNoticed
<1>2. Transcript' /\ CallsAreAnswered'
  BY <1>0 DEF AgentInv, Transcript, CallsAreAnswered
<1>3. Ledger' /\ WorkIsAccounted' /\ Grounded'
  BY <1>0 DEF AgentInv, Ledger, WorkIsAccounted, Grounded
<1> QED
  BY <1>1, <1>2, <1>3 DEF AgentInv

\* A call that has been made has its result, and the next one follows.
LEMMA CallIsDone ==
    ASSUME AgentInv, pc = "calling", NextCall,
           UNCHANGED <<clock, turn, attempt, asked, answers, row>>,
           Flags', MissingIsNoticed', Ledger', executed' <= MaxRuns, runs' = stored',
           \A r \in ToolReads : batch'[r] \in 0 .. Len(runs')
    PROVE  AgentInv'
<1> DEFINE R == Len(results)
           Q == Len(queue)
           A == Len(answers)
<1>1. /\ asked \in 0 .. MaxCalls /\ answers \in Seq(1 .. asked) /\ results \in Seq(1 .. asked)
      /\ queue \in Seq([at : 1 .. asked, call : ReadCalls]) /\ queue # <<>>
      /\ asked = R + Q + A
      /\ \A i \in 1 .. R : results[i] = i
      /\ \A i \in 1 .. Q : queue[i].at = R + i
      /\ \A i \in 1 .. A : answers[i] = R + Q + i
  BY DEF AgentInv, Transcript
<1>2. R \in Nat /\ Q \in Nat /\ A \in Nat /\ Q # 0 /\ asked \in Nat
  BY <1>1, AgentAssumption
<1>3. /\ queue' = Tail(queue) /\ results' = Append(results, Head(queue).at)
      /\ pc' = (IF queue' = <<>> THEN "turn" ELSE "calling")
  BY DEF NextCall
<1>4. Head(queue).at = R + 1 /\ R + 1 \in 1 .. asked
  <2>1. Head(queue) = queue[1] /\ 1 \in 1 .. Q
    BY <1>1, <1>2
  <2>2. Head(queue).at = R + 1
    BY <1>1, <2>1
  <2> QED
    BY <1>1, <1>2, <2>2
<1>5. /\ queue' \in Seq([at : 1 .. asked, call : ReadCalls]) /\ Len(queue') = Q - 1
      /\ \A i \in 1 .. Q - 1 : queue'[i] = queue[i + 1]
  BY <1>1, <1>2, <1>3
<1>6. /\ results' \in Seq(1 .. asked) /\ Len(results') = R + 1
      /\ \A i \in 1 .. R : results'[i] = results[i]
      /\ results'[R + 1] = R + 1
  <2>1. results' = Append(results, R + 1)
    BY <1>3, <1>4
  <2> QED
    BY <1>1, <1>2, <1>4, <2>1, AppendProperties
<1> HIDE DEF R, Q, A
<1>7. \A i \in 1 .. Len(results') : results'[i] = i
  <2> SUFFICES ASSUME NEW i \in 1 .. R + 1 PROVE results'[i] = i
    BY <1>6
  <2>1. i = R + 1 \/ i \in 1 .. R
    BY <1>2
  <2> QED
    BY <1>1, <1>6, <2>1
<1>8. \A i \in 1 .. Len(queue') : queue'[i].at = Len(results') + i
  <2> SUFFICES ASSUME NEW i \in 1 .. Q - 1 PROVE queue'[i].at = (R + 1) + i
    BY <1>5, <1>6
  <2>1. i + 1 \in 1 .. Q /\ R + (i + 1) = (R + 1) + i
    BY <1>2
  <2> QED
    BY <1>1, <1>5, <2>1
<1>9. \A i \in 1 .. Len(answers') : answers'[i] = Len(results') + Len(queue') + i
  <2> SUFFICES ASSUME NEW i \in 1 .. A PROVE answers[i] = (R + 1) + (Q - 1) + i
    BY <1>5, <1>6 DEF A
  <2>1. (R + 1) + (Q - 1) + i = R + Q + i
    BY <1>2
  <2> QED
    BY <1>1, <2>1
<1>10. asked' = Len(results') + Len(queue') + Len(answers')
  <2>1. asked' = R + Q + A /\ Len(answers') = A
    BY <1>1 DEF A
  <2> QED
    BY <1>2, <1>5, <1>6, <2>1
<1>11. Transcript'
  BY <1>1, <1>3, <1>5, <1>6, <1>7, <1>8, <1>9, <1>10 DEF Transcript
<1>12. pc' \in {"turn", "calling"}
  BY <1>3
<1>13. Progress' /\ TurnsAreLeft' /\ Grounded' /\ CallsAreAnswered'
  BY <1>12 DEF AgentInv, Progress, TurnsAreLeft, Grounded, CallsAreAnswered
<1>14. WorkIsAccounted'
  <2>1. Len(runs') \in Nat
    BY DEF Ledger
  <2> QED
    BY <2>1 DEF WorkIsAccounted
<1> QED
  BY <1>11, <1>13, <1>14 DEF AgentInv

LEMMA HistoryStep ==
    ASSUME AgentInv, ReadHistory
    PROVE  AgentInv'
<1> USE DEF ReadHistory, setup, prompt, evidence, move, ending
<1>0. /\ pc = "calling" /\ NextCall
      /\ UNCHANGED <<clock, offered, history, kept, brief, reducible, turn, attempt, forced, stopped,
                     asked, answers, batch, runs, stored, conclusion, row>>
  OBVIOUS
<1>1. /\ executed \in Nat /\ executed <= MaxRuns /\ MaxRuns \in Nat
      /\ pagesRead \subseteq Pages /\ runs = stored
      /\ \A r \in ToolReads : batch[r] \in 0 .. Len(runs)
  BY <1>0, AgentAssumption DEF AgentInv, Ledger, WorkIsAccounted
<1>2. executed' \in Nat /\ executed' <= MaxRuns
  BY <1>1
<1>3. pagesRead' \subseteq Pages
  BY <1>1
<1>4. Ledger'
  BY <1>0, <1>2, <1>3 DEF AgentInv, Ledger
<1>5. Flags' /\ MissingIsNoticed'
  <2>0. Flags /\ MissingIsNoticed
    BY DEF AgentInv
  <2>1. \/ UNCHANGED <<shown, missing>>
        \/ \E refs \in SUBSET Prior : /\ shown' = shown \cup refs
                                      /\ missing' = (missing \/ EvidenceMissing(refs))
    OBVIOUS
  <2>2. CASE UNCHANGED <<shown, missing>>
    BY <1>0, <2>0, <2>2 DEF Flags, MissingIsNoticed, NextCall
  <2>3. ASSUME NEW refs \in SUBSET Prior, shown' = shown \cup refs,
               missing' = (missing \/ EvidenceMissing(refs))
        PROVE  Flags' /\ MissingIsNoticed'
    <3>1. Flags'
      BY <1>0, <2>0, <2>3 DEF Flags
    <3>2. pc' # "starting"
      BY <1>0 DEF NextCall
    <3>3. brief' \cup shown' \subseteq kept' \/ missing'
      BY <1>0, <2>0, <2>3 DEF MissingIsNoticed, EvidenceMissing
    <3>4. MissingIsNoticed'
      BY <1>0, <2>0, <2>3, <3>2, <3>3 DEF MissingIsNoticed
    <3> QED
      BY <3>1, <3>4
  <2> QED
    BY <2>1, <2>2, <2>3
<1> QED
  BY <1>0, <1>1, <1>2, <1>4, <1>5, CallIsDone

\* A Tool run is recorded, under the next ordinal, or the run fails.
LEMMA RecordStep ==
    ASSUME AgentInv, pc = "calling", NEW outcome \in Outcomes, RecordToolRun(outcome),
           executed' \in Nat, executed' <= MaxRuns, batch' \in [ToolReads -> Nat],
           \A r \in ToolReads : batch'[r] \in 0 .. Len(runs) + 1,
           UNCHANGED <<clock, offered, history, kept, brief, reducible, shown, missing, turn, attempt, forced, stopped,
                       asked, answers, pagesRead, conclusion, row>>
    PROVE  AgentInv'
<1>1. runs \in Seq(Outcomes) /\ stored = runs /\ Len(runs) \in Nat
  BY DEF AgentInv, Ledger, WorkIsAccounted
<1>2. Flags'
  BY DEF AgentInv, Flags
<1>3. /\ Append(runs, outcome) \in Seq(Outcomes) /\ Len(Append(runs, outcome)) = Len(runs) + 1
      /\ \A n \in DOMAIN runs : Append(runs, outcome)[n] = runs[n]
  BY <1>1
<1>4. CASE /\ stored' = Append(stored, outcome) /\ runs' = Append(runs, outcome) /\ NextCall
  <2>1. runs' = stored' /\ runs' \in Seq(Outcomes) /\ Len(runs') = Len(runs) + 1
    BY <1>1, <1>3, <1>4
  <2>2. Ledger'
    BY <2>1 DEF AgentInv, Ledger
  <2>3. MissingIsNoticed'
    BY <1>4 DEF AgentInv, MissingIsNoticed, NextCall
  <2> QED
    BY <1>2, <1>4, <2>1, <2>2, <2>3, CallIsDone
<1>5. CASE /\ stored' \in {stored, Append(stored, outcome)} /\ pc' = "failing"
           /\ UNCHANGED <<queue, results, runs>>
  <2>1. stored' \in Seq(Outcomes) /\ Len(runs') <= Len(stored') /\ \A n \in DOMAIN runs' : runs'[n] = stored'[n]
    <3>1. CASE stored' = stored
      BY <1>1, <1>5, <3>1
    <3>2. CASE stored' = Append(stored, outcome)
      BY <1>1, <1>3, <1>5, <3>2
    <3> QED
      BY <1>5, <3>1, <3>2
  <2>2. Ledger'
    BY <1>1, <1>5, <2>1 DEF AgentInv, Ledger
  <2>3. MissingIsNoticed'
    BY <1>5 DEF AgentInv, MissingIsNoticed
  <2>4. clock' \in {"ample", "reserve", "over"}
    BY DEF AgentInv, Progress
  <2> QED
    BY <1>2, <1>5, <2>1, <2>2, <2>3, <2>4, FailStep
<1> QED
  BY <1>4, <1>5 DEF RecordToolRun

LEMMA DropStep ==
    ASSUME AgentInv, DropCall
    PROVE  AgentInv'
<1> USE DEF setup, prompt, evidence, move, ending
<1>1. /\ pc = "calling" /\ RecordToolRun("failed") /\ "failed" \in Outcomes
      /\ UNCHANGED <<clock, offered, history, kept, brief, reducible, shown, missing, turn, attempt, forced, stopped,
                     asked, answers, pagesRead, conclusion, row, batch, executed>>
  BY DEF DropCall, Outcomes
<1>2. /\ executed \in Nat /\ executed <= MaxRuns /\ batch \in [ToolReads -> Nat] /\ Len(runs) \in Nat
      /\ \A r \in ToolReads : batch[r] \in 0 .. Len(runs)
  BY <1>1 DEF AgentInv, Ledger, WorkIsAccounted
<1>3. \A r \in ToolReads : batch'[r] \in 0 .. Len(runs) + 1
  BY <1>1, <1>2
<1> QED
  BY <1>1, <1>2, <1>3, RecordStep

LEMMA ExecuteStep ==
    ASSUME AgentInv, ExecuteCall
    PROVE  AgentInv'
<1> USE DEF setup, prompt, evidence, move, ending
<1>1. /\ pc = "calling" /\ Call \in ToolReads /\ ~(executed >= MaxRuns)
      /\ UNCHANGED <<clock, offered, history, kept, brief, reducible, shown, missing, turn, attempt, forced, stopped,
                     asked, answers, pagesRead, conclusion, row>>
  BY DEF ExecuteCall, Unmade
<1>2. /\ executed \in Nat /\ executed <= MaxRuns /\ MaxRuns \in Nat
      /\ batch \in [ToolReads -> Nat] /\ Len(runs) \in Nat
      /\ \A r \in ToolReads : batch[r] \in 0 .. Len(runs)
  BY <1>1, AgentAssumption DEF AgentInv, Ledger, WorkIsAccounted
<1>3. CASE /\ executed' = executed + 1 /\ batch' = [batch EXCEPT ![Call] = Len(runs) + 1]
           /\ \E outcome \in Outcomes : RecordToolRun(outcome)
  <2>1. executed' \in Nat /\ executed' <= MaxRuns
    BY <1>1, <1>2, <1>3
  <2>2. batch' \in [ToolReads -> Nat] /\ \A r \in ToolReads : batch'[r] \in 0 .. Len(runs) + 1
    <3>1. \A r \in ToolReads : batch'[r] = IF r = Call THEN Len(runs) + 1 ELSE batch[r]
      <4>1. batch' = [batch EXCEPT ![Call] = Len(runs) + 1]
        BY <1>3
      <4> QED
        BY <1>2, <4>1, Zenon
    <3>2. batch' \in [ToolReads -> Nat]
      <4>1. batch' = [batch EXCEPT ![Call] = Len(runs) + 1] /\ Len(runs) + 1 \in Nat
        BY <1>2, <1>3
      <4> QED
        BY <1>2, <4>1
    <3> QED
      BY <1>2, <3>1, <3>2
  <2> QED
    BY <1>1, <1>3, <2>1, <2>2, RecordStep
<1>4. CASE pc' = "failing" /\ UNCHANGED <<queue, results, batch, executed, runs, stored>>
  <2>1. Flags' /\ MissingIsNoticed' /\ Ledger'
    BY <1>1, <1>4 DEF AgentInv, Flags, MissingIsNoticed, Ledger
  <2> QED
    BY <1>1, <1>4, <2>1, FailStep DEF AgentInv, Progress, WorkIsAccounted
<1> QED
  BY <1>3, <1>4 DEF ExecuteCall, Outcomes

LEMMA AgentStays == AgentInv /\ [AgentNext]_agentVars => AgentInv'
<1> SUFFICES ASSUME AgentInv, [AgentNext]_agentVars PROVE AgentInv'
  OBVIOUS
<1>1. CASE RunSteps
  BY <1>1, StartStep, BeginStep, MoveFailsStep, ContextStep, TruncatedStep, AskStep, ConcludeStep,
     HistoryStep, DropStep, ExecuteStep, EndStep DEF RunSteps
<1>2. CASE ClockMoves
  BY <1>2, ClockStep
<1>3. CASE UNCHANGED agentVars
  <2> USE <1>3 DEF agentVars, setup, prompt, evidence, move, transcript, work, ending
  <2>1. Flags' /\ Progress' /\ TurnsAreLeft' /\ MissingIsNoticed'
    BY DEF AgentInv, Flags, Progress, TurnsAreLeft, MissingIsNoticed
  <2>2. Transcript' /\ CallsAreAnswered'
    BY DEF AgentInv, Transcript, CallsAreAnswered
  <2>3. Ledger' /\ WorkIsAccounted' /\ Grounded'
    BY DEF AgentInv, Ledger, WorkIsAccounted, Grounded
  <2> QED
    BY <2>1, <2>2, <2>3 DEF AgentInv
<1> QED
  BY <1>1, <1>2, <1>3 DEF AgentNext, Finished

LEMMA InvIsGrounded == AgentInv => AgentIsGrounded
<1> SUFFICES ASSUME AgentInv PROVE AgentIsGrounded
  OBVIOUS
<1>1. AgentTypeOK
  BY DEF AgentInv, AgentTypeOK, Flags, Progress, MissingIsNoticed, Transcript, Ledger
<1> QED
  BY <1>1 DEF AgentInv, AgentIsGrounded

\* Whatever the model answers and whatever fails: the transcript is well formed
\* whenever the model is asked, reads stay within the budget and are recorded
\* under the ordinals the agent holds, and a conclusion that is stored cites what
\* is recorded and what was shown (Run, decodeConclusion, recordToolRun).
THEOREM AgentIsAlwaysGrounded == AgentSpec => []AgentIsGrounded
<1> QED
  BY AgentStarts, AgentStays, InvIsGrounded, PTL DEF AgentSpec

-----------------------------------------------------------------------------
(* The run's distance from its end. *)

TurnsFrom(t) == (MaxCalls + 5) * (MaxTurns + 1 - t)

LEMMA TurnsFacts ==
    ASSUME NEW t \in 0 .. MaxTurns + 1
    PROVE  /\ TurnsFrom(t) \in Nat
           /\ t <= MaxTurns => TurnsFrom(t) = TurnsFrom(t + 1) + MaxCalls + 5
<1>1. MaxCalls \in Nat /\ MaxTurns \in Nat
  BY AgentAssumption
<1> DEFINE K == MaxCalls + 5
           d == MaxTurns + 1 - t
<1>2. K \in Nat /\ d \in Nat
  BY <1>1
<1>3. K * d \in Nat
  <2> HIDE DEF K, d
  <2> QED
    BY <1>2
<1>4. ASSUME t <= MaxTurns PROVE K * d = K * (d - 1) + K
  <2>1. K \in Int /\ d \in Int
    BY <1>2
  <2> HIDE DEF K, d
  <2> QED
    BY <2>1
<1>5. MaxTurns + 1 - (t + 1) = d - 1
  BY <1>1
<1>6. TurnsFrom(t) = K * d /\ TurnsFrom(t + 1) = K * (d - 1)
  BY <1>5 DEF TurnsFrom
<1>7. ASSUME t <= MaxTurns PROVE K * (d - 1) + K = K * (d - 1) + MaxCalls + 5
  <2>1. d - 1 \in Int /\ K \in Int
    BY <1>2
  <2>2. K * (d - 1) \in Int
    <3> HIDE DEF K, d
    <3> QED
      BY <2>1
  <2> DEFINE x == K * (d - 1)
  <2> HIDE DEF x
  <2>3. x \in Int
    BY <2>2 DEF x
  <2>4. x + K = x + MaxCalls + 5
    BY <1>1, <2>3
  <2> QED
    BY <2>4 DEF x
<1> HIDE DEF K, d
<1> QED
  BY <1>3, <1>4, <1>6, <1>7

\* Distance at each place of the run, and the numbers it is made of.
DistanceIs ==
    /\ pc = "starting" => Distance = TurnsFrom(turn) + 3
    /\ pc = "turn" => Distance = TurnsFrom(turn) + 2
    /\ pc = "asking" => Distance = TurnsFrom(turn) + MaxCalls + 4 - attempt
    /\ pc = "calling" => Distance = TurnsFrom(turn) + 2 + Len(queue)
    /\ pc \in {"concluding", "failing"} => Distance = 1
    /\ pc = "done" => Distance = 0
    /\ TurnsFrom(turn) \in Nat /\ attempt \in {0, 1} /\ MaxCalls \in Nat
    /\ Len(queue) \in Nat /\ (pc = "calling" => Len(queue) \in 1 .. MaxCalls)
    /\ pc \in {"starting", "turn", "asking", "calling", "concluding", "failing", "done"}
    /\ turn \in 0 .. MaxTurns + 1

LEMMA DistanceFacts == AgentInv => DistanceIs
<1> SUFFICES ASSUME AgentInv PROVE DistanceIs
  OBVIOUS
<1>1. /\ pc \in {"starting", "turn", "asking", "calling", "concluding", "failing", "done"}
      /\ turn \in 0 .. MaxTurns + 1 /\ attempt \in {0, 1} /\ MaxCalls \in Nat
  BY AgentAssumption DEF AgentInv, Progress
<1>2. TurnsFrom(turn) \in Nat
  BY <1>1, TurnsFacts
<1>3. Len(queue) \in Nat /\ (pc = "calling" => Len(queue) \in 1 .. MaxCalls)
  <2>1. /\ asked \in 0 .. MaxCalls /\ answers \in Seq(1 .. asked) /\ results \in Seq(1 .. asked)
        /\ queue \in Seq([at : 1 .. asked, call : ReadCalls])
        /\ pc = "calling" => asked = Len(results) + Len(queue) + Len(answers) /\ queue # <<>>
    BY DEF AgentInv, Transcript
  <2>2. Len(results) \in Nat /\ Len(queue) \in Nat /\ Len(answers) \in Nat /\ (queue # <<>> => Len(queue) # 0)
    BY <2>1
  <2> QED
    BY <1>1, <2>1, <2>2
<1>4. /\ pc = "starting" => Distance = TurnsFrom(turn) + 3
      /\ pc = "turn" => Distance = TurnsFrom(turn) + 2
      /\ pc = "asking" => Distance = TurnsFrom(turn) + MaxCalls + 4 - attempt
      /\ pc = "calling" => Distance = TurnsFrom(turn) + 2 + Len(queue)
      /\ pc \in {"concluding", "failing"} => Distance = 1
      /\ pc = "done" => Distance = 0
  BY Zenon DEF Distance, TurnsFrom
<1> QED
  BY <1>1, <1>2, <1>3, <1>4 DEF DistanceIs

\* What a step does to the place the run is at.
LEMMA StepsMoveOn ==
    ASSUME AgentInv, RunSteps
    PROVE  \/ pc \in {"starting", "turn", "asking", "calling"} /\ pc' \in {"failing", "concluding"}
           \/ pc = "starting" /\ pc' = "turn" /\ turn' = turn
           \/ pc = "turn" /\ pc' = "asking" /\ turn <= MaxTurns /\ turn' = turn + 1 /\ attempt' = 0
           \/ pc = "asking" /\ pc' = "asking" /\ turn' = turn /\ attempt = 0 /\ attempt' = 1
           \/ pc = "asking" /\ pc' = "calling" /\ turn' = turn
           \/ pc = "calling" /\ pc' = "turn" /\ turn' = turn
           \/ pc = "calling" /\ pc' = "calling" /\ turn' = turn /\ Len(queue') = Len(queue) - 1
           \/ pc \in {"concluding", "failing"} /\ pc' = "done"
<1> USE DEF move, work, transcript
<1>1. CASE Start
  BY <1>1 DEF Start
<1>2. CASE BeginTurn
  <2>1. turn <= MaxTurns
    BY <1>2 DEF BeginTurn, AgentInv, TurnsAreLeft
  <2> QED
    BY <1>2, <2>1 DEF BeginTurn
<1>3. CASE MoveFails \/ Conclude \/ StoreConclusion \/ PersistFailure
  BY <1>3 DEF MoveFails, Conclude, StoreConclusion, PersistFailure
<1>4. CASE ContextExceeded \/ Truncated
  BY <1>4 DEF ContextExceeded, Truncated
<1>5. CASE AskReads \/ AskNothingUsable \/ DocumentRefused
  <2>1. attempt \in {0, 1}
    BY DEF AgentInv, Progress
  <2> QED
    BY <1>5, <2>1 DEF AskReads, AskNothingUsable, DocumentRefused, Reject, AcceptReads
<1>6. CASE ReadHistory \/ DropCall \/ ExecuteCall
  <2>1. pc = "calling" /\ turn' = turn /\ (pc' = "failing" \/ NextCall)
    BY <1>6 DEF ReadHistory, DropCall, ExecuteCall, RecordToolRun
  <2>2. CASE NextCall
    <3>1. queue \in Seq([at : 1 .. asked, call : ReadCalls]) /\ queue # <<>>
      BY <2>1 DEF AgentInv, Transcript
    <3>2. Len(Tail(queue)) = Len(queue) - 1
      BY <3>1
    <3> QED
      BY <2>1, <2>2, <3>2 DEF NextCall
  <2> QED
    BY <2>1, <2>2
<1> QED
  BY <1>1, <1>2, <1>3, <1>4, <1>5, <1>6 DEF RunSteps

\* A step of the run takes it nearer to its end.
LEMMA StepsApproach ==
    ASSUME AgentInv, DistanceIs, DistanceIs', RunSteps
    PROVE  Distance' \in Nat /\ Distance' < Distance
<1> DEFINE T == TurnsFrom(turn)
           U == TurnsFrom(turn')
           D == Distance
           E == Distance'
           q == Len(queue)
           r == Len(queue')
<1>1. /\ pc = "starting" => D = T + 3
      /\ pc = "turn" => D = T + 2
      /\ pc = "asking" => D = T + MaxCalls + 4 - attempt
      /\ pc = "calling" => D = T + 2 + q
      /\ pc \in {"concluding", "failing"} => D = 1
      /\ T \in Nat /\ attempt \in {0, 1} /\ MaxCalls \in Nat
      /\ q \in Nat /\ (pc = "calling" => q \in 1 .. MaxCalls)
      /\ turn \in 0 .. MaxTurns + 1
  BY DEF DistanceIs
<1>2. /\ pc' = "turn" => E = U + 2
      /\ pc' = "asking" => E = U + MaxCalls + 4 - attempt'
      /\ pc' = "calling" => E = U + 2 + r
      /\ pc' \in {"concluding", "failing"} => E = 1
      /\ pc' = "done" => E = 0
      /\ U \in Nat /\ attempt' \in {0, 1}
      /\ r \in Nat /\ (pc' = "calling" => r \in 1 .. MaxCalls)
  BY DEF DistanceIs
<1>3. turn' = turn => U = T
  OBVIOUS
<1>4. turn <= MaxTurns /\ turn' = turn + 1 => T = U + MaxCalls + 5
  BY <1>1, TurnsFacts
<1>5. \/ pc \in {"starting", "turn", "asking", "calling"} /\ pc' \in {"failing", "concluding"}
      \/ pc = "starting" /\ pc' = "turn" /\ turn' = turn
      \/ pc = "turn" /\ pc' = "asking" /\ turn <= MaxTurns /\ turn' = turn + 1 /\ attempt' = 0
      \/ pc = "asking" /\ pc' = "asking" /\ turn' = turn /\ attempt = 0 /\ attempt' = 1
      \/ pc = "asking" /\ pc' = "calling" /\ turn' = turn
      \/ pc = "calling" /\ pc' = "turn" /\ turn' = turn
      \/ pc = "calling" /\ pc' = "calling" /\ turn' = turn /\ r = q - 1
      \/ pc \in {"concluding", "failing"} /\ pc' = "done"
  BY StepsMoveOn
<1> HIDE DEF T, U, D, E, q, r
<1>6. E \in Nat /\ E < D
  BY <1>1, <1>2, <1>3, <1>4, <1>5
<1> QED
  BY <1>6 DEF D, E

\* Whatever the model answers, every step of the run but those of its clock takes
\* it nearer to its end, for every budget (Run: the ceilings and the attempts).
THEOREM RunAlwaysApproachesItsEnd == AgentSpec => RunApproachesItsEnd
<1> DEFINE Near == Distance' \in Nat /\ (Distance' < Distance \/ (Distance' = Distance /\ clock' # clock))
<1>1. ASSUME AgentInv, DistanceIs, DistanceIs', [AgentNext]_agentVars PROVE [Near]_agentVars
  <2>1. CASE RunSteps
    BY <1>1, <2>1, StepsApproach
  <2>2. CASE ClockMoves
    <3>1. Distance' = Distance /\ clock' # clock
      BY <2>2 DEF ClockMoves, Distance, move, work
    <3>2. Distance \in Nat
      <4> DEFINE T == TurnsFrom(turn)
                 q == Len(queue)
      <4>1. /\ \/ Distance = T + 3 \/ Distance = T + 2 \/ Distance = T + MaxCalls + 4 - attempt
               \/ Distance = T + 2 + q \/ Distance = 1 \/ Distance = 0
            /\ T \in Nat /\ q \in Nat /\ MaxCalls \in Nat /\ attempt \in {0, 1}
        BY <1>1 DEF DistanceIs
      <4> HIDE DEF T, q
      <4> QED
        BY <4>1
    <3> QED
      BY <3>1, <3>2
  <2>3. CASE UNCHANGED agentVars
    BY <2>3
  <2> QED
    BY <1>1, <2>1, <2>2, <2>3 DEF AgentNext, Finished
<1>2. AgentInv => DistanceIs
  BY DistanceFacts
<1> QED
  BY <1>1, <1>2, AgentStarts, AgentStays, PTL DEF AgentSpec, RunApproachesItsEnd

=============================================================================
