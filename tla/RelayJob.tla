------------------------------ MODULE RelayJob ------------------------------
(***************************************************************************)
(* Relay Jobs of one Relay registration: the relay_job rows, the gRPC       *)
(* sessions of every control-plane replica that claim, adopt, release and   *)
(* record them, and the Relay processes at the other end of the streams.    *)
(*                                                                          *)
(* A store statement is one action. A session remembers what it claimed     *)
(* and what it told its Relay, and a statement it had sent to the database  *)
(* may still commit after the session has ended. Relays are not part of     *)
(* this repository: they execute what they are assigned, keep a result      *)
(* until it is acknowledged, reconnect and crash. Two of them may share an  *)
(* identity.                                                                *)
(***************************************************************************)
EXTENDS Integers, Sequences, FiniteSets

CONSTANTS
    Jobs,           \* job_id
    Relays,         \* Relay processes holding the registration's credential
    Replicas,       \* control-plane processes
    None,           \* SQL NULL, nil
    Outcomes,       \* outcomes a Relay may report (outcomeOf)
    Capacity,       \* session.capacity
    LeaseFor,       \* leaseDuration, in clock ticks
    QueueLimit,     \* capacity of session.outbound and the stream behind it
    MaxSessions,    \* bound: sessions ever opened
    MaxEpoch        \* bound: lease generations of one Job

ASSUME NoneIsNone == None \notin Jobs \cup Relays \cup Nat
ASSUME LeaseAssumption == LeaseFor \in Nat \ {0}
ASSUME SizeAssumption ==
    /\ Capacity \in Nat \ {0}
    /\ QueueLimit \in Nat \ {0}
    /\ MaxSessions \in Nat
    /\ MaxEpoch \in Nat

\* uuid.New: a session is numbered by when it was opened.
Sessions == 1 .. MaxSessions

Settled == {"succeeded", "failed", "cancelled"}
JobStatus == {"absent", "pending", "leased"} \cup Settled

ASSUME OutcomesAssumption == Outcomes \subseteq Settled

VARIABLES
    status,         \* relay_job.status, "absent" before the row exists
    holder,         \* relay_job.lease_session
    epoch,          \* relay_job.lease_epoch
    ttl,            \* ticks until lease_expires_at
    asked,          \* relay_job.cancel_requested_at IS NOT NULL
    investigating,  \* the Investigation that owns the Jobs is running
    opened,         \* sessions opened so far
    phase,          \* "unused", "connected", "greeted", "ended"
    peer,           \* the Relay at the other end
    live,           \* liveSessions of each replica
    releasing,      \* adopt returned true: ReleaseStrandedLeases is next
    late,           \* a ClaimJobs statement outlived the session
    unsent,         \* executions claimed and not yet handed to the sender
    told,           \* executions whose stop has been sent
    stream,         \* messages queued for the Relay, oldest first
    link,           \* the session a Relay reads from
    executing,      \* executions a Relay runs
    results         \* executions whose result it has not seen acknowledged

rowVars == <<status, holder, epoch, ttl, asked, investigating>>
sessionVars == <<opened, phase, peer, live, releasing, late, unsent, told>>
relayVars == <<link, executing, results>>
vars == <<rowVars, sessionVars, stream, relayVars>>

\* One execution of a Job: the Job and the generation of its lease.
Execution == Jobs \X (0 .. MaxEpoch)
Message == [kind : {"assign", "stop", "ack"}, job : Jobs, epoch : 0 .. MaxEpoch]

Msg(kind, x) == [kind |-> kind, job |-> x[1], epoch |-> x[2]]

RowsTypeOK ==
    /\ status \in [Jobs -> JobStatus]
    /\ holder \in [Jobs -> Sessions \cup {None}]
    /\ epoch \in [Jobs -> 0 .. MaxEpoch]
    /\ ttl \in [Jobs -> 0 .. LeaseFor]
    /\ asked \in [Jobs -> BOOLEAN]
    /\ investigating \in BOOLEAN

SessionsTypeOK ==
    /\ opened \in 0 .. MaxSessions
    /\ phase \in [Sessions -> {"unused", "connected", "greeted", "ended"}]
    /\ peer \in [Sessions -> Relays \cup {None}]
    /\ live \in [Replicas -> Sessions \cup {None}]
    /\ releasing \in [Sessions -> BOOLEAN]
    /\ late \in [Sessions -> BOOLEAN]
    /\ unsent \in [Sessions -> SUBSET Execution]
    /\ told \in [Sessions -> SUBSET Execution]
    /\ stream \in [Sessions -> Seq(Message)]

RelaysTypeOK ==
    /\ link \in [Relays -> Sessions \cup {None}]
    /\ executing \in [Relays -> SUBSET Execution]
    /\ results \in [Relays -> SUBSET Execution]

\* Every row, session and Relay has its type.
TypeOK == RowsTypeOK /\ SessionsTypeOK /\ RelaysTypeOK

Init ==
    /\ status = [j \in Jobs |-> "absent"]
    /\ holder = [j \in Jobs |-> None]
    /\ epoch = [j \in Jobs |-> 0]
    /\ ttl = [j \in Jobs |-> 0]
    /\ asked = [j \in Jobs |-> FALSE]
    /\ investigating = TRUE
    /\ opened = 0
    /\ phase = [s \in Sessions |-> "unused"]
    /\ peer = [s \in Sessions |-> None]
    /\ live = [p \in Replicas |-> None]
    /\ releasing = [s \in Sessions |-> FALSE]
    /\ late = [s \in Sessions |-> FALSE]
    /\ unsent = [s \in Sessions |-> {}]
    /\ told = [s \in Sessions |-> {}]
    /\ stream = [s \in Sessions |-> <<>>]
    /\ link = [r \in Relays |-> None]
    /\ executing = [r \in Relays |-> {}]
    /\ results = [r \in Relays |-> {}]

-----------------------------------------------------------------------------
(* Rows: enqueueing and cancelling. *)

\* Mutant: the Investigation is not looked at.
EnqueueUnchecked(j) ==
    /\ status[j] = "absent"
    /\ status' = [status EXCEPT ![j] = "pending"]
    /\ UNCHANGED <<holder, epoch, ttl, asked, investigating, sessionVars, stream,
                   relayVars>>

\* EnqueueVerifiedJob: the Investigation's row is locked and must be running.
\* An Integration that is disabled or not verified refuses the Job, which then
\* never exists.
EnqueueVerifiedJob(j) ==
    /\ status[j] = "absent"
    /\ investigating
    /\ status' = [status EXCEPT ![j] = "pending"]
    /\ UNCHANGED <<holder, epoch, ttl, asked, investigating, sessionVars, stream,
                   relayVars>>

\* Mutant: a Job that has ended is cancelled too.
CancelRowsEnded(S) ==
    /\ status' = [j \in Jobs |->
                    IF j \in S /\ status[j] \notin {"absent", "leased"}
                    THEN "cancelled" ELSE status[j]]
    /\ asked' = [j \in Jobs |-> asked[j] \/ (j \in S /\ status[j] # "absent")]
    /\ UNCHANGED <<holder, epoch, ttl>>

\* A Job that has not started is cancelled; one that is leased is asked to stop.
CancelRows(S) ==
    /\ status' = [j \in Jobs |->
                    IF j \in S /\ status[j] = "pending" THEN "cancelled" ELSE status[j]]
    /\ asked' = [j \in Jobs |->
                   asked[j] \/ (j \in S /\ status[j] \in {"pending", "leased"})]
    /\ UNCHANGED <<holder, epoch, ttl>>

\* RequestJobCancellation, by the executor whose context is done.
RequestJobCancellation(j) ==
    /\ status[j] # "absent"
    /\ CancelRows({j})
    /\ UNCHANGED <<investigating, sessionVars, stream, relayVars>>

\* CancelInvestigation ends the Investigation and cancels its Jobs in one
\* transaction.
CancelInvestigation ==
    /\ investigating
    /\ investigating' = FALSE
    /\ CancelRows(Jobs)
    /\ UNCHANGED <<sessionVars, stream, relayVars>>

-----------------------------------------------------------------------------
(* Sessions: connecting, the handshake, ending. *)

\* What a session leaves behind: queued messages may still be flushed, and a
\* statement it was executing may still commit.
EndFields(S) ==
    /\ unsent' = [s \in Sessions |-> IF s \in S THEN {} ELSE unsent[s]]
    /\ told' = [s \in Sessions |-> IF s \in S THEN {} ELSE told[s]]
    /\ \E claims \in SUBSET {s \in S : phase[s] = "greeted"}, releases \in SUBSET S :
          /\ late' = [s \in Sessions |-> late[s] \/ s \in claims]
          /\ releasing' = [s \in Sessions |->
                             releasing[s] /\ (s \in S => s \in releases)]

\* Connect and open: an authenticated Relay gets a fresh session, which takes
\* the registration's place at its replica; the one it displaces ends.
Connect(r, p) ==
    LET s == opened + 1
        displaced == {live[p]} \ {None}
    IN  /\ opened < MaxSessions
        /\ opened' = s
        /\ phase' = [t \in Sessions |-> IF t = s THEN "connected"
                                        ELSE IF t \in displaced THEN "ended"
                                        ELSE phase[t]]
        /\ peer' = [peer EXCEPT ![s] = r]
        /\ live' = [live EXCEPT ![p] = s]
        /\ link' = [link EXCEPT ![r] = s]
        /\ stream' = [t \in Sessions |-> IF t = link[r] THEN <<>> ELSE stream[t]]
        /\ EndFields(displaced)
        /\ UNCHANGED <<rowVars, executing, results>>

\* A session ends: its stream fails, it goes silent, the send queue wedges, a
\* message is refused, or the replica stops.
EndSession(s) ==
    /\ phase[s] \in {"connected", "greeted"}
    /\ phase' = [phase EXCEPT ![s] = "ended"]
    /\ live' = [p \in Replicas |-> IF live[p] = s THEN None ELSE live[p]]
    /\ EndFields({s})
    /\ UNCHANGED <<rowVars, opened, peer, stream, relayVars>>

\* What a Relay declares: all it is executing, and perhaps results not yet
\* acknowledged.
Roster(r) == {executing[r], executing[r] \cup results[r]}

\* AdoptInFlightLeases: a lease of the declared generation moves to s.
Adopted(declared) ==
    {j \in Jobs : status[j] = "leased" /\ <<j, epoch[j]>> \in declared}

\* greet: the roster is adopted, or the part of it that could be read; only a
\* complete roster, adopted to the last entry, by a session that churnWatch did
\* not find contested, lets it release the rest. Delivery starts.
Greet(s) ==
    LET r == peer[s]
    IN  /\ phase[s] \in {"connected", "greeted"}
        /\ ~releasing[s]
        /\ link[r] = s
        /\ \E roster \in Roster(r) : \E declared \in SUBSET roster :
              LET all == declared = roster
                         /\ Cardinality(Adopted(declared)) = Cardinality(declared)
              IN  /\ holder' = [j \in Jobs |->
                                  IF j \in Adopted(declared) THEN s ELSE holder[j]]
                  /\ ttl' = [j \in Jobs |->
                               IF j \in Adopted(declared) THEN LeaseFor ELSE ttl[j]]
                  /\ \E contested \in BOOLEAN :
                        releasing' = [releasing EXCEPT ![s] = all /\ ~contested]
        /\ phase' = [phase EXCEPT ![s] = "greeted"]
        /\ UNCHANGED <<status, epoch, asked, investigating, opened, peer, live, late, unsent, told, stream, relayVars>>

\* Leases of the registration that another session holds.
Stranded(s) == {j \in Jobs : status[j] = "leased" /\ holder[j] # s}

\* Mutant: the generation is left for the next claim.
ReleaseKeepingEpoch(s) ==
    LET S == Stranded(s)
    IN  /\ releasing[s]
        /\ releasing' = [releasing EXCEPT ![s] = FALSE]
        /\ status' = [j \in Jobs |-> IF j \in S THEN "pending" ELSE status[j]]
        /\ holder' = [j \in Jobs |-> IF j \in S THEN None ELSE holder[j]]
        /\ ttl' = [j \in Jobs |-> IF j \in S THEN 0 ELSE ttl[j]]
        /\ UNCHANGED <<epoch, asked, investigating, opened, phase, peer, live, late, unsent, told, stream, relayVars>>

\* ReleaseStrandedLeases: they become pending under a new generation.
ReleaseStrandedLeases(s) ==
    LET S == Stranded(s)
    IN  /\ releasing[s]
        /\ \A j \in S : epoch[j] < MaxEpoch
        /\ releasing' = [releasing EXCEPT ![s] = FALSE]
        /\ status' = [j \in Jobs |-> IF j \in S THEN "pending" ELSE status[j]]
        /\ holder' = [j \in Jobs |-> IF j \in S THEN None ELSE holder[j]]
        /\ ttl' = [j \in Jobs |-> IF j \in S THEN 0 ELSE ttl[j]]
        /\ epoch' = [j \in Jobs |-> IF j \in S THEN epoch[j] + 1 ELSE epoch[j]]
        /\ UNCHANGED <<asked, investigating, opened, phase, peer, live, late, unsent, told, stream, relayVars>>

-----------------------------------------------------------------------------
(* Delivery: claiming, assigning, asking to stop. *)

\* Mutant: a lease that has run out is not claimable.
ClaimableFresh == {j \in Jobs : status[j] = "pending"}

Claimable == {j \in Jobs : \/ status[j] = "pending"
                           \/ status[j] = "leased" /\ ttl[j] = 0}

Held(s) == {j \in Jobs : status[j] = "leased" /\ holder[j] = s /\ ttl[j] > 0}

\* Mutant: the generation is not raised.
TakeSameEpoch(s, S) ==
    /\ status' = [j \in Jobs |-> IF j \in S THEN "leased" ELSE status[j]]
    /\ holder' = [j \in Jobs |-> IF j \in S THEN s ELSE holder[j]]
    /\ ttl' = [j \in Jobs |-> IF j \in S THEN LeaseFor ELSE ttl[j]]
    /\ UNCHANGED <<epoch, asked, investigating>>

\* The rows of a claim: leased to s under the next generation.
Take(s, S) ==
    /\ \A j \in S : epoch[j] < MaxEpoch
    /\ status' = [j \in Jobs |-> IF j \in S THEN "leased" ELSE status[j]]
    /\ holder' = [j \in Jobs |-> IF j \in S THEN s ELSE holder[j]]
    /\ ttl' = [j \in Jobs |-> IF j \in S THEN LeaseFor ELSE ttl[j]]
    /\ epoch' = [j \in Jobs |-> IF j \in S THEN epoch[j] + 1 ELSE epoch[j]]
    /\ UNCHANGED <<asked, investigating>>

\* ClaimJobs: up to what its capacity leaves; rows that another transaction has
\* locked are skipped. The claim of a session that has ended assigns nothing.
ClaimJobs(s) ==
    /\ unsent[s] = {}
    /\ \E S \in SUBSET Claimable :
          /\ S # {}
          /\ Cardinality(S) <= Capacity - Cardinality(Held(s))
          /\ Take(s, S)
          /\ \/ /\ phase[s] = "greeted"
                /\ unsent' = [unsent EXCEPT ![s] = {<<j, epoch'[j]>> : j \in S}]
                /\ UNCHANGED late
             \/ /\ late[s]
                /\ late' = [late EXCEPT ![s] = FALSE]
                /\ UNCHANGED unsent
    /\ UNCHANGED <<opened, phase, peer, live, releasing, told,
                   stream, relayVars>>

\* The sender writes to the stream; what nobody reads is lost.
Send(s, m) ==
    /\ Len(stream[s]) < QueueLimit
    /\ stream' = IF link[peer[s]] = s THEN [stream EXCEPT ![s] = Append(@, m)] ELSE stream

SendAssignment(s) ==
    /\ phase[s] = "greeted"
    /\ \E x \in unsent[s] :
          /\ unsent' = [unsent EXCEPT ![s] = @ \ {x}]
          /\ Send(s, Msg("assign", x))
    /\ UNCHANGED <<rowVars, opened, phase, peer, live, releasing,
                   late, told, relayVars>>

\* The fence of a result: leased to this session under this generation.
Fenced(s, x) ==
    /\ status[x[1]] = "leased"
    /\ holder[x[1]] = s
    /\ epoch[x[1]] = x[2]

\* RecordResult, where the fence holds.
Settle(j, outcome) ==
    /\ status' = [status EXCEPT ![j] = outcome]
    /\ holder' = [holder EXCEPT ![j] = None]
    /\ ttl' = [ttl EXCEPT ![j] = 0]
    /\ UNCHANGED <<epoch, asked, investigating>>

\* failUndeliverable: an assignment that cannot be expressed fails its Job, if
\* the session still holds it.
FailUndeliverable(s) ==
    /\ phase[s] = "greeted"
    /\ \E x \in unsent[s] :
          /\ unsent' = [unsent EXCEPT ![s] = @ \ {x}]
          /\ \/ Fenced(s, x) /\ Settle(x[1], "failed")
             \/ ~Fenced(s, x) /\ UNCHANGED rowVars
    /\ UNCHANGED <<opened, phase, peer, live, releasing, late, told,
                   stream, relayVars>>

\* Executions that the session holds and that are asked to stop.
PendingCancellations(s) ==
    {<<j, epoch[j]>> : j \in {k \in Jobs : /\ status[k] = "leased"
                                           /\ holder[k] = s
                                           /\ asked[k]}}

\* dispatchCancellations, after the round's assignments are handed over.
SendCancellation(s) ==
    /\ phase[s] = "greeted"
    /\ unsent[s] = {}
    /\ \E x \in PendingCancellations(s) \ told[s] :
          /\ told' = [told EXCEPT ![s] = (@ \cap PendingCancellations(s)) \cup {x}]
          /\ Send(s, Msg("stop", x))
    /\ UNCHANGED <<rowVars, opened, phase, peer, live, releasing,
                   late, unsent, relayVars>>

-----------------------------------------------------------------------------
(* Results. *)

\* explainRefusedResult: the refusals that are answered (already recorded,
\* superseded). A lease another session holds is met with silence, and the
\* Relay sends again.
Answerable(x) == status[x[1]] \in Settled \/ epoch[x[1]] > x[2]

\* acknowledge: a full queue wedges the stream, which ends the session.
Acknowledge(s, x) ==
    \/ /\ Send(s, Msg("ack", x))
       /\ UNCHANGED <<phase, live, unsent, told, late, releasing>>
    \/ /\ Len(stream[s]) >= QueueLimit
       /\ phase' = [phase EXCEPT ![s] = "ended"]
       /\ live' = [p \in Replicas |-> IF live[p] = s THEN None ELSE live[p]]
       /\ EndFields({s})
       /\ UNCHANGED stream

\* recordAndAcknowledge: recorded first, then acknowledged.
RecordResult(s) ==
    /\ phase[s] \in {"connected", "greeted"}
    /\ \E x \in results[peer[s]] :
          /\ \/ Fenced(s, x) /\ \E outcome \in Outcomes : Settle(x[1], outcome)
             \/ ~Fenced(s, x) /\ Answerable(x) /\ UNCHANGED rowVars
          /\ Acknowledge(s, x)
    /\ UNCHANGED <<opened, peer, relayVars>>

-----------------------------------------------------------------------------
(* The clock and the Relays. *)

\* One tick of the database clock.
Tick ==
    /\ \E j \in Jobs : ttl[j] > 0
    /\ ttl' = [j \in Jobs |-> IF ttl[j] > 0 THEN ttl[j] - 1 ELSE 0]
    /\ UNCHANGED <<status, holder, epoch, asked, investigating, sessionVars, stream,
                   relayVars>>

\* A Relay reads the next message of its stream: it starts an execution, stops
\* one (whose result is then its cancellation), or forgets a result.
RelayReceive(r) ==
    LET s == link[r]
        m == Head(stream[link[r]])
        x == <<m.job, m.epoch>>
    IN  /\ s # None
        /\ stream[s] # <<>>
        /\ stream' = [stream EXCEPT ![s] = Tail(@)]
        /\ executing' = [executing EXCEPT ![r] =
                           IF m.kind = "assign" THEN @ \cup {x}
                           ELSE IF m.kind = "stop" THEN @ \ {x} ELSE @]
        /\ results' = [results EXCEPT ![r] =
                         IF m.kind = "ack" THEN @ \ {x}
                         ELSE IF m.kind = "stop" /\ x \in executing[r] THEN @ \cup {x}
                         ELSE @]
        /\ UNCHANGED <<rowVars, sessionVars, link>>

RelayFinish(r) ==
    /\ \E x \in executing[r] :
          /\ executing' = [executing EXCEPT ![r] = @ \ {x}]
          /\ results' = [results EXCEPT ![r] = @ \cup {x}]
    /\ UNCHANGED <<rowVars, sessionVars, stream, link>>

\* The stream breaks: what was still queued is lost.
RelayLeave(r) ==
    /\ link[r] # None
    /\ link' = [link EXCEPT ![r] = None]
    /\ stream' = [stream EXCEPT ![link[r]] = <<>>]
    /\ UNCHANGED <<rowVars, sessionVars, executing, results>>

RelayCrash(r) ==
    /\ link[r] # None \/ executing[r] # {} \/ results[r] # {}
    /\ link' = [link EXCEPT ![r] = None]
    /\ executing' = [executing EXCEPT ![r] = {}]
    /\ results' = [results EXCEPT ![r] = {}]
    /\ stream' = [s \in Sessions |-> IF s = link[r] THEN <<>> ELSE stream[s]]
    /\ UNCHANGED <<rowVars, sessionVars>>

-----------------------------------------------------------------------------
SessionStep(s) ==
    \/ EndSession(s) \/ Greet(s) \/ ReleaseStrandedLeases(s)
    \/ ClaimJobs(s) \/ SendAssignment(s) \/ FailUndeliverable(s)
    \/ SendCancellation(s) \/ RecordResult(s)

RelayStep(r) ==
    \/ \E p \in Replicas : Connect(r, p)
    \/ RelayReceive(r) \/ RelayFinish(r) \/ RelayLeave(r) \/ RelayCrash(r)

Next ==
    \/ \E j \in Jobs : EnqueueVerifiedJob(j) \/ RequestJobCancellation(j)
    \/ CancelInvestigation
    \/ \E s \in Sessions : SessionStep(s)
    \/ \E r \in Relays : RelayStep(r)
    \/ Tick

Spec == Init /\ [][Next]_vars

\* What the loops and the timeouts guarantee: delivery polls, a session nobody
\* answers on is ended, a Relay reconnects, sends its results again and does not
\* execute for ever, and the clock advances.
Abandoned(s) == peer[s] # None /\ link[peer[s]] # s
Fairness ==
    /\ \A s \in Sessions :
          /\ WF_vars(phase[s] = "connected" /\ Greet(s))
          /\ WF_vars(ReleaseStrandedLeases(s))
          /\ WF_vars(ClaimJobs(s))
          /\ WF_vars(SendAssignment(s))
          /\ WF_vars(SendCancellation(s))
          /\ WF_vars(RecordResult(s))
          /\ WF_vars(Abandoned(s) /\ EndSession(s))
    /\ \A r \in Relays :
          /\ WF_vars(link[r] = None /\ \E p \in Replicas : Connect(r, p))
          /\ WF_vars(link[r] # None /\ phase[link[r]] = "ended" /\ RelayLeave(r))
          /\ WF_vars(RelayReceive(r))
          /\ WF_vars(RelayFinish(r))
    /\ WF_vars(Tick)

FairSpec == Spec /\ Fairness

-----------------------------------------------------------------------------
(* Properties. *)

\* Where an execution may be: claimed, on its way, running, or finished.
OnTheWay(s, kind) == {<<stream[s][k].job, stream[s][k].epoch>> :
                        k \in {n \in DOMAIN stream[s] : stream[s][n].kind = kind}}
Executions ==
    (UNION {unsent[s] \cup OnTheWay(s, "assign") : s \in Sessions})
        \cup (UNION {executing[r] \cup results[r] : r \in Relays})

\* A lease generation names one execution: however leases expire, move between
\* sessions or are released, it is never assigned twice, to one Relay or to two.
ExecutionIsUnique ==
    /\ \A s, t \in Sessions :
          /\ unsent[s] \cap OnTheWay(t, "assign") = {}
          /\ s # t => (unsent[s] \cup OnTheWay(s, "assign"))
                         \cap (unsent[t] \cup OnTheWay(t, "assign")) = {}
    /\ \A s \in Sessions : \A k, n \in DOMAIN stream[s] :
          stream[s][k] = stream[s][n] /\ stream[s][k].kind = "assign" => k = n
    /\ \A r \in Relays :
          /\ executing[r] \cap results[r] = {}
          /\ \A s \in Sessions : (executing[r] \cup results[r])
                 \cap (unsent[s] \cup OnTheWay(s, "assign")) = {}
          /\ \A q \in Relays \ {r} : (executing[r] \cup results[r])
                 \cap (executing[q] \cup results[q]) = {}

\* A Job that waits to be claimed, or has been given back, can be recorded by no
\* execution any more: cancelling it outright, or running it again, is safe.
PendingIsFenced ==
    \A x \in Executions :
        /\ x[2] <= epoch[x[1]]
        /\ status[x[1]] = "pending" => x[2] < epoch[x[1]]

\* Only a settled question is acknowledged: the Relay that drops its result on an
\* acknowledgement loses nothing, for the Job has an outcome or runs again.
AcknowledgedIsSettled ==
    \A s \in Sessions : \A x \in OnTheWay(s, "ack") :
        status[x[1]] \in Settled \/ epoch[x[1]] > x[2]

\* Rows, sessions and streams are well formed, what is given back is fenced, and
\* what is acknowledged is settled (ReleaseStrandedLeases, explainRefusedResult).
FencesHold == TypeOK /\ PendingIsFenced /\ AcknowledgedIsSettled

\* A stop never overtakes the assignment it is about, so it is never thrown away
\* by a Relay that has not heard of the execution.
StopFollowsAssignment ==
    \A s \in Sessions : \A k \in DOMAIN stream[s] : stream[s][k].kind = "stop" =>
        LET x == <<stream[s][k].job, stream[s][k].epoch>>
        IN  /\ \A t \in Sessions : x \notin unsent[t]
            /\ \A n \in DOMAIN stream[s] :
                  stream[s][n] = Msg("assign", x) => n < k

\* Enqueueing races the cancellation of the Investigation: once it is cancelled,
\* each of its Jobs has ended or is asked to stop, also after its lease moved.
CancelReachesEveryJob ==
    ~investigating => \A j \in Jobs : status[j] \in {"pending", "leased"} => asked[j]

\* A cancellation is heard: it reaches every Job, and no Relay throws it away
\* (EnqueueVerifiedJob against CancelInvestigation, dispatchCancellations).
CancellationIsHeard == CancelReachesEveryJob /\ StopFollowsAssignment

\* "Neither lost nor recorded twice": a Job that has an outcome keeps it, whatever
\* claim, adoption, release, result or cancellation arrives late.
RecordedOnce ==
    [][\A j \in Jobs : status[j] \in Settled =>
          /\ status'[j] = status[j]
          /\ holder'[j] = None
          /\ epoch'[j] = epoch[j]
          /\ asked'[j] = asked[j]]_vars

\* Within the bounds, no Relay can be reached any more, or the Job could only go
\* on under one generation more.
OutOfReach ==
    /\ opened = MaxSessions
    /\ \A r \in Relays : link[r] = None \/ phase[link[r]] = "ended"

Exhausted(j) == epoch[j] = MaxEpoch /\ j \in Claimable

\* A Job that was not settled, or a Relay that still sends a result of it.
Unsettled(j) ==
    \/ status[j] \in {"pending", "leased"}
    \/ \E r \in Relays, n \in 1 .. MaxEpoch : <<j, n>> \in results[r]

\* Every Job is settled and no Relay sends its result for ever, although Relays
\* crash and leave, sessions are replaced and a claim may commit for a session
\* that is gone.
EveryJobSettles ==
    \A j \in Jobs : Unsettled(j) ~> ~ Unsettled(j) \/ OutOfReach \/ Exhausted(j)
=============================================================================
