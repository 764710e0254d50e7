--------------------------- MODULE RelayJobProofs ---------------------------
(***************************************************************************)
(* Whatever Jobs, Relays, replicas and bounds there are: the theorems of    *)
(* RelayJob and their proofs.                                               *)
(*                                                                          *)
(* An execution is always at one place at most: claimed by a session, on    *)
(* its way in a stream, running at a Relay, or waiting there to be          *)
(* recorded. Every step is taken apart into what it does to the rows and    *)
(* what it does to those places.                                            *)
(***************************************************************************)
EXTENDS RelayJob, TLAPS

Kinds == {"assign", "stop", "ack"}

\* What a Relay runs or has finished.
Has(r) == executing[r] \cup results[r]

\* The n-th message queued in a stream is about execution x.
Carries(s, n, kind, x) == n \in DOMAIN stream[s] /\ stream[s][n] = Msg(kind, x)

-----------------------------------------------------------------------------
(* The invariant. *)

\* A Job that does not exist has no generation, one that is leased has been given
\* one, and one that nobody leases has no holder.
RowsAreSound ==
    \A j \in Jobs : /\ status[j] = "absent" => epoch[j] = 0
                    /\ status[j] = "leased" => epoch[j] > 0
                    /\ status[j] # "leased" => holder[j] = None /\ ttl[j] = 0

\* A session that is connected has a Relay at the other end.
PeersAreRelays == \A s \in Sessions : phase[s] \in {"connected", "greeted"} => peer[s] \in Relays

\* An execution that was once claimed: its generation is past as soon as the Job
\* waits again.
Known(x) ==
    /\ 1 <= x[2] /\ x[2] <= epoch[x[1]]
    /\ status[x[1]] = "pending" => x[2] < epoch[x[1]]

AllAreKnown ==
    /\ \A s \in Sessions : \A x \in unsent[s] : Known(x)
    /\ \A r \in Relays : \A x \in Has(r) : Known(x)
    /\ \A s \in Sessions, n \in Nat, kind \in Kinds, x \in Execution :
          Carries(s, n, kind, x) => Known(x) /\ (kind = "ack" => Answerable(x))

\* What a session has claimed and not sent is leased to it, or is past.
ClaimersHold ==
    \A s \in Sessions : \A x \in unsent[s] :
        status[x[1]] = "leased" /\ epoch[x[1]] = x[2] => holder[x[1]] = s

\* An execution is at one place.
OnePlace ==
    /\ \A s, t \in Sessions : unsent[s] \cap unsent[t] # {} => s = t
    /\ \A s, t \in Sessions, n \in Nat : \A x \in unsent[s] : ~Carries(t, n, "assign", x)
    /\ \A s, t \in Sessions, k, n \in Nat, x \in Execution :
          Carries(s, k, "assign", x) /\ Carries(t, n, "assign", x) => s = t /\ k = n
    /\ \A r \in Relays : executing[r] \cap results[r] = {}
    /\ \A r \in Relays, s \in Sessions : \A x \in Has(r) :
          x \notin unsent[s] /\ \A n \in Nat : ~Carries(s, n, "assign", x)
    /\ \A q, r \in Relays : Has(q) \cap Has(r) # {} => q = r

\* A stop is behind the assignment it is about.
StopsFollow ==
    \A s \in Sessions, k \in Nat, x \in Execution : Carries(s, k, "stop", x) =>
        /\ \A t \in Sessions : x \notin unsent[t]
        /\ \A n \in Nat : Carries(s, n, "assign", x) => n < k

PlacesAreSound == AllAreKnown /\ ClaimersHold /\ OnePlace /\ StopsFollow

JobInv == TypeOK /\ RowsAreSound /\ CancelReachesEveryJob /\ PeersAreRelays /\ PlacesAreSound
-----------------------------------------------------------------------------
(* The operators. *)

LEMMA LimitFacts ==
    /\ LeaseFor \in Nat /\ LeaseFor > 0 /\ MaxEpoch \in Nat /\ MaxSessions \in Nat
    /\ None \notin Jobs /\ None \notin Relays /\ None \notin Sessions
    /\ Outcomes \subseteq Settled
BY LeaseAssumption, SizeAssumption, NoneIsNone, OutcomesAssumption DEF Sessions

\* What an execution consists of.
LEMMA ExecutionFacts ==
    ASSUME NEW x \in Execution
    PROVE  x[1] \in Jobs /\ x[2] \in 0 .. MaxEpoch /\ x[2] \in Nat /\ x = <<x[1], x[2]>>
BY LimitFacts DEF Execution

\* A message says what it is and which execution it is about.
LEMMA MsgFacts ==
    ASSUME NEW kind \in Kinds, NEW x \in Execution
    PROVE  /\ Msg(kind, x) \in Message /\ Msg(kind, x).kind = kind
           /\ \A k \in Kinds, y \in Execution : Msg(kind, x) = Msg(k, y) => kind = k /\ x = y
<1>1. /\ Msg(kind, x) \in Message /\ Msg(kind, x).kind = kind /\ Msg(kind, x).job = x[1]
      /\ Msg(kind, x).epoch = x[2]
  BY ExecutionFacts DEF Msg, Message, Kinds
<1>2. ASSUME NEW k \in Kinds, NEW y \in Execution, Msg(kind, x) = Msg(k, y)
      PROVE  kind = k /\ x = y
  <2>1. Msg(k, y).kind = k /\ Msg(k, y).job = y[1] /\ Msg(k, y).epoch = y[2]
    BY DEF Msg
  <2>2. x[1] = y[1] /\ x[2] = y[2] /\ kind = k
    BY <1>1, <1>2, <2>1
  <2> QED
    BY <2>2, ExecutionFacts
<1> QED
  BY <1>1, <1>2

\* Every message is about one execution.
LEMMA MessageFacts ==
    ASSUME NEW m \in Message
    PROVE  <<m.job, m.epoch>> \in Execution /\ m.kind \in Kinds /\ m = Msg(m.kind, <<m.job, m.epoch>>)
<1>1. m.job \in Jobs /\ m.epoch \in 0 .. MaxEpoch /\ m.kind \in Kinds
  BY DEF Message, Kinds
<1>2. m = [kind |-> m.kind, job |-> m.job, epoch |-> m.epoch]
  BY DEF Message
<1> QED
  BY <1>1, <1>2 DEF Msg, Execution

\* The types, one by one.
LEMMA TypeFacts ==
    ASSUME TypeOK
    PROVE  /\ status \in [Jobs -> JobStatus] /\ holder \in [Jobs -> Sessions \cup {None}]
           /\ epoch \in [Jobs -> 0 .. MaxEpoch] /\ ttl \in [Jobs -> 0 .. LeaseFor]
           /\ asked \in [Jobs -> BOOLEAN] /\ investigating \in BOOLEAN
           /\ phase \in [Sessions -> {"unused", "connected", "greeted", "ended"}]
           /\ unsent \in [Sessions -> SUBSET Execution] /\ stream \in [Sessions -> Seq(Message)]
           /\ executing \in [Relays -> SUBSET Execution] /\ results \in [Relays -> SUBSET Execution]
BY DEF TypeOK, RowsTypeOK, SessionsTypeOK, RelaysTypeOK

\* What a Relay has are executions.
LEMMA HasFacts ==
    ASSUME TypeOK, NEW r \in Relays
    PROVE  Has(r) \subseteq Execution
BY TypeFacts DEF Has

-----------------------------------------------------------------------------
(* What a step does to the rows. *)

\* The row of a Job goes on: an outcome is kept, a generation is never taken back,
\* waiting again or being claimed raises it, and a lease of one generation moves
\* only to a session whose Relay has its execution.
RowGoesOn(j) ==
    /\ epoch[j] <= epoch'[j]
    /\ status[j] \in Settled => /\ status'[j] = status[j] /\ holder'[j] = None
                                /\ epoch'[j] = epoch[j] /\ asked'[j] = asked[j]
    /\ status'[j] = "pending" => status[j] = "pending" \/ epoch[j] < epoch'[j] \/ epoch[j] = 0
    /\ status'[j] = "leased" /\ epoch'[j] = epoch[j] =>
          /\ status[j] = "leased"
          /\ holder'[j] = holder[j] \/ \E r \in Relays : <<j, epoch[j]>> \in Has(r)

RowsGoOn ==
    /\ RowsTypeOK' /\ RowsAreSound' /\ CancelReachesEveryJob'
    /\ \A j \in Jobs : RowGoesOn(j)

RowsInv == TypeOK /\ RowsAreSound /\ CancelReachesEveryJob

LEMMA RowsStay ==
    ASSUME RowsInv, UNCHANGED rowVars
    PROVE  RowsGoOn
<1>1. /\ status' = status /\ holder' = holder /\ epoch' = epoch /\ ttl' = ttl /\ asked' = asked
      /\ investigating' = investigating
  BY DEF rowVars
<1>2. \A j \in Jobs : RowGoesOn(j)
  BY <1>1, TypeFacts, LimitFacts DEF RowGoesOn, RowsInv, RowsAreSound, Settled
<1> QED
  BY <1>1, <1>2 DEF RowsInv, RowsGoOn, TypeOK, RowsTypeOK, RowsAreSound, CancelReachesEveryJob

LEMMA RowsEnqueue ==
    ASSUME RowsInv, NEW j \in Jobs, EnqueueVerifiedJob(j)
    PROVE  RowsGoOn
<1>0. /\ TypeOK /\ RowsAreSound /\ CancelReachesEveryJob
  BY DEF RowsInv
<1>1. /\ status[j] = "absent" /\ investigating /\ status' = [status EXCEPT ![j] = "pending"]
      /\ holder' = holder /\ epoch' = epoch /\ ttl' = ttl /\ asked' = asked
      /\ investigating' = investigating
  BY DEF EnqueueVerifiedJob
<1>2. /\ status' \in [Jobs -> JobStatus] /\ status'[j] = "pending"
      /\ \A i \in Jobs \ {j} : status'[i] = status[i]
  BY <1>0, <1>1, TypeFacts DEF JobStatus
<1>3. \A i \in Jobs : RowGoesOn(i)
  BY <1>0, <1>1, <1>2, TypeFacts, LimitFacts DEF RowGoesOn, RowsAreSound, Settled
<1>4. RowsTypeOK'
  BY <1>0, <1>1, <1>2, TypeFacts DEF RowsTypeOK
<1>5. RowsAreSound'
  BY <1>0, <1>1, <1>2 DEF RowsAreSound
<1> QED
  BY <1>0, <1>1, <1>2, <1>3, <1>4, <1>5 DEF RowsGoOn, CancelReachesEveryJob

LEMMA RowsCancelled ==
    ASSUME RowsInv, NEW S \in SUBSET Jobs, CancelRows(S),
           investigating' = investigating \/ (S = Jobs /\ investigating' = FALSE)
    PROVE  RowsGoOn
<1>0. /\ TypeOK /\ RowsAreSound /\ CancelReachesEveryJob
  BY DEF RowsInv
<1>1. /\ status' \in [Jobs -> JobStatus] /\ asked' \in [Jobs -> BOOLEAN]
      /\ holder' = holder /\ epoch' = epoch /\ ttl' = ttl /\ investigating' \in BOOLEAN
  BY <1>0, TypeFacts DEF CancelRows, JobStatus, Settled
<1>2. ASSUME NEW j \in Jobs
      PROVE  /\ status'[j] = IF j \in S /\ status[j] = "pending" THEN "cancelled" ELSE status[j]
             /\ asked'[j] = (asked[j] \/ (j \in S /\ status[j] \in {"pending", "leased"}))
  BY DEF CancelRows
<1>3. ASSUME NEW j \in Jobs PROVE RowGoesOn(j)
  BY <1>0, <1>1, <1>2, TypeFacts, LimitFacts DEF RowGoesOn, RowsAreSound, Settled
<1>4. RowsTypeOK'
  BY <1>0, <1>1, TypeFacts DEF RowsTypeOK
<1>5. RowsAreSound'
  BY <1>0, <1>1, <1>2 DEF RowsAreSound
<1>6. CancelReachesEveryJob'
  <2> SUFFICES ASSUME ~investigating', NEW j \in Jobs, status'[j] \in {"pending", "leased"}
               PROVE  asked'[j]
    BY DEF CancelReachesEveryJob
  <2>1. status[j] \in {"pending", "leased"}
    BY <1>2
  <2>2. CASE investigating' = investigating
    BY <1>0, <1>2, <2>1, <2>2 DEF CancelReachesEveryJob
  <2>3. CASE S = Jobs
    BY <1>2, <2>1, <2>3
  <2> QED
    BY <2>2, <2>3
<1> QED
  BY <1>3, <1>4, <1>5, <1>6 DEF RowsGoOn

LEMMA RowsTick ==
    ASSUME RowsInv, Tick
    PROVE  RowsGoOn
<1>0. /\ TypeOK /\ RowsAreSound /\ CancelReachesEveryJob
  BY DEF RowsInv
<1>1. /\ status' = status /\ holder' = holder /\ epoch' = epoch /\ asked' = asked
      /\ investigating' = investigating
      /\ ttl' = [j \in Jobs |-> IF ttl[j] > 0 THEN ttl[j] - 1 ELSE 0]
  BY DEF Tick
<1>2. ttl' \in [Jobs -> 0 .. LeaseFor] /\ \A j \in Jobs : ttl[j] = 0 => ttl'[j] = 0
  BY <1>0, <1>1, TypeFacts, LimitFacts
<1>3. \A i \in Jobs : RowGoesOn(i)
  BY <1>0, <1>1, TypeFacts, LimitFacts DEF RowGoesOn, RowsAreSound, Settled
<1> QED
  BY <1>0, <1>1, <1>2, <1>3, TypeFacts
     DEF RowsGoOn, RowsTypeOK, RowsAreSound, CancelReachesEveryJob

\* The leases a Relay declares move to its session.
LEMMA RowsAdopted ==
    ASSUME RowsInv, NEW s \in Sessions, NEW r \in Relays, NEW declared \in SUBSET Has(r),
           holder' = [j \in Jobs |-> IF j \in Adopted(declared) THEN s ELSE holder[j]],
           ttl' = [j \in Jobs |-> IF j \in Adopted(declared) THEN LeaseFor ELSE ttl[j]],
           UNCHANGED <<status, epoch, asked, investigating>>
    PROVE  RowsGoOn
<1>0. /\ TypeOK /\ RowsAreSound /\ CancelReachesEveryJob
  BY DEF RowsInv
<1>1. /\ holder' \in [Jobs -> Sessions \cup {None}] /\ ttl' \in [Jobs -> 0 .. LeaseFor]
  BY <1>0, TypeFacts, LimitFacts
<1>2. ASSUME NEW j \in Jobs
      PROVE  \/ holder'[j] = holder[j] /\ ttl'[j] = ttl[j]
             \/ status[j] = "leased" /\ <<j, epoch[j]>> \in Has(r)
  BY DEF Adopted
<1>3. ASSUME NEW j \in Jobs PROVE RowGoesOn(j)
  BY <1>0, <1>2, TypeFacts, LimitFacts DEF RowGoesOn, RowsAreSound, Settled
<1>4. RowsAreSound'
  BY <1>0, <1>2 DEF RowsAreSound
<1> QED
  BY <1>0, <1>1, <1>3, <1>4, TypeFacts DEF RowsGoOn, RowsTypeOK, CancelReachesEveryJob

\* Leases are given back, or taken, under the next generation.
LEMMA RowsRaised ==
    ASSUME RowsInv, NEW S \in SUBSET Jobs, NEW s \in Sessions \cup {None}, NEW t \in 0 .. LeaseFor,
           NEW next \in {"pending", "leased"}, next = "pending" => s = None /\ t = 0,
           \A j \in S : epoch[j] < MaxEpoch /\ status[j] \in {"pending", "leased"},
           status' = [j \in Jobs |-> IF j \in S THEN next ELSE status[j]],
           holder' = [j \in Jobs |-> IF j \in S THEN s ELSE holder[j]],
           ttl' = [j \in Jobs |-> IF j \in S THEN t ELSE ttl[j]],
           epoch' = [j \in Jobs |-> IF j \in S THEN epoch[j] + 1 ELSE epoch[j]],
           UNCHANGED <<asked, investigating>>
    PROVE  RowsGoOn
<1>0. /\ TypeOK /\ RowsAreSound /\ CancelReachesEveryJob
  BY DEF RowsInv
<1>1. /\ status' \in [Jobs -> JobStatus] /\ holder' \in [Jobs -> Sessions \cup {None}]
      /\ ttl' \in [Jobs -> 0 .. LeaseFor]
  BY <1>0, TypeFacts DEF JobStatus
<1>2. epoch' \in [Jobs -> 0 .. MaxEpoch]
  BY <1>0, TypeFacts, LimitFacts
<1>3. ASSUME NEW j \in Jobs PROVE RowGoesOn(j)
  <2>1. CASE j \in S
    BY <1>0, <2>1, TypeFacts, LimitFacts DEF RowGoesOn, Settled
  <2>2. CASE j \notin S
    BY <1>0, <2>2, TypeFacts, LimitFacts DEF RowGoesOn, RowsAreSound, Settled
  <2> QED
    BY <2>1, <2>2
<1>4. RowsAreSound'
  <2>1. \A j \in S : epoch'[j] = epoch[j] + 1 /\ epoch[j] \in Nat
    BY <1>0, TypeFacts, LimitFacts
  <2> QED
    BY <1>0, <2>1 DEF RowsAreSound
<1> QED
  BY <1>0, <1>1, <1>2, <1>3, <1>4, TypeFacts DEF RowsGoOn, RowsTypeOK, CancelReachesEveryJob

\* An outcome is recorded where the fence holds.
LEMMA RowsSettled ==
    ASSUME RowsInv, NEW s \in Sessions, NEW x \in Execution, Fenced(s, x),
           NEW outcome \in Settled, Settle(x[1], outcome)
    PROVE  RowsGoOn /\ Answerable(x)'
<1>0. /\ TypeOK /\ RowsAreSound /\ CancelReachesEveryJob /\ x[1] \in Jobs
  BY ExecutionFacts DEF RowsInv
<1> DEFINE j == x[1]
<1>1. /\ status' = [status EXCEPT ![j] = outcome] /\ holder' = [holder EXCEPT ![j] = None]
      /\ ttl' = [ttl EXCEPT ![j] = 0] /\ epoch' = epoch /\ asked' = asked
      /\ investigating' = investigating /\ status[j] = "leased"
  BY DEF Settle, Fenced
<1> HIDE DEF j
<1>2. /\ status' \in [Jobs -> JobStatus] /\ status'[j] = outcome /\ holder'[j] = None /\ ttl'[j] = 0
      /\ holder' \in [Jobs -> Sessions \cup {None}] /\ ttl' \in [Jobs -> 0 .. LeaseFor]
      /\ \A i \in Jobs \ {j} : status'[i] = status[i] /\ holder'[i] = holder[i] /\ ttl'[i] = ttl[i]
      /\ j \in Jobs
  <2>1. outcome \in JobStatus /\ 0 \in 0 .. LeaseFor /\ j \in Jobs
    BY <1>0, LimitFacts DEF JobStatus, j
  <2> QED
    BY <1>0, <1>1, <2>1, TypeFacts
<1>3. outcome \notin {"absent", "pending", "leased"}
  BY DEF Settled
<1>4. ASSUME NEW i \in Jobs PROVE RowGoesOn(i)
  <2>1. CASE i = j
    BY <1>0, <1>1, <1>2, <1>3, <2>1, TypeFacts, LimitFacts DEF RowGoesOn, Settled
  <2>2. CASE i # j
    BY <1>0, <1>1, <1>2, <2>2, TypeFacts, LimitFacts DEF RowGoesOn, RowsAreSound, Settled
  <2> QED
    BY <2>1, <2>2
<1>5. RowsTypeOK'
  BY <1>0, <1>1, <1>2, TypeFacts DEF RowsTypeOK
<1>6. RowsAreSound'
  BY <1>0, <1>1, <1>2, <1>3 DEF RowsAreSound
<1>7. CancelReachesEveryJob'
  BY <1>0, <1>1, <1>2, <1>3 DEF CancelReachesEveryJob
<1>8. Answerable(x)'
  BY <1>2 DEF Answerable, j
<1> QED
  BY <1>4, <1>5, <1>6, <1>7, <1>8 DEF RowsGoOn

-----------------------------------------------------------------------------
(* What a step does to the places an execution can be at. *)

LEMMA KnownStays ==
    ASSUME TypeOK, RowsGoOn, NEW x \in Execution, Known(x)
    PROVE  /\ Known(x)' /\ (Answerable(x) => Answerable(x)')
           /\ epoch'[x[1]] = x[2] => epoch[x[1]] = x[2]
<1>1. /\ x[1] \in Jobs /\ x[2] \in Nat /\ epoch[x[1]] \in Nat /\ epoch'[x[1]] \in Nat
      /\ RowGoesOn(x[1])
  BY ExecutionFacts, TypeFacts, LimitFacts DEF RowsGoOn, RowsTypeOK
<1> QED
  BY <1>1 DEF RowGoesOn, Known, Answerable

JobTypes == TypeOK /\ TypeOK' /\ RowsGoOn /\ PlacesAreSound

\* What a session has not sent is leased to it, or past, whatever the rows do.
LEMMA ClaimersGoOn ==
    ASSUME JobTypes, NEW s \in Sessions, NEW x \in unsent[s],
           status'[x[1]] = "leased", epoch'[x[1]] = x[2]
    PROVE  holder'[x[1]] = s
<1>1. x \in Execution /\ Known(x)
  BY TypeFacts DEF JobTypes, PlacesAreSound, AllAreKnown
<1>2. epoch[x[1]] = x[2] /\ RowGoesOn(x[1]) /\ <<x[1], epoch[x[1]]>> = x
  BY <1>1, KnownStays, ExecutionFacts DEF JobTypes, RowsGoOn
<1>3. \A r \in Relays : x \notin Has(r)
  BY DEF JobTypes, PlacesAreSound, OnePlace
<1>4. status[x[1]] = "leased" /\ holder'[x[1]] = holder[x[1]]
  BY <1>2, <1>3 DEF RowGoesOn
<1> QED
  BY <1>2, <1>4 DEF JobTypes, PlacesAreSound, ClaimersHold

\* Nothing moves but inside a Relay; some of it is lost.
PlacesLose ==
    /\ \A s \in Sessions : unsent'[s] \subseteq unsent[s]
    /\ \A s \in Sessions, n \in Nat, kind \in Kinds, x \in Execution :
          Carries(s, n, kind, x)' => Carries(s, n, kind, x)
    /\ \A r \in Relays : Has(r)' \subseteq Has(r) /\ executing'[r] \cap results'[r] = {}

LEMMA LosingIsSound ==
    ASSUME JobTypes, PlacesLose
    PROVE  PlacesAreSound'
<1>0. /\ TypeOK /\ TypeOK' /\ RowsGoOn /\ AllAreKnown /\ ClaimersHold /\ OnePlace /\ StopsFollow
  BY DEF JobTypes, PlacesAreSound
<1>1. \A s \in Sessions : unsent[s] \subseteq Execution
  BY <1>0, TypeFacts
<1>2. \A r \in Relays : Has(r) \subseteq Execution
  BY <1>0, HasFacts
<1>3. AllAreKnown'
  BY <1>0, <1>1, <1>2, KnownStays DEF PlacesLose, AllAreKnown
<1>4. ClaimersHold'
  BY ClaimersGoOn DEF PlacesLose, ClaimersHold
<1>5. OnePlace'
  <2>1. \A s, t \in Sessions : unsent'[s] \cap unsent'[t] # {} => s = t
    BY <1>0 DEF PlacesLose, OnePlace
  <2>2. \A s, t \in Sessions, n \in Nat : \A x \in unsent'[s] : ~Carries(t, n, "assign", x)'
    BY <1>0, <1>1 DEF PlacesLose, OnePlace, Kinds
  <2>3. \A s, t \in Sessions, k, n \in Nat, x \in Execution :
           Carries(s, k, "assign", x)' /\ Carries(t, n, "assign", x)' => s = t /\ k = n
    BY <1>0 DEF PlacesLose, OnePlace, Kinds
  <2>4. \A r \in Relays, s \in Sessions : \A x \in Has(r)' :
           x \notin unsent'[s] /\ \A n \in Nat : ~Carries(s, n, "assign", x)'
    BY <1>0, <1>2 DEF PlacesLose, OnePlace, Kinds
  <2>5. \A q, r \in Relays : Has(q)' \cap Has(r)' # {} => q = r
    BY <1>0 DEF PlacesLose, OnePlace
  <2>6. \A r \in Relays : executing'[r] \cap results'[r] = {}
    BY DEF PlacesLose
  <2> QED
    BY <2>1, <2>2, <2>3, <2>4, <2>5, <2>6 DEF OnePlace
<1>6. StopsFollow'
  BY <1>0 DEF PlacesLose, StopsFollow, Kinds
<1> QED
  BY <1>3, <1>4, <1>5, <1>6 DEF PlacesAreSound

\* A session sends a message, at the end of its stream.
PlacesSend(s, kind, x) ==
    /\ \A t \in Sessions : unsent'[t] \subseteq unsent[t]
    /\ \A t \in Sessions, n \in Nat, k \in Kinds, y \in Execution :
          Carries(t, n, k, y)' => \/ Carries(t, n, k, y)
                                  \/ t = s /\ n = Len(stream[s]) + 1 /\ k = kind /\ y = x
    /\ UNCHANGED <<executing, results>>

LEMMA SendingIsSound ==
    ASSUME JobTypes, NEW s \in Sessions, NEW kind \in Kinds, NEW x \in Execution,
           PlacesSend(s, kind, x), Known(x), kind = "ack" => Answerable(x)',
           kind = "assign" => x \in unsent[s] /\ x \notin unsent'[s],
           kind = "stop" => \A t \in Sessions : x \notin unsent[t]
    PROVE  PlacesAreSound'
<1>0. /\ TypeOK /\ TypeOK' /\ RowsGoOn /\ AllAreKnown /\ ClaimersHold /\ OnePlace /\ StopsFollow
  BY DEF JobTypes, PlacesAreSound
<1>1. \A t \in Sessions : unsent[t] \subseteq Execution
  BY <1>0, TypeFacts
<1>2. \A r \in Relays : Has(r) \subseteq Execution /\ Has(r)' = Has(r)
  BY <1>0, HasFacts DEF PlacesSend, Has
<1>3. Len(stream[s]) \in Nat /\ \A n \in Nat, k \in Kinds, y \in Execution :
         Carries(s, n, k, y) => n <= Len(stream[s])
  BY <1>0, TypeFacts DEF Carries
<1>4. AllAreKnown'
  BY <1>0, <1>1, <1>2, KnownStays DEF PlacesSend, AllAreKnown
<1>5. ClaimersHold'
  BY ClaimersGoOn DEF PlacesSend, ClaimersHold
<1>6. OnePlace'
  <2>1. \A t, u \in Sessions : unsent'[t] \cap unsent'[u] # {} => t = u
    BY <1>0 DEF PlacesSend, OnePlace
  <2>2. ASSUME NEW t \in Sessions, NEW u \in Sessions, NEW n \in Nat, NEW y \in unsent'[t],
               Carries(u, n, "assign", y)'
        PROVE  FALSE
    <3>1. y \in unsent[t] /\ y \in Execution
      BY <1>1, <2>2 DEF PlacesSend
    <3>2. kind = "assign" /\ y = x
      BY <1>0, <2>2, <3>1 DEF PlacesSend, OnePlace, Kinds
    <3>3. t = s
      BY <1>0, <3>1, <3>2 DEF OnePlace
    <3> QED
      BY <2>2, <3>2, <3>3
  <2>3. ASSUME NEW t \in Sessions, NEW u \in Sessions, NEW k \in Nat, NEW n \in Nat,
               NEW y \in Execution, Carries(t, k, "assign", y)', Carries(u, n, "assign", y)'
        PROVE  t = u /\ k = n
    <3>1. /\ \/ Carries(t, k, "assign", y)
             \/ t = s /\ k = Len(stream[s]) + 1 /\ kind = "assign" /\ y = x
          /\ \/ Carries(u, n, "assign", y)
             \/ u = s /\ n = Len(stream[s]) + 1 /\ kind = "assign" /\ y = x
      BY <2>3 DEF PlacesSend, Kinds
    <3>2. kind = "assign" => ~Carries(t, k, "assign", x) /\ ~Carries(u, n, "assign", x)
      BY <1>0 DEF OnePlace
    <3>3. CASE Carries(t, k, "assign", y) /\ Carries(u, n, "assign", y)
      BY <1>0, <3>3 DEF OnePlace
    <3> QED
      BY <3>1, <3>2, <3>3
  <2>4. ASSUME NEW r \in Relays, NEW t \in Sessions, NEW y \in Has(r)
        PROVE  y \notin unsent'[t] /\ \A n \in Nat : ~Carries(t, n, "assign", y)'
    <3>1. y \in Execution /\ y \notin unsent[t] /\ y \notin unsent[s]
          /\ \A n \in Nat : ~Carries(t, n, "assign", y)
      BY <1>0, <1>2 DEF OnePlace
    <3> QED
      BY <3>1 DEF PlacesSend, Kinds
  <2>5. /\ \A q, r \in Relays : Has(q) \cap Has(r) # {} => q = r
        /\ \A r \in Relays : executing'[r] \cap results'[r] = {}
    BY <1>0 DEF PlacesSend, OnePlace
  <2> QED
    BY <1>2, <2>1, <2>2, <2>3, <2>4, <2>5 DEF OnePlace
<1>7. StopsFollow'
  <2> SUFFICES ASSUME NEW t \in Sessions, NEW k \in Nat, NEW y \in Execution,
                      Carries(t, k, "stop", y)'
               PROVE  /\ \A u \in Sessions : y \notin unsent'[u]
                      /\ \A n \in Nat : Carries(t, n, "assign", y)' => n < k
    BY DEF StopsFollow
  <2>1. CASE Carries(t, k, "stop", y)
    <3>1. /\ \A u \in Sessions : y \notin unsent[u]
          /\ \A n \in Nat : Carries(t, n, "assign", y) => n < k
      BY <1>0, <2>1 DEF StopsFollow
    <3>2. kind = "assign" => y # x
      BY <3>1
    <3> QED
      BY <3>1, <3>2 DEF PlacesSend, Kinds
  <2>2. CASE t = s /\ k = Len(stream[s]) + 1 /\ kind = "stop" /\ y = x
    <3>1. \A n \in Nat : Carries(t, n, "assign", y)' => Carries(t, n, "assign", y)
      BY <2>2 DEF PlacesSend, Kinds
    <3>2. \A n \in Nat : Carries(t, n, "assign", y) => n < k
      BY <1>3, <2>2 DEF Kinds
    <3> QED
      BY <2>2, <3>1, <3>2 DEF PlacesSend
  <2> QED
    BY <2>1, <2>2 DEF PlacesSend, Kinds
<1> QED
  BY <1>4, <1>5, <1>6, <1>7 DEF PlacesAreSound

\* A session claims Jobs: executions nobody has heard of.
LEMMA ClaimingIsSound ==
    ASSUME JobTypes, NEW s \in Sessions, NEW S \in SUBSET Jobs, unsent[s] = {},
           unsent' = [unsent EXCEPT ![s] = {<<j, epoch'[j]>> : j \in S}],
           \A j \in S : epoch'[j] = epoch[j] + 1 /\ status'[j] = "leased" /\ holder'[j] = s,
           UNCHANGED <<stream, executing, results>>
    PROVE  PlacesAreSound'
<1>0. /\ TypeOK /\ TypeOK' /\ RowsGoOn /\ AllAreKnown /\ ClaimersHold /\ OnePlace /\ StopsFollow
  BY DEF JobTypes, PlacesAreSound
<1>1. /\ unsent'[s] = {<<j, epoch'[j]>> : j \in S}
      /\ \A t \in Sessions \ {s} : unsent'[t] = unsent[t]
      /\ \A t \in Sessions : unsent[t] \subseteq Execution /\ unsent'[t] \subseteq Execution
  BY <1>0, TypeFacts DEF TypeOK, SessionsTypeOK
<1>2. \A r \in Relays : Has(r) \subseteq Execution /\ Has(r)' = Has(r)
  BY <1>0, HasFacts DEF Has
<1>3. \A t \in Sessions, n \in Nat, k \in Kinds, y \in Execution :
         Carries(t, n, k, y)' <=> Carries(t, n, k, y)
  BY DEF Carries
<1>4. ASSUME NEW x \in unsent'[s]
      PROVE  /\ x \in Execution /\ ~Known(x) /\ Known(x)'
             /\ status'[x[1]] = "leased" /\ holder'[x[1]] = s
  <2>1. PICK j \in S : x = <<j, epoch'[j]>>
    BY <1>1
  <2>2. x[1] = j /\ x[2] = epoch[j] + 1 /\ epoch[j] \in Nat /\ epoch'[j] = epoch[j] + 1
    BY <1>0, <2>1, TypeFacts, LimitFacts
  <2> QED
    BY <1>1, <2>2 DEF Known
<1>5. ASSUME NEW x \in unsent'[s]
      PROVE  /\ \A t \in Sessions : x \notin unsent[t]
             /\ \A r \in Relays : x \notin Has(r)
             /\ \A t \in Sessions, n \in Nat, k \in Kinds : ~Carries(t, n, k, x)
  BY <1>0, <1>4 DEF AllAreKnown
<1>6. AllAreKnown'
  <2>1. ASSUME NEW t \in Sessions, NEW x \in unsent'[t] PROVE Known(x)'
    BY <1>0, <1>1, <1>4, KnownStays DEF AllAreKnown
  <2>2. \A r \in Relays : \A x \in Has(r)' : Known(x)'
    BY <1>0, <1>2, KnownStays DEF AllAreKnown
  <2>3. \A t \in Sessions, n \in Nat, kind \in Kinds, x \in Execution :
           Carries(t, n, kind, x)' => Known(x)' /\ (kind = "ack" => Answerable(x)')
    BY <1>0, <1>3, KnownStays DEF AllAreKnown
  <2> QED
    BY <2>1, <2>2, <2>3 DEF AllAreKnown
<1>7. ClaimersHold'
  BY <1>1, <1>4, ClaimersGoOn DEF ClaimersHold
<1>8. OnePlace'
  <2>1. \A t, u \in Sessions : unsent'[t] \cap unsent'[u] # {} => t = u
    BY <1>0, <1>1, <1>5 DEF OnePlace
  <2>2. \A t, u \in Sessions, n \in Nat : \A x \in unsent'[t] : ~Carries(u, n, "assign", x)'
    BY <1>0, <1>1, <1>3, <1>5 DEF OnePlace, Kinds
  <2>3. \A t, u \in Sessions, k, n \in Nat, x \in Execution :
           Carries(t, k, "assign", x)' /\ Carries(u, n, "assign", x)' => t = u /\ k = n
    BY <1>0, <1>3 DEF OnePlace, Kinds
  <2>4. ASSUME NEW r \in Relays, NEW t \in Sessions, NEW x \in Has(r)
        PROVE  x \notin unsent'[t] /\ \A n \in Nat : ~Carries(t, n, "assign", x)'
    <3>1. x \in Execution /\ x \notin unsent[t] /\ \A n \in Nat : ~Carries(t, n, "assign", x)
      BY <1>0, <1>2 DEF OnePlace
    <3> QED
      BY <1>1, <1>3, <1>5, <3>1 DEF Kinds
  <2>5. /\ \A q, r \in Relays : Has(q) \cap Has(r) # {} => q = r
        /\ \A r \in Relays : executing'[r] \cap results'[r] = {}
    BY <1>0 DEF OnePlace
  <2> QED
    BY <1>2, <2>1, <2>2, <2>3, <2>4, <2>5 DEF OnePlace
<1>9. StopsFollow'
  <2> SUFFICES ASSUME NEW t \in Sessions, NEW k \in Nat, NEW y \in Execution,
                      Carries(t, k, "stop", y)'
               PROVE  /\ \A u \in Sessions : y \notin unsent'[u]
                      /\ \A n \in Nat : Carries(t, n, "assign", y)' => n < k
    BY DEF StopsFollow
  <2>1. Carries(t, k, "stop", y)
    BY <1>3 DEF Kinds
  <2>2. /\ \A u \in Sessions : y \notin unsent[u]
        /\ \A n \in Nat : Carries(t, n, "assign", y) => n < k
    BY <1>0, <2>1 DEF StopsFollow
  <2> QED
    BY <1>1, <1>3, <1>5, <2>1, <2>2 DEF Kinds
<1> QED
  BY <1>6, <1>7, <1>8, <1>9 DEF PlacesAreSound

\* A Relay reads the oldest message of its stream.
LEMMA ReceivingIsSound ==
    ASSUME JobTypes, NEW s \in Sessions, NEW r \in Relays, NEW kind \in Kinds, NEW x \in Execution,
           Carries(s, 1, kind, x), UNCHANGED unsent,
           \A t \in Sessions, n \in Nat, k \in Kinds, y \in Execution :
              Carries(t, n, k, y)' => Carries(t, IF t = s THEN n + 1 ELSE n, k, y),
           \A q \in Relays \ {r} : Has(q)' = Has(q) /\ executing'[q] \cap results'[q] = {},
           Has(r)' \subseteq Has(r) \cup {x}, kind # "assign" => Has(r)' \subseteq Has(r),
           executing'[r] \cap results'[r] = {}
    PROVE  PlacesAreSound'
<1>0. /\ TypeOK /\ TypeOK' /\ RowsGoOn /\ AllAreKnown /\ ClaimersHold /\ OnePlace /\ StopsFollow
  BY DEF JobTypes, PlacesAreSound
<1>1. \A t \in Sessions : unsent[t] \subseteq Execution
  BY <1>0, TypeFacts
<1>2. \A q \in Relays : Has(q) \subseteq Execution
  BY <1>0, HasFacts
<1>3. Known(x)
  BY <1>0 DEF AllAreKnown
<1>4. AllAreKnown'
  <2>1. \A t \in Sessions : \A y \in unsent'[t] : Known(y)'
    BY <1>0, <1>1, KnownStays DEF AllAreKnown
  <2>2. ASSUME NEW q \in Relays, NEW y \in Has(q)' PROVE Known(y)'
    BY <1>0, <1>2, <1>3, KnownStays DEF AllAreKnown
  <2>3. ASSUME NEW t \in Sessions, NEW n \in Nat, NEW k \in Kinds, NEW y \in Execution,
               Carries(t, n, k, y)'
        PROVE  Known(y)' /\ (k = "ack" => Answerable(y)')
    <3>1. PICK i \in Nat : Carries(t, i, k, y)
      BY <2>3
    <3> QED
      BY <1>0, <3>1, KnownStays DEF AllAreKnown
  <2> QED
    BY <2>1, <2>2, <2>3 DEF AllAreKnown
<1>5. ClaimersHold'
  BY ClaimersGoOn DEF ClaimersHold
<1>6. kind = "assign" =>
         /\ \A t \in Sessions : x \notin unsent[t]
         /\ \A t \in Sessions, n \in Nat : ~Carries(t, n, "assign", x)'
         /\ \A q \in Relays : x \notin Has(q)
  <2> SUFFICES ASSUME kind = "assign"
               PROVE  /\ \A t \in Sessions : x \notin unsent[t]
                      /\ \A t \in Sessions, n \in Nat : ~Carries(t, n, "assign", x)'
                      /\ \A q \in Relays : x \notin Has(q)
    OBVIOUS
  <2>1. Carries(s, 1, "assign", x) /\ 1 \in Nat
    OBVIOUS
  <2>2. ASSUME NEW t \in Sessions, NEW n \in Nat, Carries(t, n, "assign", x)' PROVE FALSE
    <3>1. PICK i \in Nat : Carries(t, i, "assign", x) /\ (t = s => i = n + 1)
      BY <2>2 DEF Kinds
    <3>2. t = s /\ i = 1
      BY <1>0, <2>1, <3>1 DEF OnePlace
    <3>3. Carries(s, 0, "assign", x)'
      BY <2>2, <3>1, <3>2
    <3> QED
      BY <1>0, <3>3, TypeFacts DEF Carries, TypeOK, SessionsTypeOK
  <2> QED
    BY <1>0, <2>1, <2>2 DEF OnePlace
<1>7. OnePlace'
  <2>1. \A t, u \in Sessions : unsent'[t] \cap unsent'[u] # {} => t = u
    BY <1>0 DEF OnePlace
  <2>2. \A t, u \in Sessions, n \in Nat : \A y \in unsent'[t] : ~Carries(u, n, "assign", y)'
    <3> SUFFICES ASSUME NEW t \in Sessions, NEW u \in Sessions, NEW n \in Nat, NEW y \in unsent[t],
                        Carries(u, n, "assign", y)'
                 PROVE  FALSE
      OBVIOUS
    <3>1. PICK i \in Nat : Carries(u, i, "assign", y)
      BY <1>1 DEF Kinds
    <3> QED
      BY <1>0, <3>1 DEF OnePlace
  <2>3. ASSUME NEW t \in Sessions, NEW u \in Sessions, NEW k \in Nat, NEW n \in Nat,
               NEW y \in Execution, Carries(t, k, "assign", y)', Carries(u, n, "assign", y)'
        PROVE  t = u /\ k = n
    <3>1. PICK i \in Nat : Carries(t, i, "assign", y) /\ i = IF t = s THEN k + 1 ELSE k
      BY <2>3 DEF Kinds
    <3>2. PICK m \in Nat : Carries(u, m, "assign", y) /\ m = IF u = s THEN n + 1 ELSE n
      BY <2>3 DEF Kinds
    <3>3. t = u /\ i = m
      BY <1>0, <3>1, <3>2 DEF OnePlace
    <3> QED
      BY <3>1, <3>2, <3>3
  <2>4. ASSUME NEW q \in Relays, NEW t \in Sessions, NEW y \in Has(q)'
        PROVE  y \notin unsent'[t] /\ \A n \in Nat : ~Carries(t, n, "assign", y)'
    <3>1. CASE kind = "assign" /\ y = x
      BY <1>6, <3>1
    <3>2. CASE y \in Has(q)
      <4>1. y \in Execution /\ y \notin unsent[t] /\ \A n \in Nat : ~Carries(t, n, "assign", y)
        BY <1>0, <1>2, <3>2 DEF OnePlace
      <4>2. ASSUME NEW n \in Nat, Carries(t, n, "assign", y)' PROVE FALSE
        <5>1. PICK i \in Nat : Carries(t, i, "assign", y)
          BY <4>1, <4>2 DEF Kinds
        <5> QED
          BY <4>1, <5>1
      <4> QED
        BY <4>1, <4>2
    <3> QED
      BY <3>1, <3>2
  <2>5. \A p, q \in Relays : Has(p)' \cap Has(q)' # {} => p = q
    <3>1. \A p, q \in Relays : Has(p) \cap Has(q) # {} => p = q
      BY <1>0 DEF OnePlace
    <3> QED
      BY <1>6, <3>1
  <2>6. \A q \in Relays : executing'[q] \cap results'[q] = {}
    OBVIOUS
  <2> QED
    BY <2>1, <2>2, <2>3, <2>4, <2>5, <2>6 DEF OnePlace
<1>8. StopsFollow'
  <2> SUFFICES ASSUME NEW t \in Sessions, NEW k \in Nat, NEW y \in Execution,
                      Carries(t, k, "stop", y)'
               PROVE  /\ \A u \in Sessions : y \notin unsent'[u]
                      /\ \A n \in Nat : Carries(t, n, "assign", y)' => n < k
    BY DEF StopsFollow
  <2>1. PICK i \in Nat : Carries(t, i, "stop", y) /\ i = IF t = s THEN k + 1 ELSE k
    BY DEF Kinds
  <2>2. /\ \A u \in Sessions : y \notin unsent[u]
        /\ \A n \in Nat : Carries(t, n, "assign", y) => n < i
    BY <1>0, <2>1 DEF StopsFollow
  <2>3. ASSUME NEW n \in Nat, Carries(t, n, "assign", y)' PROVE n < k
    <3>1. PICK m \in Nat : Carries(t, m, "assign", y) /\ m = IF t = s THEN n + 1 ELSE n
      BY <2>3 DEF Kinds
    <3> QED
      BY <2>1, <2>2, <3>1
  <2> QED
    BY <2>2, <2>3
<1> QED
  BY <1>4, <1>5, <1>7, <1>8 DEF PlacesAreSound

-----------------------------------------------------------------------------
(* Each action. *)

\* What an action has to show.
LEMMA StepIsSound ==
    ASSUME JobInv, RowsGoOn, SessionsTypeOK', RelaysTypeOK', PeersAreRelays',
           JobTypes => PlacesAreSound'
    PROVE  RowsGoOn /\ JobInv'
BY DEF JobInv, JobTypes, RowsGoOn, TypeOK

\* The rows and the invariant that they need.
LEMMA RowsInvHolds == JobInv => RowsInv
BY DEF JobInv, RowsInv

\* Sessions end: their claims are forgotten.
LEMMA EndFacts ==
    ASSUME TypeOK, NEW S \in SUBSET Sessions, EndFields(S)
    PROVE  /\ unsent' \in [Sessions -> SUBSET Execution] /\ told' \in [Sessions -> SUBSET Execution]
           /\ late' \in [Sessions -> BOOLEAN] /\ releasing' \in [Sessions -> BOOLEAN]
           /\ \A s \in Sessions : unsent'[s] \subseteq unsent[s]
<1>1. /\ unsent' = [s \in Sessions |-> IF s \in S THEN {} ELSE unsent[s]]
      /\ told' = [s \in Sessions |-> IF s \in S THEN {} ELSE told[s]]
  BY DEF EndFields
<1>2. PICK claims \in SUBSET {s \in S : phase[s] = "greeted"}, releases \in SUBSET S :
         /\ late' = [s \in Sessions |-> late[s] \/ s \in claims]
         /\ releasing' = [s \in Sessions |-> releasing[s] /\ (s \in S => s \in releases)]
  BY DEF EndFields
<1>3. late' \in [Sessions -> BOOLEAN] /\ releasing' \in [Sessions -> BOOLEAN]
  BY <1>2
<1>4. unsent \in [Sessions -> SUBSET Execution] /\ told \in [Sessions -> SUBSET Execution]
  BY DEF TypeOK, SessionsTypeOK
<1> QED
  BY <1>1, <1>3, <1>4

\* A message that is queued, or lost because nobody reads.
LEMMA SendFacts ==
    ASSUME TypeOK, NEW s \in Sessions, NEW kind \in Kinds, NEW x \in Execution,
           Send(s, Msg(kind, x))
    PROVE  /\ stream' \in [Sessions -> Seq(Message)]
           /\ \A t \in Sessions, n \in Nat, k \in Kinds, y \in Execution :
                 Carries(t, n, k, y)' => \/ Carries(t, n, k, y)
                                         \/ t = s /\ n = Len(stream[s]) + 1 /\ k = kind /\ y = x
<1> DEFINE m == Msg(kind, x)
<1>1. m \in Message /\ stream \in [Sessions -> Seq(Message)]
  BY MsgFacts, TypeFacts
<1>2. stream' = stream \/ stream' = [stream EXCEPT ![s] = Append(stream[s], m)]
  BY DEF Send
<1>3. \A k \in Kinds, y \in Execution : m = Msg(k, y) => kind = k /\ x = y
  BY MsgFacts
<1> HIDE DEF m
<1>4. CASE stream' = stream
  BY <1>1, <1>4 DEF Carries
<1>5. CASE stream' = [stream EXCEPT ![s] = Append(stream[s], m)]
  <2>1. /\ stream' \in [Sessions -> Seq(Message)] /\ stream'[s] = Append(stream[s], m)
        /\ \A t \in Sessions \ {s} : stream'[t] = stream[t]
    BY <1>1, <1>5
  <2>2. /\ stream[s] \in Seq(Message) /\ Len(stream[s]) \in Nat
        /\ DOMAIN stream'[s] = 1 .. Len(stream[s]) + 1
        /\ \A n \in 1 .. Len(stream[s]) : stream'[s][n] = stream[s][n]
        /\ stream'[s][Len(stream[s]) + 1] = m
    BY <1>1, <2>1
  <2>3. ASSUME NEW t \in Sessions, NEW n \in Nat, NEW k \in Kinds, NEW y \in Execution,
               Carries(t, n, k, y)'
        PROVE  \/ Carries(t, n, k, y)
               \/ t = s /\ n = Len(stream[s]) + 1 /\ k = kind /\ y = x
    <3>0. n \in DOMAIN stream'[t] /\ stream'[t][n] = Msg(k, y)
      BY <2>3 DEF Carries, Msg
    <3>1. CASE t # s
      BY <2>1, <3>0, <3>1 DEF Carries
    <3>2. CASE t = s /\ n <= Len(stream[s])
      BY <2>2, <3>0, <3>2 DEF Carries
    <3>3. CASE t = s /\ n = Len(stream[s]) + 1
      BY <1>3, <2>2, <3>0, <3>3
    <3> QED
      BY <2>2, <3>0, <3>1, <3>2, <3>3
  <2> QED
    BY <2>1, <2>3
<1> QED
  BY <1>2, <1>4, <1>5

\* Streams that are cut lose what they carried.
LEMMA CutFacts ==
    ASSUME TypeOK, \A s \in Sessions : stream'[s] \in {stream[s], <<>>},
           stream' = [s \in Sessions |-> stream'[s]]
    PROVE  /\ stream' \in [Sessions -> Seq(Message)]
           /\ \A s \in Sessions, n \in Nat, kind \in Kinds, x \in Execution :
                 Carries(s, n, kind, x)' => Carries(s, n, kind, x)
<1>1. stream \in [Sessions -> Seq(Message)] /\ <<>> \in Seq(Message) /\ DOMAIN <<>> = {}
  BY TypeFacts
<1>2. \A s \in Sessions : stream'[s] \in Seq(Message)
  BY <1>1
<1>3. ASSUME NEW s \in Sessions, NEW n \in Nat, NEW kind \in Kinds, NEW x \in Execution,
             Carries(s, n, kind, x)'
      PROVE  Carries(s, n, kind, x)
  <2>1. n \in DOMAIN stream'[s] /\ stream'[s][n] = Msg(kind, x)
    BY <1>3 DEF Carries, Msg
  <2>2. stream'[s] = stream[s]
    BY <1>1, <2>1
  <2> QED
    BY <2>1, <2>2 DEF Carries
<1> QED
  BY <1>2, <1>3

LEMMA JobInvInit == Init => JobInv
<1> SUFFICES ASSUME Init PROVE JobInv
  OBVIOUS
<1> USE LimitFacts DEF Init
<1>1. RowsTypeOK
  BY DEF RowsTypeOK, JobStatus
<1>2. SessionsTypeOK
  <2>1. <<>> \in Seq(Message)
    OBVIOUS
  <2> QED
    BY <2>1 DEF SessionsTypeOK
<1>3. RelaysTypeOK
  BY DEF RelaysTypeOK
<1>4. RowsAreSound /\ CancelReachesEveryJob /\ PeersAreRelays
  BY DEF RowsAreSound, CancelReachesEveryJob, PeersAreRelays
<1>5. /\ \A s \in Sessions, n \in Nat, kind \in Kinds, x \in Execution : ~Carries(s, n, kind, x)
      /\ \A r \in Relays : Has(r) = {} /\ executing[r] \cap results[r] = {}
      /\ \A s \in Sessions : unsent[s] = {}
  BY DEF Carries, Has
<1> HIDE DEF Init
<1>6. PlacesAreSound
  BY <1>5 DEF PlacesAreSound, AllAreKnown, ClaimersHold, OnePlace, StopsFollow, Kinds
<1> QED
  BY <1>1, <1>2, <1>3, <1>4, <1>6 DEF JobInv, TypeOK

\* Only the rows change.
LEMMA RowStepKeepsInv ==
    ASSUME JobInv, RowsGoOn, UNCHANGED <<sessionVars, stream, relayVars>>
    PROVE  RowsGoOn /\ JobInv'
<1>1. /\ UNCHANGED <<opened, phase, peer, live, releasing, late, unsent, told>>
      /\ UNCHANGED <<stream, link, executing, results>>
  BY DEF sessionVars, relayVars
<1>2. SessionsTypeOK' /\ RelaysTypeOK' /\ PeersAreRelays'
  BY <1>1 DEF JobInv, TypeOK, SessionsTypeOK, RelaysTypeOK, PeersAreRelays
<1>3. PlacesLose
  BY <1>1 DEF PlacesLose, Carries, Has, JobInv, PlacesAreSound, OnePlace
<1> QED
  BY <1>2, <1>3, StepIsSound, LosingIsSound

\* Places only lose, whatever the rows do.
LEMMA LosingKeepsInv ==
    ASSUME JobInv, RowsGoOn, SessionsTypeOK', RelaysTypeOK', PeersAreRelays', PlacesLose
    PROVE  RowsGoOn /\ JobInv'
BY StepIsSound, LosingIsSound

LEMMA ConnectKeepsInv ==
    ASSUME JobInv, NEW r \in Relays, NEW p \in Replicas, Connect(r, p)
    PROVE  RowsGoOn /\ JobInv'
<1> DEFINE s == opened + 1
           displaced == {live[p]} \ {None}
<1>0. /\ TypeOK /\ RowsInv /\ opened \in 0 .. MaxSessions /\ live \in [Replicas -> Sessions \cup {None}]
      /\ peer \in [Sessions -> Relays \cup {None}] /\ link \in [Relays -> Sessions \cup {None}]
      /\ phase \in [Sessions -> {"unused", "connected", "greeted", "ended"}] /\ PeersAreRelays
      /\ executing \in [Relays -> SUBSET Execution] /\ results \in [Relays -> SUBSET Execution]
      /\ OnePlace
  BY RowsInvHolds DEF JobInv, TypeOK, SessionsTypeOK, RelaysTypeOK, PlacesAreSound
<1>1. /\ opened < MaxSessions /\ opened' = s /\ peer' = [peer EXCEPT ![s] = r]
      /\ phase' = [t \in Sessions |-> IF t = s THEN "connected"
                                      ELSE IF t \in displaced THEN "ended" ELSE phase[t]]
      /\ live' = [live EXCEPT ![p] = s] /\ link' = [link EXCEPT ![r] = s]
      /\ stream' = [t \in Sessions |-> IF t = link[r] THEN <<>> ELSE stream[t]]
      /\ EndFields(displaced) /\ UNCHANGED <<executing, results>> /\ UNCHANGED rowVars
  BY DEF Connect
<1>2. s \in Sessions /\ s \in 0 .. MaxSessions /\ displaced \in SUBSET Sessions
  BY <1>0, <1>1, LimitFacts DEF Sessions
<1> HIDE DEF s, displaced
<1>3. /\ unsent' \in [Sessions -> SUBSET Execution] /\ told' \in [Sessions -> SUBSET Execution]
      /\ late' \in [Sessions -> BOOLEAN] /\ releasing' \in [Sessions -> BOOLEAN]
      /\ \A t \in Sessions : unsent'[t] \subseteq unsent[t]
  BY <1>0, <1>1, <1>2, EndFacts
<1>4. /\ stream' \in [Sessions -> Seq(Message)]
      /\ \A t \in Sessions, n \in Nat, kind \in Kinds, x \in Execution :
            Carries(t, n, kind, x)' => Carries(t, n, kind, x)
  <2>1. /\ \A t \in Sessions : stream'[t] \in {stream[t], <<>>}
        /\ stream' = [t \in Sessions |-> stream'[t]]
    BY <1>1
  <2> QED
    BY <1>0, <2>1, CutFacts
<1>5. SessionsTypeOK' /\ RelaysTypeOK'
  BY <1>0, <1>1, <1>2, <1>3, <1>4 DEF SessionsTypeOK, RelaysTypeOK
<1>6. PeersAreRelays'
  BY <1>0, <1>1, <1>2 DEF PeersAreRelays
<1>7. PlacesLose
  BY <1>0, <1>1, <1>3, <1>4 DEF PlacesLose, Has, OnePlace
<1> QED
  BY <1>0, <1>1, <1>5, <1>6, <1>7, LosingKeepsInv, RowsStay

\* The part of EndSession and of a refused acknowledgement that ends a session.
LEMMA EndingFacts ==
    ASSUME JobInv, NEW s \in Sessions, EndFields({s}), phase' = [phase EXCEPT ![s] = "ended"],
           live' = [p \in Replicas |-> IF live[p] = s THEN None ELSE live[p]],
           UNCHANGED <<opened, peer, stream, relayVars>>
    PROVE  SessionsTypeOK' /\ RelaysTypeOK' /\ PeersAreRelays' /\ PlacesLose
<1>0. /\ TypeOK /\ SessionsTypeOK /\ RelaysTypeOK /\ PeersAreRelays /\ OnePlace
      /\ UNCHANGED <<link, executing, results>>
  BY DEF JobInv, TypeOK, PlacesAreSound, relayVars
<1>1. /\ unsent' \in [Sessions -> SUBSET Execution] /\ told' \in [Sessions -> SUBSET Execution]
      /\ late' \in [Sessions -> BOOLEAN] /\ releasing' \in [Sessions -> BOOLEAN]
      /\ \A t \in Sessions : unsent'[t] \subseteq unsent[t]
  BY <1>0, EndFacts
<1>2. SessionsTypeOK' /\ RelaysTypeOK'
  BY <1>0, <1>1 DEF SessionsTypeOK, RelaysTypeOK
<1>3. PeersAreRelays'
  BY <1>0 DEF PeersAreRelays, SessionsTypeOK
<1>4. PlacesLose
  BY <1>0, <1>1 DEF PlacesLose, Has, Carries, OnePlace
<1> QED
  BY <1>2, <1>3, <1>4

LEMMA EndKeepsInv ==
    ASSUME JobInv, NEW s \in Sessions, EndSession(s)
    PROVE  RowsGoOn /\ JobInv'
<1>1. SessionsTypeOK' /\ RelaysTypeOK' /\ PeersAreRelays' /\ PlacesLose
  BY EndingFacts DEF EndSession
<1>2. RowsGoOn
  BY RowsInvHolds, RowsStay DEF EndSession
<1> QED
  BY <1>1, <1>2, LosingKeepsInv

\* A Relay declares what it has, and the session adopts it.
LEMMA GreetKeepsInv ==
    ASSUME JobInv, NEW s \in Sessions, Greet(s)
    PROVE  RowsGoOn /\ JobInv'
<1>0. /\ TypeOK /\ SessionsTypeOK /\ RelaysTypeOK /\ PeersAreRelays /\ OnePlace /\ RowsInv
  BY RowsInvHolds DEF JobInv, TypeOK, PlacesAreSound
<1>1. /\ phase[s] \in {"connected", "greeted"} /\ phase' = [phase EXCEPT ![s] = "greeted"]
      /\ UNCHANGED <<status, epoch, asked, investigating, opened, peer, live, late, unsent, told>>
      /\ UNCHANGED <<stream, link, executing, results>>
  BY DEF Greet, relayVars
<1>2. peer[s] \in Relays
  BY <1>0, <1>1 DEF PeersAreRelays
<1>3. PICK roster \in Roster(peer[s]) : \E declared \in SUBSET roster :
         LET all == declared = roster
                    /\ Cardinality(Adopted(declared)) = Cardinality(declared)
         IN  /\ holder' = [j \in Jobs |-> IF j \in Adopted(declared) THEN s ELSE holder[j]]
             /\ ttl' = [j \in Jobs |-> IF j \in Adopted(declared) THEN LeaseFor ELSE ttl[j]]
             /\ \E contested \in BOOLEAN : releasing' = [releasing EXCEPT ![s] = all /\ ~contested]
  BY DEF Greet
<1>4. PICK declared \in SUBSET roster :
         /\ holder' = [j \in Jobs |-> IF j \in Adopted(declared) THEN s ELSE holder[j]]
         /\ ttl' = [j \in Jobs |-> IF j \in Adopted(declared) THEN LeaseFor ELSE ttl[j]]
         /\ \E b \in BOOLEAN : releasing' = [releasing EXCEPT ![s] = b]
  BY <1>3
<1>5. declared \in SUBSET Has(peer[s])
  BY <1>3, <1>4 DEF Roster, Has
<1>6. RowsGoOn
  BY <1>0, <1>1, <1>2, <1>4, <1>5, RowsAdopted
<1>7. SessionsTypeOK' /\ RelaysTypeOK'
  BY <1>0, <1>1, <1>4 DEF SessionsTypeOK, RelaysTypeOK
<1>8. PeersAreRelays'
  BY <1>0, <1>1, <1>2 DEF PeersAreRelays, SessionsTypeOK
<1>9. PlacesLose
  BY <1>0, <1>1 DEF PlacesLose, Has, Carries, OnePlace
<1> QED
  BY <1>6, <1>7, <1>8, <1>9, LosingKeepsInv

\* What is given back is given back under another generation.
LEMMA ReleaseKeepsInv ==
    ASSUME JobInv, NEW s \in Sessions, ReleaseStrandedLeases(s)
    PROVE  RowsGoOn /\ JobInv'
<1>0. /\ TypeOK /\ SessionsTypeOK /\ RelaysTypeOK /\ PeersAreRelays /\ OnePlace /\ RowsInv
  BY RowsInvHolds DEF JobInv, TypeOK, PlacesAreSound
<1>1. PICK S \in SUBSET Jobs :
         /\ \A j \in S : epoch[j] < MaxEpoch /\ status[j] \in {"pending", "leased"}
         /\ status' = [j \in Jobs |-> IF j \in S THEN "pending" ELSE status[j]]
         /\ holder' = [j \in Jobs |-> IF j \in S THEN None ELSE holder[j]]
         /\ ttl' = [j \in Jobs |-> IF j \in S THEN 0 ELSE ttl[j]]
         /\ epoch' = [j \in Jobs |-> IF j \in S THEN epoch[j] + 1 ELSE epoch[j]]
  <2>1. Stranded(s) \in SUBSET Jobs /\ \A j \in Stranded(s) : status[j] \in {"pending", "leased"}
    BY DEF Stranded
  <2> QED
    BY <2>1 DEF ReleaseStrandedLeases
<1>2. /\ UNCHANGED <<asked, investigating, opened, phase, peer, live, late, unsent, told>>
      /\ UNCHANGED <<stream, link, executing, results>>
      /\ releasing' = [releasing EXCEPT ![s] = FALSE]
  BY DEF ReleaseStrandedLeases, relayVars
<1>3. RowsGoOn
  <2>1. None \in Sessions \cup {None} /\ 0 \in 0 .. LeaseFor
    BY LimitFacts
  <2> QED
    BY <1>0, <1>1, <1>2, <2>1, RowsRaised
<1>4. SessionsTypeOK' /\ RelaysTypeOK' /\ PeersAreRelays'
  BY <1>0, <1>2 DEF SessionsTypeOK, RelaysTypeOK, PeersAreRelays
<1>5. PlacesLose
  BY <1>0, <1>2 DEF PlacesLose, Has, Carries, OnePlace
<1> QED
  BY <1>3, <1>4, <1>5, LosingKeepsInv

\* A claim makes executions that are new.
LEMMA ClaimKeepsInv ==
    ASSUME JobInv, NEW s \in Sessions, ClaimJobs(s)
    PROVE  RowsGoOn /\ JobInv'
<1>0. /\ TypeOK /\ SessionsTypeOK /\ RelaysTypeOK /\ PeersAreRelays /\ OnePlace /\ RowsInv
  BY RowsInvHolds DEF JobInv, TypeOK, PlacesAreSound
<1>1. PICK S \in SUBSET Claimable :
         /\ Take(s, S)
         /\ \/ unsent' = [unsent EXCEPT ![s] = {<<j, epoch'[j]>> : j \in S}] /\ UNCHANGED late
            \/ late' = [late EXCEPT ![s] = FALSE] /\ UNCHANGED unsent
  BY DEF ClaimJobs
<1>2. /\ unsent[s] = {} /\ UNCHANGED <<opened, phase, peer, live, releasing, told>>
      /\ UNCHANGED <<stream, link, executing, results>>
  BY DEF ClaimJobs, relayVars
<1>3. S \in SUBSET Jobs /\ \A j \in S : status[j] \in {"pending", "leased"}
  BY <1>1 DEF Claimable
<1>4. RowsGoOn
  <2>1. LeaseFor \in 0 .. LeaseFor /\ s \in Sessions \cup {None}
    BY LimitFacts
  <2> QED
    BY <1>0, <1>1, <1>3, <2>1, RowsRaised DEF Take
<1>5. \A j \in S : epoch'[j] = epoch[j] + 1 /\ status'[j] = "leased" /\ holder'[j] = s
  BY <1>1, <1>3 DEF Take
<1>6. RelaysTypeOK' /\ PeersAreRelays'
  BY <1>0, <1>2 DEF RelaysTypeOK, PeersAreRelays
<1>7. CASE late' = [late EXCEPT ![s] = FALSE] /\ UNCHANGED unsent
  <2>1. SessionsTypeOK'
    BY <1>0, <1>2, <1>7 DEF SessionsTypeOK
  <2>2. PlacesLose
    BY <1>0, <1>2, <1>7 DEF PlacesLose, Has, Carries, OnePlace
  <2> QED
    BY <1>4, <1>6, <2>1, <2>2, LosingKeepsInv
<1>8. CASE unsent' = [unsent EXCEPT ![s] = {<<j, epoch'[j]>> : j \in S}] /\ UNCHANGED late
  <2>1. {<<j, epoch'[j]>> : j \in S} \subseteq Execution
    BY <1>3, <1>4 DEF RowsGoOn, RowsTypeOK, Execution
  <2>2. SessionsTypeOK'
    BY <1>0, <1>2, <1>8, <2>1 DEF SessionsTypeOK
  <2>3. JobTypes => PlacesAreSound'
    BY <1>2, <1>3, <1>5, <1>8, ClaimingIsSound
  <2> QED
    BY <1>4, <1>6, <2>2, <2>3, StepIsSound
<1> QED
  BY <1>1, <1>7, <1>8

\* An assignment leaves its claim for the stream.
LEMMA AssignKeepsInv ==
    ASSUME JobInv, NEW s \in Sessions, SendAssignment(s)
    PROVE  RowsGoOn /\ JobInv'
<1>0. /\ TypeOK /\ SessionsTypeOK /\ RelaysTypeOK /\ PeersAreRelays /\ AllAreKnown /\ RowsInv
      /\ unsent \in [Sessions -> SUBSET Execution]
  BY RowsInvHolds DEF JobInv, TypeOK, SessionsTypeOK, PlacesAreSound
<1>1. PICK x \in unsent[s] : /\ unsent' = [unsent EXCEPT ![s] = @ \ {x}]
                             /\ Send(s, Msg("assign", x))
  BY DEF SendAssignment
<1>2. /\ UNCHANGED <<opened, phase, peer, live, releasing, late, told>>
      /\ UNCHANGED <<link, executing, results>> /\ UNCHANGED rowVars
  BY DEF SendAssignment, relayVars
<1>3. x \in Execution /\ Known(x) /\ "assign" \in Kinds
  BY <1>0 DEF AllAreKnown, Kinds
<1>4. /\ unsent' \in [Sessions -> SUBSET Execution] /\ x \notin unsent'[s]
      /\ \A t \in Sessions : unsent'[t] \subseteq unsent[t]
  BY <1>0, <1>1
<1>5. /\ stream' \in [Sessions -> Seq(Message)]
      /\ \A t \in Sessions, n \in Nat, k \in Kinds, y \in Execution :
            Carries(t, n, k, y)' => \/ Carries(t, n, k, y)
                                    \/ t = s /\ n = Len(stream[s]) + 1 /\ k = "assign" /\ y = x
  BY <1>0, <1>1, <1>3, SendFacts
<1>6. SessionsTypeOK' /\ RelaysTypeOK' /\ PeersAreRelays'
  BY <1>0, <1>2, <1>4, <1>5 DEF SessionsTypeOK, RelaysTypeOK, PeersAreRelays
<1>7. PlacesSend(s, "assign", x)
  BY <1>2, <1>4, <1>5 DEF PlacesSend
<1>8. JobTypes => PlacesAreSound'
  BY <1>3, <1>4, <1>7, SendingIsSound
<1> QED
  BY <1>0, <1>2, <1>6, <1>8, StepIsSound, RowsStay

\* An execution that cannot be expressed is dropped, and its Job may fail.
LEMMA UndeliverableKeepsInv ==
    ASSUME JobInv, NEW s \in Sessions, FailUndeliverable(s)
    PROVE  RowsGoOn /\ JobInv'
<1>0. /\ TypeOK /\ SessionsTypeOK /\ RelaysTypeOK /\ PeersAreRelays /\ OnePlace /\ RowsInv
      /\ unsent \in [Sessions -> SUBSET Execution]
  BY RowsInvHolds DEF JobInv, TypeOK, SessionsTypeOK, PlacesAreSound
<1>1. PICK x \in unsent[s] : /\ unsent' = [unsent EXCEPT ![s] = @ \ {x}]
                             /\ \/ Fenced(s, x) /\ Settle(x[1], "failed")
                                \/ UNCHANGED rowVars
  BY DEF FailUndeliverable
<1>2. /\ UNCHANGED <<opened, phase, peer, live, releasing, late, told>>
      /\ UNCHANGED <<stream, link, executing, results>>
  BY DEF FailUndeliverable, relayVars
<1>3. x \in Execution /\ "failed" \in Settled
  BY <1>0 DEF Settled
<1>4. RowsGoOn
  BY <1>0, <1>1, <1>3, RowsSettled, RowsStay
<1>5. /\ unsent' \in [Sessions -> SUBSET Execution]
      /\ \A t \in Sessions : unsent'[t] \subseteq unsent[t]
  BY <1>0, <1>1
<1>6. SessionsTypeOK' /\ RelaysTypeOK' /\ PeersAreRelays'
  BY <1>0, <1>2, <1>5 DEF SessionsTypeOK, RelaysTypeOK, PeersAreRelays
<1>7. PlacesLose
  BY <1>0, <1>2, <1>5 DEF PlacesLose, Has, Carries, OnePlace
<1> QED
  BY <1>4, <1>6, <1>7, LosingKeepsInv

\* A stop is sent by the session that holds the lease, after all it has claimed.
LEMMA StopKeepsInv ==
    ASSUME JobInv, NEW s \in Sessions, SendCancellation(s)
    PROVE  RowsGoOn /\ JobInv'
<1>0. /\ TypeOK /\ SessionsTypeOK /\ RelaysTypeOK /\ PeersAreRelays /\ RowsInv
      /\ RowsAreSound /\ ClaimersHold /\ told \in [Sessions -> SUBSET Execution]
  BY RowsInvHolds DEF JobInv, TypeOK, SessionsTypeOK, PlacesAreSound
<1>1. PICK x \in PendingCancellations(s) \ told[s] :
         /\ told' = [told EXCEPT ![s] = (@ \cap PendingCancellations(s)) \cup {x}]
         /\ Send(s, Msg("stop", x))
  BY DEF SendCancellation
<1>2. /\ unsent[s] = {} /\ UNCHANGED <<opened, phase, peer, live, releasing, late, unsent>>
      /\ UNCHANGED <<link, executing, results>> /\ UNCHANGED rowVars
  BY DEF SendCancellation, relayVars
<1>3. PICK j \in Jobs : x = <<j, epoch[j]>> /\ status[j] = "leased" /\ holder[j] = s
  BY DEF PendingCancellations
<1>4. x \in Execution /\ "stop" \in Kinds /\ x[1] = j /\ x[2] = epoch[j]
  BY <1>0, <1>3, TypeFacts DEF Execution, Kinds
<1>5. \A t \in Sessions : x \notin unsent[t]
  BY <1>0, <1>2, <1>3, <1>4 DEF ClaimersHold
<1>6. Known(x)
  BY <1>0, <1>3, <1>4, TypeFacts, LimitFacts DEF Known, RowsAreSound
<1>7. /\ stream' \in [Sessions -> Seq(Message)]
      /\ \A t \in Sessions, n \in Nat, k \in Kinds, y \in Execution :
            Carries(t, n, k, y)' => \/ Carries(t, n, k, y)
                                    \/ t = s /\ n = Len(stream[s]) + 1 /\ k = "stop" /\ y = x
  BY <1>0, <1>1, <1>4, SendFacts
<1>8. told' \in [Sessions -> SUBSET Execution]
  BY <1>0, <1>1, <1>4
<1>9. SessionsTypeOK' /\ RelaysTypeOK' /\ PeersAreRelays'
  BY <1>0, <1>2, <1>7, <1>8 DEF SessionsTypeOK, RelaysTypeOK, PeersAreRelays
<1>10. PlacesSend(s, "stop", x)
  BY <1>2, <1>7 DEF PlacesSend
<1>11. JobTypes => PlacesAreSound'
  BY <1>4, <1>5, <1>6, <1>10, SendingIsSound
<1> QED
  BY <1>0, <1>2, <1>9, <1>11, StepIsSound, RowsStay

\* A result is recorded or refused for good before it is acknowledged; an
\* acknowledgement that finds the queue full ends the session.
LEMMA ResultKeepsInv ==
    ASSUME JobInv, NEW s \in Sessions, RecordResult(s)
    PROVE  RowsGoOn /\ JobInv'
<1>0. /\ TypeOK /\ SessionsTypeOK /\ RelaysTypeOK /\ PeersAreRelays /\ RowsInv /\ AllAreKnown
      /\ results \in [Relays -> SUBSET Execution] /\ PlacesAreSound
  BY RowsInvHolds DEF JobInv, TypeOK, RelaysTypeOK, PlacesAreSound
<1>1. peer[s] \in Relays /\ UNCHANGED <<opened, peer, link, executing, results>>
  BY <1>0 DEF RecordResult, PeersAreRelays, relayVars
<1>2. PICK x \in results[peer[s]] :
         /\ \/ Fenced(s, x) /\ \E outcome \in Outcomes : Settle(x[1], outcome)
            \/ Answerable(x) /\ UNCHANGED rowVars
         /\ Acknowledge(s, x)
  BY DEF RecordResult
<1>3. x \in Execution /\ Known(x) /\ "ack" \in Kinds
  BY <1>0, <1>1 DEF AllAreKnown, Has, Kinds
<1>4. RowsGoOn /\ Answerable(x)'
  <2>1. ASSUME UNCHANGED rowVars, Answerable(x) PROVE RowsGoOn /\ Answerable(x)'
    BY <1>0, <1>3, <2>1, RowsStay, KnownStays
  <2>2. ASSUME NEW outcome \in Outcomes, Fenced(s, x), Settle(x[1], outcome)
        PROVE  RowsGoOn /\ Answerable(x)'
    BY <1>0, <1>3, <2>2, RowsSettled, LimitFacts
  <2> QED
    BY <1>2, <2>1, <2>2
<1>5. CASE /\ Send(s, Msg("ack", x))
           /\ UNCHANGED <<phase, live, unsent, told, late, releasing>>
  <2>1. /\ stream' \in [Sessions -> Seq(Message)]
        /\ \A t \in Sessions, n \in Nat, k \in Kinds, y \in Execution :
              Carries(t, n, k, y)' => \/ Carries(t, n, k, y)
                                      \/ t = s /\ n = Len(stream[s]) + 1 /\ k = "ack" /\ y = x
    BY <1>0, <1>3, <1>5, SendFacts
  <2>2. SessionsTypeOK' /\ RelaysTypeOK' /\ PeersAreRelays'
    BY <1>0, <1>1, <1>5, <2>1 DEF SessionsTypeOK, RelaysTypeOK, PeersAreRelays
  <2>3. PlacesSend(s, "ack", x)
    BY <1>1, <1>5, <2>1 DEF PlacesSend
  <2>4. JobTypes => PlacesAreSound'
    BY <1>3, <1>4, <2>3, SendingIsSound
  <2> QED
    BY <1>4, <2>2, <2>4, StepIsSound
<1>6. CASE /\ phase' = [phase EXCEPT ![s] = "ended"]
           /\ live' = [p \in Replicas |-> IF live[p] = s THEN None ELSE live[p]]
           /\ EndFields({s})
           /\ UNCHANGED stream
  <2>1. SessionsTypeOK' /\ RelaysTypeOK' /\ PeersAreRelays' /\ PlacesLose
    BY <1>1, <1>6, EndingFacts DEF relayVars
  <2> QED
    BY <1>4, <2>1, LosingKeepsInv
<1> QED
  BY <1>2, <1>5, <1>6 DEF Acknowledge

\* The oldest message of a stream is taken out, and the others move up.
LEMMA ReceiveKeepsInv ==
    ASSUME JobInv, NEW r \in Relays, RelayReceive(r)
    PROVE  RowsGoOn /\ JobInv'
<1> DEFINE s == link[r]
           m == Head(stream[s])
           x == <<m.job, m.epoch>>
<1>0. /\ TypeOK /\ SessionsTypeOK /\ RelaysTypeOK /\ PeersAreRelays /\ RowsInv /\ OnePlace
      /\ link \in [Relays -> Sessions \cup {None}] /\ stream \in [Sessions -> Seq(Message)]
      /\ executing \in [Relays -> SUBSET Execution] /\ results \in [Relays -> SUBSET Execution]
  BY RowsInvHolds DEF JobInv, TypeOK, SessionsTypeOK, RelaysTypeOK, PlacesAreSound
<1>1. /\ s # None /\ stream[s] # <<>> /\ stream' = [stream EXCEPT ![s] = Tail(stream[s])]
      /\ executing' = [executing EXCEPT ![r] = IF m.kind = "assign" THEN executing[r] \cup {x}
                                               ELSE IF m.kind = "stop" THEN executing[r] \ {x}
                                               ELSE executing[r]]
      /\ results' = [results EXCEPT ![r] =
                       IF m.kind = "ack" THEN results[r] \ {x}
                       ELSE IF m.kind = "stop" /\ x \in executing[r] THEN results[r] \cup {x}
                       ELSE results[r]]
      /\ UNCHANGED <<rowVars, sessionVars, link>>
  BY DEF RelayReceive
<1>2. s \in Sessions /\ stream[s] \in Seq(Message) /\ m \in Message
  BY <1>0, <1>1
<1>3. x \in Execution /\ m.kind \in Kinds /\ stream[s][1] = Msg(m.kind, x) /\ 1 \in DOMAIN stream[s]
  BY <1>1, <1>2, MessageFacts
<1>4. Carries(s, 1, m.kind, x)
  BY <1>3 DEF Carries
<1>5. /\ stream' \in [Sessions -> Seq(Message)] /\ stream'[s] = Tail(stream[s])
      /\ \A t \in Sessions \ {s} : stream'[t] = stream[t]
  BY <1>0, <1>1, <1>2
<1>6. ASSUME NEW t \in Sessions, NEW n \in Nat, NEW k \in Kinds, NEW y \in Execution,
             Carries(t, n, k, y)'
      PROVE  Carries(t, IF t = s THEN n + 1 ELSE n, k, y)
  <2>1. n \in DOMAIN stream'[t] /\ stream'[t][n] = Msg(k, y)
    BY <1>6 DEF Carries, Msg
  <2>2. CASE t # s
    BY <1>5, <2>1, <2>2 DEF Carries
  <2>3. CASE t = s
    <3>1. n \in 1 .. Len(Tail(stream[s])) /\ Tail(stream[s])[n] = Msg(k, y)
      BY <1>1, <1>2, <1>5, <2>1, <2>3
    <3>2. n + 1 \in DOMAIN stream[s] /\ stream[s][n + 1] = Msg(k, y)
      BY <1>1, <1>2, <3>1
    <3> QED
      BY <2>3, <3>2 DEF Carries
  <2> QED
    BY <2>2, <2>3
<1>7. \E kind \in Kinds, y \in Execution :
         /\ Carries(s, 1, kind, y)
         /\ executing' = [executing EXCEPT ![r] = IF kind = "assign" THEN executing[r] \cup {y}
                                                  ELSE IF kind = "stop" THEN executing[r] \ {y}
                                                  ELSE executing[r]]
         /\ results' = [results EXCEPT ![r] =
                          IF kind = "ack" THEN results[r] \ {y}
                          ELSE IF kind = "stop" /\ y \in executing[r] THEN results[r] \cup {y}
                          ELSE results[r]]
  BY <1>1, <1>3, <1>4
<1>8. PICK kind \in Kinds, y \in Execution :
         /\ Carries(s, 1, kind, y)
         /\ executing' = [executing EXCEPT ![r] = IF kind = "assign" THEN executing[r] \cup {y}
                                                  ELSE IF kind = "stop" THEN executing[r] \ {y}
                                                  ELSE executing[r]]
         /\ results' = [results EXCEPT ![r] =
                          IF kind = "ack" THEN results[r] \ {y}
                          ELSE IF kind = "stop" /\ y \in executing[r] THEN results[r] \cup {y}
                          ELSE results[r]]
  BY <1>7
<1>9. PICK t \in Sessions : t = s
  BY <1>2
<1> HIDE DEF s, m, x
<1>10. /\ executing' \in [Relays -> SUBSET Execution] /\ results' \in [Relays -> SUBSET Execution]
       /\ \A q \in Relays \ {r} : executing'[q] = executing[q] /\ results'[q] = results[q]
  BY <1>0, <1>8
<1>11. /\ executing[r] \cap results[r] = {} /\ (kind = "assign" => y \notin Has(r))
       /\ \A q \in Relays : executing[q] \cap results[q] = {}
  <2>1. kind = "assign" => Carries(t, 1, "assign", y)
    BY <1>8, <1>9
  <2>2. \A q \in Relays : executing[q] \cap results[q] = {}
    BY <1>0 DEF OnePlace
  <2>3. \A z \in Has(r) : ~Carries(t, 1, "assign", z)
    BY <1>0 DEF OnePlace
  <2> QED
    BY <2>1, <2>2, <2>3
<1>12. /\ executing'[r] \cap results'[r] = {}
       /\ Has(r)' \subseteq Has(r) \cup {y} /\ (kind # "assign" => Has(r)' \subseteq Has(r))
  <2>1. /\ executing'[r] = IF kind = "assign" THEN executing[r] \cup {y}
                           ELSE IF kind = "stop" THEN executing[r] \ {y} ELSE executing[r]
        /\ results'[r] = IF kind = "ack" THEN results[r] \ {y}
                         ELSE IF kind = "stop" /\ y \in executing[r] THEN results[r] \cup {y}
                         ELSE results[r]
    BY <1>0, <1>8
  <2> QED
    BY <1>11, <2>1 DEF Has, Kinds
<1>13. \A q \in Relays \ {r} : Has(q)' = Has(q) /\ executing'[q] \cap results'[q] = {}
  BY <1>10, <1>11 DEF Has
<1>14. /\ UNCHANGED <<opened, phase, peer, live, releasing, late, unsent, told>>
       /\ UNCHANGED rowVars /\ link' = link
  BY <1>1 DEF sessionVars
<1>15. SessionsTypeOK' /\ RelaysTypeOK' /\ PeersAreRelays'
  BY <1>0, <1>5, <1>10, <1>14 DEF SessionsTypeOK, RelaysTypeOK, PeersAreRelays
<1>16. JobTypes => PlacesAreSound'
  BY <1>2, <1>6, <1>8, <1>12, <1>13, <1>14, ReceivingIsSound
<1> QED
  BY <1>0, <1>14, <1>15, <1>16, StepIsSound, RowsStay

\* A Relay finishes, leaves or crashes: what it had stays with it, or is lost.
LEMMA RelayKeepsInv ==
    ASSUME JobInv, NEW r \in Relays, RelayFinish(r) \/ RelayLeave(r) \/ RelayCrash(r)
    PROVE  RowsGoOn /\ JobInv'
<1>0. /\ TypeOK /\ SessionsTypeOK /\ RelaysTypeOK /\ PeersAreRelays /\ RowsInv /\ OnePlace
      /\ link \in [Relays -> Sessions \cup {None}] /\ stream \in [Sessions -> Seq(Message)]
      /\ executing \in [Relays -> SUBSET Execution] /\ results \in [Relays -> SUBSET Execution]
  BY RowsInvHolds DEF JobInv, TypeOK, SessionsTypeOK, RelaysTypeOK, PlacesAreSound
<1>1. /\ UNCHANGED <<opened, phase, peer, live, releasing, late, unsent, told>> /\ UNCHANGED rowVars
  BY DEF RelayFinish, RelayLeave, RelayCrash, sessionVars
<1>2. /\ \A s \in Sessions : stream'[s] \in {stream[s], <<>>}
      /\ stream' = [s \in Sessions |-> stream'[s]]
  <2>1. CASE RelayFinish(r)
    BY <1>0, <2>1 DEF RelayFinish
  <2>2. CASE RelayLeave(r)
    BY <1>0, <2>2 DEF RelayLeave
  <2>3. CASE RelayCrash(r)
    BY <1>0, <2>3 DEF RelayCrash
  <2> QED
    BY <2>1, <2>2, <2>3
<1>3. /\ stream' \in [Sessions -> Seq(Message)]
      /\ \A t \in Sessions, n \in Nat, kind \in Kinds, x \in Execution :
            Carries(t, n, kind, x)' => Carries(t, n, kind, x)
  BY <1>0, <1>2, CutFacts
<1>4. /\ link' \in [Relays -> Sessions \cup {None}]
      /\ executing' \in [Relays -> SUBSET Execution] /\ results' \in [Relays -> SUBSET Execution]
      /\ \A q \in Relays : /\ executing'[q] \cup results'[q] \subseteq executing[q] \cup results[q]
                           /\ executing'[q] \cap results'[q] = {}
  <2>1. \A q \in Relays : executing[q] \cap results[q] = {}
    BY <1>0 DEF OnePlace
  <2>2. CASE RelayFinish(r)
    <3>1. PICK x \in executing[r] : /\ executing' = [executing EXCEPT ![r] = @ \ {x}]
                                    /\ results' = [results EXCEPT ![r] = @ \cup {x}]
      BY <2>2 DEF RelayFinish
    <3>2. link' = link /\ x \in Execution
      BY <1>0, <2>2 DEF RelayFinish
    <3>3. /\ executing'[r] = executing[r] \ {x} /\ results'[r] = results[r] \cup {x}
          /\ \A q \in Relays \ {r} : executing'[q] = executing[q] /\ results'[q] = results[q]
      BY <1>0, <3>1
    <3>4. executing' \in [Relays -> SUBSET Execution] /\ results' \in [Relays -> SUBSET Execution]
      BY <1>0, <3>1, <3>2
    <3> QED
      BY <1>0, <2>1, <3>2, <3>3, <3>4
  <2>3. CASE RelayLeave(r)
    BY <1>0, <2>1, <2>3 DEF RelayLeave
  <2>4. CASE RelayCrash(r)
    BY <1>0, <2>1, <2>4 DEF RelayCrash
  <2> QED
    BY <2>2, <2>3, <2>4
<1>5. SessionsTypeOK' /\ RelaysTypeOK' /\ PeersAreRelays'
  BY <1>0, <1>1, <1>3, <1>4 DEF SessionsTypeOK, RelaysTypeOK, PeersAreRelays
<1>6. PlacesLose
  BY <1>1, <1>3, <1>4 DEF PlacesLose, Has
<1> QED
  BY <1>0, <1>1, <1>5, <1>6, LosingKeepsInv, RowsStay

\* Every step keeps the invariant, and lets every row go on.
LEMMA JobInvNext == JobInv /\ [Next]_vars => RowsGoOn /\ JobInv'
<1> SUFFICES ASSUME JobInv, [Next]_vars PROVE RowsGoOn /\ JobInv'
  OBVIOUS
<1>1. ASSUME NEW j \in Jobs, EnqueueVerifiedJob(j) PROVE RowsGoOn /\ JobInv'
  BY <1>1, RowsInvHolds, RowsEnqueue, RowStepKeepsInv DEF EnqueueVerifiedJob
<1>2. ASSUME NEW j \in Jobs, RequestJobCancellation(j) PROVE RowsGoOn /\ JobInv'
  <2>1. {j} \in SUBSET Jobs /\ CancelRows({j}) /\ investigating' = investigating
        /\ UNCHANGED <<sessionVars, stream, relayVars>>
    BY <1>2 DEF RequestJobCancellation
  <2> QED
    BY <2>1, RowsInvHolds, RowsCancelled, RowStepKeepsInv
<1>3. CASE CancelInvestigation
  <2>1. Jobs \in SUBSET Jobs /\ CancelRows(Jobs) /\ investigating' = FALSE
        /\ UNCHANGED <<sessionVars, stream, relayVars>>
    BY <1>3 DEF CancelInvestigation
  <2> QED
    BY <2>1, RowsInvHolds, RowsCancelled, RowStepKeepsInv
<1>4. CASE Tick
  BY <1>4, RowsInvHolds, RowsTick, RowStepKeepsInv DEF Tick
<1>5. ASSUME NEW s \in Sessions, SessionStep(s) PROVE RowsGoOn /\ JobInv'
  BY <1>5, EndKeepsInv, GreetKeepsInv, ReleaseKeepsInv, ClaimKeepsInv, AssignKeepsInv,
     UndeliverableKeepsInv, StopKeepsInv, ResultKeepsInv, Zenon DEF SessionStep
<1>6. ASSUME NEW r \in Relays, RelayStep(r) PROVE RowsGoOn /\ JobInv'
  BY <1>6, ConnectKeepsInv, ReceiveKeepsInv, RelayKeepsInv, Zenon DEF RelayStep
<1>7. CASE UNCHANGED vars
  <2>1. UNCHANGED rowVars /\ UNCHANGED <<sessionVars, stream, relayVars>>
    BY <1>7 DEF vars
  <2> QED
    BY <2>1, RowsInvHolds, RowsStay, RowStepKeepsInv
<1> QED
  BY <1>1, <1>2, <1>3, <1>4, <1>5, <1>6, <1>7 DEF Next

-----------------------------------------------------------------------------
(* The theorems. *)

\* What travels, by the sets the properties are stated with.
LEMMA WayFacts ==
    ASSUME TypeOK, NEW s \in Sessions, NEW kind \in Kinds, NEW x \in OnTheWay(s, kind)
    PROVE  x \in Execution /\ \E n \in Nat : Carries(s, n, kind, x)
<1>1. PICK n \in DOMAIN stream[s] : stream[s][n].kind = kind /\ x = <<stream[s][n].job, stream[s][n].epoch>>
  BY DEF OnTheWay
<1>2. stream[s] \in Seq(Message)
  BY TypeFacts
<1>3. stream[s][n] \in Message /\ n \in Nat
  BY <1>1, <1>2
<1> QED
  BY <1>1, <1>3, MessageFacts DEF Carries

\* The invariant holds: an execution is at one place, and past generations stay
\* past (ClaimJobs, AdoptInFlightLeases, ReleaseStrandedLeases, RecordResult).
THEOREM JobInvHolds == Spec => []JobInv
<1>1. JobInv /\ [Next]_vars => JobInv'
  BY JobInvNext
<1> QED
  BY <1>1, JobInvInit, PTL DEF Spec

\* What is given back is fenced, and only what is settled is acknowledged,
\* whatever sessions come and go and whatever statements commit late
\* (ReleaseStrandedLeases, explainRefusedResult).
THEOREM FencesAlwaysHold == Spec => []FencesHold
<1>1. JobInv => FencesHold
  <2> SUFFICES ASSUME JobInv PROVE FencesHold
    OBVIOUS
  <2>1. TypeOK /\ AllAreKnown
    BY DEF JobInv, PlacesAreSound
  <2>2. ASSUME NEW x \in Executions PROVE Known(x)
    <3>1. CASE \E s \in Sessions : x \in unsent[s]
      BY <2>1, <3>1 DEF AllAreKnown
    <3>2. CASE \E r \in Relays : x \in Has(r)
      BY <2>1, <3>2 DEF AllAreKnown
    <3>3. ASSUME NEW s \in Sessions, x \in OnTheWay(s, "assign") PROVE Known(x)
      <4>1. "assign" \in Kinds
        BY DEF Kinds
      <4>2. x \in Execution /\ \E n \in Nat : Carries(s, n, "assign", x)
        BY <2>1, <3>3, <4>1, WayFacts
      <4> QED
        BY <2>1, <4>1, <4>2 DEF AllAreKnown
    <3>4. \/ \E s \in Sessions : x \in unsent[s] \/ x \in OnTheWay(s, "assign")
          \/ \E r \in Relays : x \in Has(r)
      <4>1. \/ \E Z \in {unsent[s] \cup OnTheWay(s, "assign") : s \in Sessions} : x \in Z
            \/ \E Z \in {executing[r] \cup results[r] : r \in Relays} : x \in Z
        BY DEF Executions
      <4> QED
        BY <4>1 DEF Has
    <3> QED
      BY <3>1, <3>2, <3>3, <3>4
  <2>3. PendingIsFenced
    BY <2>2 DEF PendingIsFenced, Known
  <2>4. ASSUME NEW s \in Sessions, NEW x \in OnTheWay(s, "ack") PROVE Answerable(x)
    <3>1. "ack" \in Kinds
      BY DEF Kinds
    <3>2. x \in Execution /\ \E n \in Nat : Carries(s, n, "ack", x)
      BY <2>1, <3>1, WayFacts
    <3> QED
      BY <2>1, <3>1, <3>2 DEF AllAreKnown
  <2> QED
    BY <2>1, <2>3, <2>4 DEF FencesHold, AcknowledgedIsSettled, Answerable
<1> QED
  BY <1>1, JobInvHolds, PTL

\* A generation of a lease is executed once, by one Relay, however leases expire,
\* move between sessions or are released (ClaimJobs, AdoptInFlightLeases).
THEOREM ExecutionIsAlwaysUnique == Spec => []ExecutionIsUnique
<1>1. JobInv => ExecutionIsUnique
  <2> SUFFICES ASSUME JobInv PROVE ExecutionIsUnique
    OBVIOUS
  <2>1. TypeOK /\ OnePlace /\ "assign" \in Kinds
    BY DEF JobInv, PlacesAreSound, Kinds
  <2>2. ASSUME NEW s \in Sessions, NEW x \in OnTheWay(s, "assign")
        PROVE  x \in Execution /\ \E n \in Nat : Carries(s, n, "assign", x)
    BY <2>1, WayFacts
  <2>3. ASSUME NEW s \in Sessions, NEW t \in Sessions
        PROVE  /\ unsent[s] \cap OnTheWay(t, "assign") = {}
               /\ s # t => /\ unsent[s] \cap unsent[t] = {}
                           /\ OnTheWay(s, "assign") \cap OnTheWay(t, "assign") = {}
    BY <2>1, <2>2 DEF OnePlace
  <2>4. ASSUME NEW s \in Sessions, NEW k \in DOMAIN stream[s], NEW n \in DOMAIN stream[s],
               stream[s][k] = stream[s][n], stream[s][k].kind = "assign"
        PROVE  k = n
    <3>1. stream[s] \in Seq(Message)
      BY <2>1, TypeFacts
    <3>2. k \in Nat /\ n \in Nat /\ stream[s][k] \in Message
      BY <3>1
    <3>3. PICK x \in Execution : stream[s][k] = Msg("assign", x)
      BY <2>4, <3>2, MessageFacts
    <3>4. Carries(s, k, "assign", x) /\ Carries(s, n, "assign", x)
      BY <2>4, <3>3 DEF Carries
    <3> QED
      BY <2>1, <3>2, <3>4 DEF OnePlace
  <2>5. ASSUME NEW r \in Relays, NEW s \in Sessions
        PROVE  Has(r) \cap (unsent[s] \cup OnTheWay(s, "assign")) = {}
    BY <2>1, <2>2 DEF OnePlace
  <2>6. ASSUME NEW r \in Relays
        PROVE  executing[r] \cap results[r] = {} /\ \A q \in Relays \ {r} : Has(r) \cap Has(q) = {}
    BY <2>1 DEF OnePlace
  <2> QED
    BY <2>3, <2>4, <2>5, <2>6 DEF ExecutionIsUnique, Has
<1> QED
  BY <1>1, JobInvHolds, PTL

\* A cancellation reaches every Job of the Investigation, and its stop never
\* overtakes the assignment (CancelInvestigation, dispatchCancellations).
THEOREM CancellationIsAlwaysHeard == Spec => []CancellationIsHeard
<1>1. JobInv => CancellationIsHeard
  <2> SUFFICES ASSUME JobInv PROVE CancellationIsHeard
    OBVIOUS
  <2>1. TypeOK /\ StopsFollow /\ CancelReachesEveryJob
    BY DEF JobInv, PlacesAreSound
  <2>2. StopFollowsAssignment
    <3> SUFFICES ASSUME NEW s \in Sessions, NEW k \in DOMAIN stream[s], stream[s][k].kind = "stop"
                 PROVE  LET x == <<stream[s][k].job, stream[s][k].epoch>>
                        IN  /\ \A t \in Sessions : x \notin unsent[t]
                            /\ \A n \in DOMAIN stream[s] : stream[s][n] = Msg("assign", x) => n < k
      BY DEF StopFollowsAssignment
    <3> DEFINE x == <<stream[s][k].job, stream[s][k].epoch>>
    <3>1. stream[s] \in Seq(Message)
      BY <2>1, TypeFacts
    <3>2. DOMAIN stream[s] \subseteq Nat /\ stream[s][k] \in Message
      BY <3>1
    <3>3. x \in Execution /\ stream[s][k] = Msg("stop", x)
      BY <3>2, MessageFacts
    <3> HIDE DEF x
    <3>4. Carries(s, k, "stop", x)
      BY <3>3 DEF Carries
    <3>5. /\ \A t \in Sessions : x \notin unsent[t]
          /\ \A n \in Nat : Carries(s, n, "assign", x) => n < k
      BY <2>1, <3>2, <3>3, <3>4 DEF StopsFollow
    <3> QED
      BY <3>2, <3>5 DEF Carries, x
  <2> QED
    BY <2>1, <2>2 DEF CancellationIsHeard
<1> QED
  BY <1>1, JobInvHolds, PTL

\* A Job that has an outcome keeps it: no claim, adoption, release, result or
\* cancellation that arrives late touches its row (RecordResult, CancelRows).
THEOREM OutcomesAreRecordedOnce == Spec => RecordedOnce
<1> DEFINE Kept == \A j \in Jobs : status[j] \in Settled =>
                      /\ status'[j] = status[j]
                      /\ holder'[j] = None
                      /\ epoch'[j] = epoch[j]
                      /\ asked'[j] = asked[j]
<1>1. JobInv /\ [Next]_vars => Kept
  BY JobInvNext DEF RowsGoOn, RowGoesOn
<1> QED
  BY <1>1, JobInvHolds, PTL DEF Spec, RecordedOnce

=============================================================================
