--------------------------- MODULE DeliveryProofs ---------------------------
(***************************************************************************)
(* What arrives is delivered once, whatever Messages, threads, workers,     *)
(* clients and limits there are: the theorems of SlackMessageWork and of    *)
(* EventFollower and their proofs.                                          *)
(***************************************************************************)
EXTENDS SlackMessageWork, EventFollower, FiniteSetTheorems, SequenceTheorems, WellFoundedInduction, TLAPS

-----------------------------------------------------------------------------
(* The Message work queue. *)

Rows == [status : Statuses, owner : Workers \cup {None},
         epoch : Generations \cup {0}, attempts : 0 .. Budget, ttl : 0 .. LeaseFor]

\* What the attempts of a row have cost: all of them are spent, except the one
\* its lease stands for.
RowEarned(row, n) ==
    /\ row.status \in {"absent", "ready", "retry"} => row.attempts <= n \/ n = MaxAttempts
    /\ row.status = "leased" => row.attempts - 1 <= n \/ n = MaxAttempts
    /\ row.status = "terminal" => n = MaxAttempts

AttemptsAreSpent == \A m \in Messages : RowEarned(work[m], spent[m])

\* A row without a lease has none that could expire.
LeasesEnd == \A m \in Messages : work[m].status # "leased" => work[m].ttl = 0

\* The owner of a leased row, if it works on it still, remembers its attempts.
ClaimsAgree ==
    \A w \in Workers : \A m \in Messages :
        mine[w].message = m /\ work[m].status = "leased" /\ work[m].owner = w =>
            mine[w].attempts = work[m].attempts

\* A Conversation holds the accepted Messages of its thread, each once.
SaidInItsThread ==
    /\ said \in [Threads -> Seq(Messages)]
    /\ \A t \in Threads : \A k \in DOMAIN said[t] : Thread[said[t][k]] = t

SaidOnce ==
    \A m \in Messages :
        LET s == said[Thread[m]]
        IN  /\ work[m].status = "absent" <=> ~\E k \in DOMAIN s : s[k] = m
            /\ \A j, k \in DOMAIN s : s[j] = m /\ s[k] = m => j = k

WorkInv ==
    /\ TypeOK /\ AttemptsAreSpent /\ LeasesEnd /\ ClaimsAgree
    /\ SaidInItsThread /\ SaidOnce /\ TurnsHaveMessages

-----------------------------------------------------------------------------
(* The operators. *)

\* A set of numbers has a least one.
LEMMA MinFacts ==
    ASSUME NEW S \in SUBSET Nat, S # {}
    PROVE  Min(S) \in S
<1>1. PICK k \in S : \A j \in S : ~(<<j, k>> \in OpToRel(<, Nat))
  BY NatLessThanWellFounded, WFMin
<1>2. \A j \in S : k <= j
  <2> SUFFICES ASSUME NEW j \in S, j < k PROVE FALSE
    OBVIOUS
  <2>1. <<j, k>> \in Nat \X Nat /\ <<j, k>>[1] < <<j, k>>[2]
    OBVIOUS
  <2>2. <<j, k>> \in OpToRel(<, Nat)
    BY <2>1, Zenon DEF OpToRel
  <2> QED
    BY <1>1, <2>2
<1> QED
  BY <1>2 DEF Min

\* The larger of two numbers.
LEMMA MaxFacts ==
    ASSUME NEW a \in Int, NEW b \in Int
    PROVE  Max({a, b}) = IF a >= b THEN a ELSE b
<1>1. \E x \in {a, b} : \A y \in {a, b} : x >= y
  OBVIOUS
<1> QED
  BY <1>1 DEF Max

\* Time that passes for a lease.
LEMMA TickFacts ==
    ASSUME NEW n \in 0 .. LeaseFor
    PROVE  Max({n - 1, 0}) \in 0 .. LeaseFor /\ (n = 0 => Max({n - 1, 0}) = 0)
BY MaxFacts, LimitAssumption

\* There is a generation that no worker remembers.
LEMMA EpochFacts ==
    ASSUME NEW m, \A w \in Workers : mine[w].epoch \in Generations \cup {0}
    PROVE  NextEpoch(m) \in Generations
<1> DEFINE W == {v \in Workers : mine[v].message = m}
           E == {mine[w].epoch : w \in W}
           f == [w \in W |-> mine[w].epoch]
<1>1. IsFiniteSet(W) /\ Cardinality(W) <= Cardinality(Workers)
  BY FiniteAssumption, FS_Subset
<1>2. f \in Surjection(W, E)
  BY DEF Surjection
<1>3. IsFiniteSet(E) /\ Cardinality(E) <= Cardinality(W)
  BY <1>1, <1>2, FS_Surjection
<1>4. /\ Cardinality(Workers) \in Nat /\ Cardinality(W) \in Nat /\ Cardinality(E) \in Nat
  BY <1>1, <1>3, FiniteAssumption, FS_CardinalityType
<1>5. Cardinality(Generations) = Cardinality(Workers) + 1
  BY <1>4, FS_Interval DEF Generations
<1>6. Generations \ E # {}
  <2> SUFFICES ASSUME Generations \subseteq E PROVE FALSE
    OBVIOUS
  <2>1. Cardinality(Generations) <= Cardinality(E)
    BY <1>3, FS_Subset
  <2> QED
    BY <1>1, <1>3, <1>4, <1>5, <2>1
<1>7. Generations \subseteq Nat
  BY <1>4 DEF Generations
<1>8. Min(Generations \ E) \in Generations \ E
  BY <1>6, <1>7, MinFacts
<1> QED
  BY <1>8 DEF NextEpoch

\* There is a Message for every turn, and one more that is queued.
LEMMA TurnFacts ==
    ASSUME TypeOK, TurnsHaveMessages, NEW t \in Threads, NEW m \in Messages, turn[m] = 0
    PROVE  turns[t] + 1 \in 0 .. Cardinality(Messages)
<1>1. Cardinality(Messages) \in Nat /\ turns[t] \in 0 .. Cardinality(Messages)
  BY FiniteAssumption, FS_CardinalityType DEF TypeOK
<1> DEFINE N == 0 .. turns[t]
           f == [n \in N |-> CHOOSE x \in Messages : turn[x] = n]
<1>2. \A n \in N : \E x \in Messages : turn[x] = n
  BY <1>1 DEF TurnsHaveMessages
<1>3. \A n \in N : f[n] \in Messages /\ turn[f[n]] = n
  BY <1>2
<1>4. f \in [N -> Messages] /\ \A j, k \in N : f[j] = f[k] => j = k
  BY <1>3, ZenonT(40)
<1> HIDE DEF f
<1>5. f \in Injection(N, Messages)
  BY <1>4, Zenon DEF Injection, IsInjective
<1>6. Cardinality(N) <= Cardinality(Messages)
  BY <1>5, FiniteAssumption, FS_Injection
<1>7. Cardinality(N) = turns[t] + 1
  BY <1>1, FS_Interval, SMTT(40)
<1> QED
  BY <1>1, <1>6, <1>7

-----------------------------------------------------------------------------
(* The parts of a step. *)

\* What WorkInv says of the limits.
LEMMA LimitFacts ==
    /\ Cardinality(Messages) \in Nat /\ Cardinality(Workers) \in Nat
    /\ MaxAttempts \in Nat /\ MaxAttempts >= 1 /\ Budget \in Nat /\ Budget >= MaxAttempts
    /\ LeaseFor \in Nat /\ LeaseFor >= 1 /\ MaxRecoveries \in Nat
BY LimitAssumption, FiniteAssumption, FS_CardinalityType

TurnsTypeOK ==
    /\ turn \in [Messages -> 0 .. Cardinality(Messages)]
    /\ turns \in [Threads -> 0 .. Cardinality(Messages)]
    /\ running \subseteq Threads

WorkersTypeOK ==
    /\ pc \in [Workers -> {"idle", "processing", "deferring", "failing"}]
    /\ mine \in [Workers -> [message : Messages \cup {None}, epoch : Generations \cup {0},
                             attempts : 0 .. Budget]]

\* The next turn takes what is queued, and is one that no Message had.
LEMMA OpenTurnFacts ==
    ASSUME WorkInv, NEW t \in Threads, OpenTurn(t)
    PROVE  TurnsTypeOK' /\ TurnsHaveMessages' /\ said' = said
<1>1. /\ TypeOK /\ TurnsHaveMessages /\ SaidInItsThread
      /\ Cardinality(Messages) \in Nat
  BY LimitFacts DEF WorkInv
<1>2. /\ Queued(t) # {} /\ Queued(t) \subseteq Messages
      /\ turns' = [turns EXCEPT ![t] = @ + 1] /\ said' = said
      /\ turn' = [m \in Messages |-> IF m \in Queued(t) THEN turns[t] + 1 ELSE turn[m]]
      /\ running' = running \cup {t}
  BY DEF OpenTurn, Queued
<1>3. \A m \in Queued(t) : turn[m] = 0 /\ Thread[m] = t
  BY <1>1 DEF Queued, SaidInItsThread
<1> HIDE DEF Queued
<1>4. PICK x \in Queued(t) : TRUE
  BY <1>2
<1>5. turns[t] + 1 \in 0 .. Cardinality(Messages) /\ turns[t] \in Nat
  BY <1>1, <1>2, <1>3, <1>4, TurnFacts DEF TypeOK
<1>6. TurnsTypeOK'
  BY <1>1, <1>2, <1>5 DEF TypeOK, TurnsTypeOK
<1>7. TurnsHaveMessages'
  <2> SUFFICES ASSUME NEW u \in Threads, NEW n \in 1 .. turns'[u]
               PROVE  \E m \in Messages : Thread[m] = u /\ turn'[m] = n
    BY DEF TurnsHaveMessages
  <2>1. turns[u] \in Nat /\ turns'[u] = (IF u = t THEN turns[t] + 1 ELSE turns[u])
    BY <1>1, <1>2 DEF TypeOK
  <2>2. CASE u = t /\ n = turns[t] + 1
    BY <1>2, <1>3, <1>4, <2>2
  <2>3. CASE n \in 1 .. turns[u]
    <3>1. PICK m \in Messages : Thread[m] = u /\ turn[m] = n
      BY <1>1, <2>3 DEF TurnsHaveMessages
    <3>2. m \notin Queued(t)
      BY <1>3, <2>3, <3>1
    <3> QED
      BY <1>2, <3>1, <3>2
  <2> QED
    BY <1>5, <2>1, <2>2, <2>3
<1> QED
  BY <1>2, <1>6, <1>7

\* A row is claimed, renewed or settled by a worker, or recovered.
LEMMA RowStep ==
    ASSUME WorkInv, NEW m \in Messages, NEW row \in Rows, NEW n \in 0 .. MaxAttempts,
           work' = [work EXCEPT ![m] = row], spent' = [spent EXCEPT ![m] = n],
           work[m].status # "absent", row.status # "absent",
           row.status # "leased" => row.ttl = 0, RowEarned(row, n),
           said' = said, TurnsTypeOK', TurnsHaveMessages', WorkersTypeOK', ClaimsAgree',
           recovered' \in 0 .. MaxRecoveries
    PROVE  WorkInv'
<1>1. /\ TypeOK /\ AttemptsAreSpent /\ LeasesEnd /\ SaidInItsThread /\ SaidOnce
      /\ work \in [Messages -> Rows] /\ spent \in [Messages -> 0 .. MaxAttempts]
  BY DEF WorkInv, TypeOK, Rows
<1>2. /\ work' \in [Messages -> Rows] /\ spent' \in [Messages -> 0 .. MaxAttempts]
      /\ work'[m] = row /\ spent'[m] = n
      /\ \A x \in Messages \ {m} : work'[x] = work[x] /\ spent'[x] = spent[x]
  BY <1>1
<1>3. TypeOK'
  BY <1>1, <1>2 DEF TypeOK, TurnsTypeOK, WorkersTypeOK, Rows
<1>4. AttemptsAreSpent'
  BY <1>1, <1>2 DEF AttemptsAreSpent, RowEarned
<1>5. LeasesEnd'
  BY <1>1, <1>2 DEF LeasesEnd
<1>6. SaidInItsThread' /\ SaidOnce'
  <2>1. \A x \in Messages : work'[x].status = "absent" <=> work[x].status = "absent"
    BY <1>2
  <2> QED
    BY <1>1, <2>1 DEF SaidInItsThread, SaidOnce
<1> QED
  BY <1>3, <1>4, <1>5, <1>6 DEF WorkInv

\* A worker that goes on with its work, or drops it.
LEMMA WorkerStep ==
    ASSUME WorkInv, NEW w \in Workers,
           Returns(w) \/ \E step \in {"idle", "processing", "deferring", "failing"} :
                            Goes(w, step) /\ UNCHANGED mine
    PROVE  /\ WorkersTypeOK'
           /\ \A v \in Workers : mine'[v] = mine[v] \/ mine'[v].message = None
<1>1. WorkersTypeOK
  BY DEF WorkInv, TypeOK, WorkersTypeOK
<1>2. NoWork \in [message : Messages \cup {None}, epoch : Generations \cup {0}, attempts : 0 .. Budget]
  BY LimitFacts DEF NoWork
<1>3. NoWork.message = None
  BY DEF NoWork
<1> QED
  BY <1>1, <1>2, <1>3 DEF Returns, Goes, WorkersTypeOK

\* The row a worker holds is there, as the worker remembers it.
LEMMA HoldsFacts ==
    ASSUME WorkInv, NEW w \in Workers, Holds(w)
    PROVE  /\ mine[w].message \in Messages /\ work[mine[w].message] \in Rows
           /\ work[mine[w].message].status = "leased" /\ work[mine[w].message].ttl > 0
           /\ work[mine[w].message].owner = w
           /\ work[mine[w].message].epoch = mine[w].epoch
           /\ mine[w].attempts = work[mine[w].message].attempts
BY DEF WorkInv, TypeOK, Rows, Holds, ClaimsAgree

\* A row that is settled keeps its attempts, and its lease ends.
LEMMA SettledFacts ==
    ASSUME NEW row \in Rows, NEW status \in Statuses
    PROVE  /\ Settled(row, status) \in Rows
           /\ Settled(row, status).status = status
           /\ Settled(row, status).ttl = 0
           /\ Settled(row, status).attempts = row.attempts
<1>1. 0 \in 0 .. LeaseFor
  BY LimitFacts
<1> QED
  BY <1>1 DEF Rows, Settled

\* A worker writes the row it holds.
LEMMA HeldRowStep ==
    ASSUME WorkInv, NEW w \in Workers, Holds(w), NEW row \in Rows, NEW n \in 0 .. MaxAttempts,
           work' = [work EXCEPT ![mine[w].message] = row],
           spent' = [spent EXCEPT ![mine[w].message] = n],
           row.status # "absent", row.status # "leased" => row.ttl = 0,
           row.status = "leased" => row.attempts = work[mine[w].message].attempts
                                    /\ row.owner = w,
           RowEarned(row, n), said' = said, TurnsTypeOK', TurnsHaveMessages',
           Returns(w) \/ \E step \in {"idle", "processing", "deferring", "failing"} :
                            Goes(w, step) /\ UNCHANGED mine,
           recovered' = recovered
    PROVE  WorkInv'
<1>1. /\ WorkersTypeOK'
      /\ \A v \in Workers : mine'[v] = mine[v] \/ mine'[v].message = None
  BY WorkerStep
<1>2. ClaimsAgree'
  BY <1>1, HoldsFacts, NoneAssumption DEF WorkInv, TypeOK, ClaimsAgree
<1>3. recovered' \in 0 .. MaxRecoveries
  BY DEF WorkInv, TypeOK
<1> QED
  BY <1>1, <1>2, <1>3, HoldsFacts, RowStep

\* Only a worker moves.
LEMMA IdleRowStep ==
    ASSUME WorkInv, NEW w \in Workers, UNCHANGED <<work, conversation, spent, recovered>>,
           Returns(w) \/ \E step \in {"idle", "processing", "deferring", "failing"} :
                            Goes(w, step) /\ UNCHANGED mine
    PROVE  WorkInv'
<1>1. /\ WorkersTypeOK'
      /\ \A v \in Workers : mine'[v] = mine[v] \/ mine'[v].message = None
  BY WorkerStep
<1>2. ClaimsAgree'
  BY <1>1, NoneAssumption DEF WorkInv, TypeOK, ClaimsAgree
<1>3. TypeOK'
  BY <1>1 DEF WorkInv, TypeOK, WorkersTypeOK, conversation
<1> QED
  BY <1>2, <1>3 DEF WorkInv, AttemptsAreSpent, LeasesEnd, SaidInItsThread, SaidOnce,
                   TurnsHaveMessages, conversation

-----------------------------------------------------------------------------
(* Each action. *)

LEMMA WorkInvInit == Init => WorkInv
<1> SUFFICES ASSUME Init PROVE WorkInv
  OBVIOUS
<1> USE LimitFacts DEF Init
<1>1. TypeOK
  BY DEF TypeOK, NoRow, NoWork, Statuses
<1>2. AttemptsAreSpent /\ LeasesEnd
  BY DEF AttemptsAreSpent, RowEarned, LeasesEnd, NoRow
<1>3. ClaimsAgree /\ TurnsHaveMessages
  BY NoneAssumption DEF ClaimsAgree, TurnsHaveMessages, NoRow, NoWork
<1>4. SaidInItsThread /\ SaidOnce
  <2>1. <<>> \in Seq(Messages) /\ DOMAIN <<>> = {}
    OBVIOUS
  <2> QED
    BY <2>1, ThreadAssumption DEF SaidInItsThread, SaidOnce, NoRow
<1> QED
  BY <1>1, <1>2, <1>3, <1>4 DEF WorkInv

\* The Message and its work appear together.
LEMMA RecordKeepsInv ==
    ASSUME WorkInv, NEW m \in Messages, RecordSlackMessage(m)
    PROVE  WorkInv'
<1> DEFINE t == Thread[m]
           new == Append(said[t], m)
<1>1. /\ TypeOK /\ AttemptsAreSpent /\ LeasesEnd /\ ClaimsAgree /\ SaidInItsThread /\ SaidOnce
      /\ TurnsHaveMessages /\ work \in [Messages -> Rows] /\ t \in Threads
  BY ThreadAssumption DEF WorkInv, TypeOK, Rows
<1>2. /\ work[m].status = "absent"
      /\ said' = [said EXCEPT ![t] = new]
      /\ work' = [work EXCEPT ![m] = [work[m] EXCEPT !.status = "ready"]]
      /\ UNCHANGED <<turn, turns, running, pc, mine, spent, recovered>>
  BY <1>1 DEF RecordSlackMessage
<1>3. /\ work' \in [Messages -> Rows]
      /\ work'[m].status = "ready" /\ work'[m].attempts = work[m].attempts
      /\ work'[m].ttl = work[m].ttl
      /\ \A x \in Messages \ {m} : work'[x] = work[x]
  BY <1>1, <1>2 DEF Rows, Statuses
<1>4. AttemptsAreSpent' /\ LeasesEnd' /\ ClaimsAgree'
  BY <1>1, <1>2, <1>3 DEF AttemptsAreSpent, RowEarned, LeasesEnd, ClaimsAgree
<1>5. SaidInItsThread'
  <2>1. said[t] \in Seq(Messages) /\ \A k \in DOMAIN said[t] : Thread[said[t][k]] = t
    BY <1>1 DEF SaidInItsThread
  <2>2. /\ new \in Seq(Messages) /\ DOMAIN new = 1 .. Len(said[t]) + 1 /\ Len(said[t]) \in Nat
        /\ DOMAIN said[t] = 1 .. Len(said[t])
        /\ new[Len(said[t]) + 1] = m /\ \A k \in 1 .. Len(said[t]) : new[k] = said[t][k]
    BY <2>1
  <2> HIDE DEF new
  <2>3. ASSUME NEW k \in DOMAIN new PROVE Thread[new[k]] = t
    <3>1. k \in 1 .. Len(said[t]) \/ k = Len(said[t]) + 1
      BY <2>2
    <3>2. CASE k \in 1 .. Len(said[t])
      BY <2>1, <2>2, <3>2
    <3>3. CASE k = Len(said[t]) + 1
      BY <2>2, <3>3
    <3> QED
      BY <3>1, <3>2, <3>3
  <2>4. said' \in [Threads -> Seq(Messages)]
    BY <1>1, <1>2, <2>2 DEF SaidInItsThread
  <2>5. \A u \in Threads : (said'[u] = new /\ u = t) \/ said'[u] = said[u]
    BY <1>1, <1>2 DEF SaidInItsThread
  <2> QED
    BY <1>1, <2>3, <2>4, <2>5 DEF SaidInItsThread
<1>6. SaidOnce'
  <2>1. said[t] \in Seq(Messages) /\ ~\E k \in DOMAIN said[t] : said[t][k] = m
    BY <1>1, <1>2 DEF SaidInItsThread, SaidOnce
  <2>2. /\ DOMAIN new = 1 .. Len(said[t]) + 1 /\ Len(said[t]) \in Nat
        /\ DOMAIN said[t] = 1 .. Len(said[t])
        /\ new[Len(said[t]) + 1] = m /\ \A k \in 1 .. Len(said[t]) : new[k] = said[t][k]
    BY <2>1
  <2> HIDE DEF new
  <2>3. \A x \in Messages \ {m}, k \in DOMAIN new : new[k] = x <=> k \in DOMAIN said[t] /\ said[t][k] = x
    BY <2>1, <2>2
  <2>4. \A k \in DOMAIN new : new[k] = m <=> k = Len(said[t]) + 1
    BY <2>1, <2>2
  <2>5. \A x \in Messages : IF Thread[x] = t THEN said'[Thread[x]] = new
                                             ELSE said'[Thread[x]] = said[Thread[x]]
    <3>1. said'[t] = new /\ \A u \in Threads \ {t} : said'[u] = said[u]
      BY <1>1, <1>2 DEF SaidInItsThread
    <3> QED
      BY <3>1, ThreadAssumption
  <2> SUFFICES ASSUME NEW x \in Messages
               PROVE  LET s == said'[Thread[x]]
                      IN  /\ work'[x].status = "absent" <=> ~\E k \in DOMAIN s : s[k] = x
                          /\ \A j, k \in DOMAIN s : s[j] = x /\ s[k] = x => j = k
    BY DEF SaidOnce
  <2> DEFINE old == said[Thread[x]]
  <2>a. /\ work[x].status = "absent" <=> ~\E k \in DOMAIN old : old[k] = x
        /\ \A j, k \in DOMAIN old : old[j] = x /\ old[k] = x => j = k
    BY <1>1 DEF SaidOnce
  <2>6. CASE Thread[x] # t
    BY <1>3, <2>5, <2>6, <2>a
  <2>7. CASE x = m
    <3>1. said'[Thread[x]] = new /\ work'[x].status = "ready"
      BY <1>3, <2>5, <2>7
    <3>2. Len(said[t]) + 1 \in DOMAIN new
      BY <2>2
    <3>3. \A k \in DOMAIN new : new[k] = x <=> k = Len(said[t]) + 1
      BY <2>4, <2>7
    <3> QED
      BY <3>1, <3>2, <3>3, Zenon
  <2>8. CASE Thread[x] = t /\ x # m
    <3>1. /\ said'[Thread[x]] = new /\ work'[x] = work[x]
          /\ \A k \in DOMAIN new : new[k] = x <=> k \in DOMAIN old /\ old[k] = x
      BY <1>3, <2>3, <2>5, <2>8
    <3>2. \A k \in DOMAIN old : k \in DOMAIN new
      BY <2>2, <2>8
    <3> HIDE DEF old
    <3> QED
      BY <2>a, <3>1, <3>2
  <2> QED
    BY <2>6, <2>7, <2>8
<1>7. TypeOK' /\ TurnsHaveMessages'
  <2>1. \A u \in Threads : \A k \in DOMAIN said'[u] : said'[u][k] \in Messages
    BY <1>5 DEF SaidInItsThread
  <2>2. TurnsHaveMessages'
    BY <1>1, <1>2 DEF TurnsHaveMessages
  <2>3. work' \in [Messages -> Rows]
    BY <1>3
  <2> QED
    BY <1>1, <1>2, <2>1, <2>2, <2>3 DEF TypeOK, Rows
<1> QED
  BY <1>4, <1>5, <1>6, <1>7 DEF WorkInv

\* A claim costs an attempt, and one that was abandoned is spent by it.
LEMMA ClaimKeepsInv ==
    ASSUME WorkInv, NEW w \in Workers, ClaimSlackMessageWork(w)
    PROVE  WorkInv'
<1>0. /\ TypeOK /\ work \in [Messages -> Rows] /\ spent \in [Messages -> 0 .. MaxAttempts]
      /\ pc \in [Workers -> {"idle", "processing", "deferring", "failing"}]
      /\ mine \in [Workers -> [message : Messages \cup {None}, epoch : Generations \cup {0},
                               attempts : 0 .. Budget]]
      /\ recovered \in 0 .. MaxRecoveries
  BY DEF WorkInv, TypeOK, Rows
<1>1. PICK m \in Messages :
        LET tried == IF work[m].attempts >= Budget THEN work[m].attempts ELSE work[m].attempts + 1
        IN /\ Claimable(m)
           /\ work' = [work EXCEPT ![m] = [status |-> "leased", owner |-> w, epoch |-> NextEpoch(m),
                                           attempts |-> tried, ttl |-> LeaseFor]]
           /\ mine' = [mine EXCEPT ![w] = [message |-> m, epoch |-> NextEpoch(m), attempts |-> tried]]
           /\ Goes(w, IF tried >= Budget THEN "failing" ELSE "processing")
           /\ spent' = [spent EXCEPT ![m] =
                  IF work[m].status = "leased" /\ @ < MaxAttempts THEN @ + 1 ELSE @]
           /\ UNCHANGED <<conversation, recovered>>
  BY DEF ClaimSlackMessageWork
<1> DEFINE tried == IF work[m].attempts >= Budget THEN work[m].attempts ELSE work[m].attempts + 1
           row == [status |-> "leased", owner |-> w, epoch |-> NextEpoch(m),
                   attempts |-> tried, ttl |-> LeaseFor]
           held == [message |-> m, epoch |-> NextEpoch(m), attempts |-> tried]
           n == IF work[m].status = "leased" /\ spent[m] < MaxAttempts THEN spent[m] + 1 ELSE spent[m]
<1>2. NextEpoch(m) \in Generations
  BY <1>0, EpochFacts
<1>3. /\ work[m].attempts \in 0 .. Budget /\ work[m].status \in {"ready", "retry", "leased"}
      /\ spent[m] \in 0 .. MaxAttempts /\ RowEarned(work[m], spent[m])
  BY <1>0, <1>1 DEF Rows, Claimable, WorkInv, AttemptsAreSpent
<1>4. tried \in 0 .. Budget
  BY <1>3, LimitFacts
<1>5. n \in 0 .. MaxAttempts /\ RowEarned(row, n)
  BY <1>3, LimitFacts DEF RowEarned
<1>6. /\ work' = [work EXCEPT ![m] = row] /\ mine' = [mine EXCEPT ![w] = held]
      /\ spent' = [spent EXCEPT ![m] = n] /\ UNCHANGED <<conversation, recovered>>
      /\ \E step \in {"failing", "processing"} : pc' = [pc EXCEPT ![w] = step]
  BY <1>0, <1>1 DEF Goes
<1>7. /\ row \in Rows /\ row.status = "leased" /\ row.owner = w /\ row.attempts = tried
      /\ held.message = m /\ held.attempts = tried
      /\ held \in [message : Messages \cup {None}, epoch : Generations \cup {0}, attempts : 0 .. Budget]
  BY <1>2, <1>4, LimitFacts DEF Rows, Statuses
<1> HIDE DEF row, held, n, tried
<1>8. WorkersTypeOK'
  BY <1>0, <1>6, <1>7 DEF WorkersTypeOK
<1>9. ClaimsAgree'
  BY <1>0, <1>6, <1>7 DEF WorkInv, ClaimsAgree
<1>10. TurnsTypeOK' /\ TurnsHaveMessages' /\ said' = said
  BY <1>0, <1>6 DEF WorkInv, TypeOK, TurnsTypeOK, TurnsHaveMessages, conversation
<1> QED
  BY <1>0, <1>3, <1>5, <1>6, <1>7, <1>8, <1>9, <1>10, RowStep

\* What a worker does with the row it claimed.
LEMMA WorkersKeepInv ==
    ASSUME WorkInv, NEW w \in Workers,
           \/ Heartbeat(w) \/ ApplySlackMessageWork(w) \/ ApplyRefused(w)
           \/ DeferSlackMessageWork(w) \/ FailSlackMessageWork(w) \/ Crash(w)
    PROVE  WorkInv'
<1> DEFINE m == mine[w].message
<1>0. /\ TypeOK /\ spent \in [Messages -> 0 .. MaxAttempts]
      /\ TurnsTypeOK /\ TurnsHaveMessages
      /\ \A x \in Messages : RowEarned(work[x], spent[x])
      /\ work \in [Messages -> Rows]
  BY DEF WorkInv, TypeOK, TurnsTypeOK, AttemptsAreSpent, Rows
<1>1. UNCHANGED conversation => TurnsTypeOK' /\ TurnsHaveMessages' /\ said' = said
  BY <1>0 DEF conversation, TurnsTypeOK, TurnsHaveMessages
\* The row a worker holds, settled; what it spent is as it was.
<1>2. ASSUME Holds(w), NEW status \in {"retry", "complete"}, NEW attempts \in 0 .. Budget,
             work' = [work EXCEPT ![m] = [Settled(work[m], status) EXCEPT !.attempts = attempts]],
             status = "retry" => attempts <= spent[m] \/ spent[m] = MaxAttempts,
             UNCHANGED <<spent, recovered>>, said' = said, TurnsTypeOK', TurnsHaveMessages',
             Returns(w) \/ \E step \in {"failing"} : Goes(w, step) /\ UNCHANGED mine
      PROVE  WorkInv'
  <2> DEFINE row == [Settled(work[m], status) EXCEPT !.attempts = attempts]
  <2>1. /\ row \in Rows /\ row.status = status /\ row.ttl = 0 /\ row.attempts = attempts
    <3>1. status \in Statuses /\ work[m] \in Rows
      BY <1>2, HoldsFacts DEF Statuses
    <3>2. /\ Settled(work[m], status) \in Rows /\ Settled(work[m], status).status = status
          /\ Settled(work[m], status).ttl = 0
      BY <3>1, SettledFacts
    <3> HIDE DEF Settled
    <3> QED
      BY <1>2, <3>2 DEF Rows
  <2> HIDE DEF row
  <2>2. RowEarned(row, spent[m])
    BY <1>2, <2>1 DEF RowEarned
  <2>3. m \in Messages /\ spent[m] \in 0 .. MaxAttempts /\ spent' = [spent EXCEPT ![m] = spent[m]]
    BY <1>0, <1>2, HoldsFacts
  <2>4. work' = [work EXCEPT ![m] = row]
    BY <1>2 DEF row
  <2> QED
    BY <1>2, <2>1, <2>2, <2>3, <2>4, HeldRowStep, ZenonT(40)
<1>3. ASSUME Heartbeat(w) PROVE WorkInv'
  <2>1. CASE Holds(w) /\ work' = [work EXCEPT ![m].ttl = LeaseFor] /\ UNCHANGED <<pc, mine>>
    <3> DEFINE row == [work[m] EXCEPT !.ttl = LeaseFor]
    <3>1. /\ row \in Rows /\ row.status = "leased" /\ row.attempts = work[m].attempts
          /\ row.owner = w
      BY <2>1, HoldsFacts, LimitFacts DEF Rows
    <3>2. work' = [work EXCEPT ![m] = row]
      BY <2>1
    <3> HIDE DEF row
    <3>3. m \in Messages /\ RowEarned(row, spent[m]) /\ spent[m] \in 0 .. MaxAttempts
      BY <1>0, <2>1, <3>1, HoldsFacts DEF RowEarned
    <3>4. /\ spent' = [spent EXCEPT ![m] = spent[m]] /\ UNCHANGED <<conversation, recovered>>
          /\ Goes(w, "processing") /\ UNCHANGED mine
      BY <1>0, <1>3, <2>1 DEF Heartbeat, Goes, TypeOK
    <3> QED
      BY <1>1, <2>1, <3>1, <3>2, <3>3, <3>4, HeldRowStep
  <2>2. CASE UNCHANGED work /\ (Returns(w) \/ (Goes(w, "failing") /\ UNCHANGED mine))
    BY <1>3, <2>2, IdleRowStep DEF Heartbeat
  <2> QED
    BY <1>3, <2>1, <2>2 DEF Heartbeat
<1>4. ASSUME ApplySlackMessageWork(w) PROVE WorkInv'
  <2>1. Holds(w) /\ m \in Messages /\ work[m] \in Rows /\ Thread[m] \in Threads
    BY <1>4, HoldsFacts, ThreadAssumption DEF ApplySlackMessageWork
  <2>2. said' = said /\ TurnsTypeOK' /\ TurnsHaveMessages'
    BY <1>1, <1>4, <2>1, OpenTurnFacts DEF ApplySlackMessageWork
  <2>3. work[m].attempts \in 0 .. Budget
    BY <2>1 DEF Rows
  <2>4. [Settled(work[m], "complete") EXCEPT !.attempts = work[m].attempts] = Settled(work[m], "complete")
    BY <2>1 DEF Settled, Rows
  <2>5. work' = [work EXCEPT ![m] = Settled(work[m], "complete")]
    BY <1>4 DEF ApplySlackMessageWork
  <2> QED
    BY <1>2, <1>4, <2>1, <2>2, <2>3, <2>4, <2>5 DEF ApplySlackMessageWork
<1>5. ASSUME ApplyRefused(w) PROVE WorkInv'
  BY <1>5, IdleRowStep DEF ApplyRefused
<1>6. ASSUME DeferSlackMessageWork(w) PROVE WorkInv'
  <2>1. CASE UNCHANGED work
    BY <1>6, <2>1, IdleRowStep DEF DeferSlackMessageWork
  <2>2. CASE Holds(w) /\ work' = [work EXCEPT ![m] = Deferred(@)]
    <3>1. /\ m \in Messages /\ work[m] \in Rows /\ work[m].status = "leased"
          /\ work[m].attempts \in 0 .. Budget /\ RowEarned(work[m], spent[m])
          /\ spent[m] \in 0 .. MaxAttempts
      BY <1>0, <2>2, HoldsFacts DEF Rows
    <3> DEFINE attempts == Max({work[m].attempts - 1, 0})
    <3>3. work' = [work EXCEPT ![m] = [Settled(work[m], "retry") EXCEPT !.attempts = attempts]]
      BY <2>2 DEF Deferred
    <3>4. attempts = IF work[m].attempts - 1 >= 0 THEN work[m].attempts - 1 ELSE 0
      BY <3>1, MaxFacts
    <3>5. attempts \in 0 .. Budget /\ (attempts <= spent[m] \/ spent[m] = MaxAttempts)
      BY <3>1, <3>4, LimitFacts DEF RowEarned
    <3> HIDE DEF attempts
    <3> QED
      BY <1>1, <1>2, <1>6, <2>2, <3>3, <3>5 DEF DeferSlackMessageWork
  <2> QED
    BY <1>6, <2>1, <2>2 DEF DeferSlackMessageWork
<1>7. ASSUME FailSlackMessageWork(w) PROVE WorkInv'
  <2>1. CASE UNCHANGED <<work, spent>>
    BY <1>7, <2>1, IdleRowStep DEF FailSlackMessageWork
  <2>2. CASE /\ Holds(w)
             /\ work' = [work EXCEPT ![m] =
                    Settled(@, IF mine[w].attempts >= MaxAttempts THEN "terminal" ELSE "retry")]
             /\ spent' = [spent EXCEPT ![m] = IF @ < MaxAttempts THEN @ + 1 ELSE @]
    <3> DEFINE status == IF mine[w].attempts >= MaxAttempts THEN "terminal" ELSE "retry"
               row == Settled(work[m], status)
               n == IF spent[m] < MaxAttempts THEN spent[m] + 1 ELSE spent[m]
    <3>1. /\ m \in Messages /\ work[m] \in Rows /\ work[m].status = "leased"
          /\ work[m].attempts \in 0 .. Budget /\ mine[w].attempts = work[m].attempts
          /\ RowEarned(work[m], spent[m]) /\ spent[m] \in 0 .. MaxAttempts
      BY <1>0, <2>2, HoldsFacts DEF Rows
    <3>2. /\ row \in Rows /\ row.status = status /\ row.ttl = 0 /\ row.attempts = work[m].attempts
      BY <3>1, SettledFacts DEF Statuses
    <3>3. work' = [work EXCEPT ![m] = row] /\ spent' = [spent EXCEPT ![m] = n]
      BY <1>0, <2>2, <3>1
    <3> HIDE DEF row
    <3>4. n \in 0 .. MaxAttempts /\ RowEarned(row, n)
      BY <3>1, <3>2, LimitFacts DEF RowEarned
    <3>5. row.status # "leased" /\ row.status # "absent"
      BY <3>2
    <3> HIDE DEF n
    <3> QED
      BY <1>1, <1>7, <2>2, <3>2, <3>3, <3>4, <3>5, HeldRowStep DEF FailSlackMessageWork
  <2> QED
    BY <1>7, <2>1, <2>2 DEF FailSlackMessageWork
<1>8. ASSUME Crash(w) PROVE WorkInv'
  BY <1>8, IdleRowStep DEF Crash
<1> QED
  BY <1>3, <1>4, <1>5, <1>6, <1>7, <1>8

\* An operator gives a Message a new budget, with nothing spent of it.
LEMMA RecoverKeepsInv ==
    ASSUME WorkInv, NEW m \in Messages, RecoverSlackMessage(m)
    PROVE  WorkInv'
<1> DEFINE row == [work[m] EXCEPT !.status = "ready", !.attempts = 0]
<1>1. /\ work \in [Messages -> Rows] /\ work[m].status = "terminal" /\ work[m].ttl = 0
      /\ recovered' \in 0 .. MaxRecoveries /\ spent \in [Messages -> 0 .. MaxAttempts]
  BY LimitFacts DEF WorkInv, TypeOK, LeasesEnd, RecoverSlackMessage, Rows
<1>2. row \in Rows /\ row.status = "ready" /\ row.ttl = 0 /\ row.attempts = 0
  <2>1. work[m] \in Rows /\ 0 \in 0 .. Budget /\ "ready" \in Statuses
    BY <1>1, LimitFacts DEF Statuses
  <2> QED
    BY <1>1, <2>1 DEF Rows
<1>3. /\ work' = [work EXCEPT ![m] = row] /\ spent' = [spent EXCEPT ![m] = 0]
      /\ UNCHANGED <<conversation, pc, mine>>
  BY <1>1 DEF RecoverSlackMessage
<1> HIDE DEF row
<1>4. RowEarned(row, 0) /\ 0 \in 0 .. MaxAttempts
  BY <1>2, LimitFacts DEF RowEarned
<1>5. TurnsTypeOK' /\ TurnsHaveMessages' /\ said' = said /\ WorkersTypeOK'
  BY <1>3 DEF WorkInv, TypeOK, TurnsTypeOK, TurnsHaveMessages, WorkersTypeOK, conversation
<1>6. ClaimsAgree'
  BY <1>1, <1>2, <1>3 DEF WorkInv, ClaimsAgree
<1> QED
  BY <1>1, <1>2, <1>3, <1>4, <1>5, <1>6, RowStep

\* The clock brings every lease nearer to its end and changes nothing else.
LEMMA TickKeepsInv == WorkInv /\ Tick => WorkInv'
<1> SUFFICES ASSUME WorkInv, Tick PROVE WorkInv'
  OBVIOUS
<1>1. work \in [Messages -> Rows] /\ UNCHANGED <<said, turn, turns, running, pc, mine, spent, recovered>>
  BY DEF WorkInv, TypeOK, Rows, Tick, conversation
<1>2. ASSUME NEW m \in Messages
      PROVE  /\ work'[m] \in Rows /\ work'[m].status = work[m].status
             /\ work'[m].attempts = work[m].attempts /\ work'[m].owner = work[m].owner
             /\ work'[m].status # "leased" => work'[m].ttl = 0
  <2>1. work[m] \in Rows /\ work[m].ttl \in 0 .. LeaseFor
    BY <1>1 DEF Rows
  <2>2. PICK ttl \in 0 .. LeaseFor : ttl = Max({work[m].ttl - 1, 0})
    BY <2>1, TickFacts
  <2>3. work'[m] = [work[m] EXCEPT !.ttl = ttl]
    BY <2>2 DEF Tick
  <2>4. work[m].ttl = 0 => ttl = 0
    BY <2>1, <2>2, TickFacts
  <2> QED
    BY <2>1, <2>3, <2>4 DEF Rows, WorkInv, LeasesEnd
<1>3. work' \in [Messages -> Rows]
  BY <1>2 DEF Tick
<1>4. TypeOK'
  BY <1>1, <1>3 DEF WorkInv, TypeOK, Rows
<1>5. AttemptsAreSpent' /\ LeasesEnd' /\ ClaimsAgree'
  BY <1>1, <1>2 DEF WorkInv, AttemptsAreSpent, RowEarned, LeasesEnd, ClaimsAgree
<1>6. SaidInItsThread' /\ SaidOnce' /\ TurnsHaveMessages'
  <2>1. \A m \in Messages : work'[m].status = "absent" <=> work[m].status = "absent"
    BY <1>2
  <2>2. said' = said /\ turn' = turn /\ turns' = turns
    BY <1>1
  <2>3. SaidInItsThread' /\ TurnsHaveMessages'
    BY <2>2 DEF WorkInv, SaidInItsThread, TurnsHaveMessages
  <2>4. SaidOnce'
    BY <2>1, <2>2 DEF WorkInv, SaidOnce
  <2> QED
    BY <2>3, <2>4
<1> QED
  BY <1>4, <1>5, <1>6 DEF WorkInv

LEMMA WorkInvNext == WorkInv /\ [Next]_vars => WorkInv'
<1> SUFFICES ASSUME WorkInv, [Next]_vars PROVE WorkInv'
  OBVIOUS
\* Only the turns of a Conversation change.
<1>1. ASSUME UNCHANGED <<work, said, pc, mine, spent, recovered>>, TurnsTypeOK', TurnsHaveMessages'
      PROVE  WorkInv'
  BY <1>1 DEF WorkInv, TypeOK, TurnsTypeOK, AttemptsAreSpent, LeasesEnd, ClaimsAgree,
              SaidInItsThread, SaidOnce
<1>2. ASSUME NEW t \in Threads, TurnEnds(t) PROVE WorkInv'
  BY <1>1, <1>2 DEF TurnEnds, WorkInv, TypeOK, TurnsTypeOK, TurnsHaveMessages
<1>3. ASSUME NEW t \in Threads, AdmitTurn(t) PROVE WorkInv'
  BY <1>1, <1>3, OpenTurnFacts DEF AdmitTurn
<1>4. CASE UNCHANGED vars
  BY <1>1, <1>4 DEF vars, WorkInv, TypeOK, TurnsTypeOK, TurnsHaveMessages
<1> QED
  BY <1>2, <1>3, <1>4, RecordKeepsInv, RecoverKeepsInv, ClaimKeepsInv, WorkersKeepInv, TickKeepsInv
     DEF Next, ProcessOne

-----------------------------------------------------------------------------
(* The theorems. *)

\* A Message is given up only after MaxAttempts attempts that failed or were
\* abandoned, however often waiting for room put it off and whoever claimed it;
\* until then it is in its Conversation once, and every turn has a Message of its
\* own (ClaimSlackMessageWork, DeferSlackMessageWork, FailSlackMessageWork,
\* ApplySlackMessageWork).
THEOREM TerminalIsAlwaysEarned == Spec => []TerminalIsEarned
<1>1. ASSUME WorkInv, NEW m \in Messages
      PROVE  Cardinality({k \in DOMAIN said[Thread[m]] : said[Thread[m]][k] = m})
                 = (IF work[m].status = "absent" THEN 0 ELSE 1)
  <2> DEFINE places == {k \in DOMAIN said[Thread[m]] : said[Thread[m]][k] = m}
  <2>1. IF work[m].status = "absent" THEN places = {} ELSE \E k : places = {k}
    <3>1. /\ work[m].status = "absent" <=> places = {}
          /\ \A j, k \in places : j = k
      BY <1>1 DEF WorkInv, SaidOnce
    <3> HIDE DEF places
    <3>2. ASSUME NEW k \in places PROVE places = {k}
      BY <3>1
    <3> QED
      BY <3>1, <3>2
  <2> HIDE DEF places
  <2>2. Cardinality(places) = (IF work[m].status = "absent" THEN 0 ELSE 1)
    <3>1. CASE work[m].status = "absent"
      BY <2>1, <3>1, FS_EmptySet
    <3>2. CASE work[m].status # "absent"
      <4>1. PICK k : places = {k}
        BY <2>1, <3>2
      <4> QED
        BY <3>2, <4>1, FS_Singleton
    <3> QED
      BY <3>1, <3>2
  <2> QED
    BY <2>2 DEF places
<1>2. WorkInv => Consistent
  BY <1>1 DEF WorkInv, Consistent, WorkHasItsMessage
<1>3. WorkInv => \A m \in Messages : work[m].status = "terminal" => spent[m] >= MaxAttempts
  BY LimitFacts DEF WorkInv, AttemptsAreSpent, RowEarned
<1>4. WorkInv => TerminalIsEarned
  BY <1>2, <1>3 DEF TerminalIsEarned
<1> QED
  BY WorkInvInit, WorkInvNext, <1>4, PTL DEF Spec

\* While a lease is good only the worker that holds it settles the row, complete
\* stays complete, and only a recovery takes a Message out of terminal, whatever
\* workers that lost their claim still do (Holds, ClaimSlackMessageWork).
THEOREM LeaseIsAlwaysExclusive == Spec => LeaseIsExclusive
<1> DEFINE Kept(m) ==
        /\ work[m].status = "complete" => work'[m] = work[m]
        /\ work[m].status = "terminal" => work'[m] = work[m] \/ recovered' # recovered
        /\ (work[m].status = "leased" /\ work[m].ttl > 0 /\ work'[m].status # "leased") =>
              \E w \in Workers : /\ work[m].owner = w
                                 /\ mine[w].message = m
                                 /\ mine[w].epoch = work[m].epoch
                                 /\ pc'[w] # pc[w]
<1>1. ASSUME WorkInv, [Next]_vars, NEW m \in Messages PROVE Kept(m)
  <2>0. /\ work \in [Messages -> Rows] /\ work[m] \in Rows /\ recovered \in Nat
        /\ pc \in [Workers -> {"idle", "processing", "deferring", "failing"}]
        /\ work[m].ttl \in 0 .. LeaseFor
        /\ work[m].status # "leased" => work[m].ttl = 0
    BY <1>1 DEF WorkInv, TypeOK, LeasesEnd, Rows
  <2>1. CASE work'[m] = work[m]
    BY <2>1
  \* A worker settles the row it holds.
  <2>2. ASSUME NEW w \in Workers, Holds(w), NEW row,
               work' = [work EXCEPT ![mine[w].message] = row], pc'[w] # pc[w]
        PROVE  Kept(m)
    BY <1>1, <2>0, <2>2, HoldsFacts
  \* A row that is claimed or renewed is leased.
  <2>3. ASSUME NEW x \in Messages, NEW row, work' = [work EXCEPT ![x] = row],
               row.status = "leased", work[x].status \in {"ready", "retry", "leased"}
        PROVE  Kept(m)
    BY <2>0, <2>3
  <2> HIDE DEF Kept
  <2>4. ASSUME NEW w \in Workers, ClaimSlackMessageWork(w) PROVE Kept(m)
    <3>1. PICK x \in Messages :
            Claimable(x) /\ \E row : row.status = "leased" /\ work' = [work EXCEPT ![x] = row]
      BY <2>4, Zenon DEF ClaimSlackMessageWork
    <3> QED
      BY <2>3, <3>1 DEF Claimable
  <2>5. ASSUME NEW w \in Workers, Heartbeat(w) PROVE Kept(m)
    <3>1. CASE UNCHANGED work
      BY <2>1, <3>1
    <3>2. CASE Holds(w) /\ work' = [work EXCEPT ![mine[w].message].ttl = LeaseFor]
      <4> DEFINE row == [work[mine[w].message] EXCEPT !.ttl = LeaseFor]
      <4>1. work' = [work EXCEPT ![mine[w].message] = row]
        BY <3>2
      <4>2. /\ row.status = "leased" /\ mine[w].message \in Messages
            /\ work[mine[w].message].status = "leased"
        BY <1>1, <3>2, HoldsFacts DEF Rows
      <4> HIDE DEF row
      <4> QED
        BY <2>3, <4>1, <4>2
    <3> QED
      BY <2>5, <3>1, <3>2 DEF Heartbeat
  <2>6. ASSUME NEW w \in Workers,
               ApplySlackMessageWork(w) \/ DeferSlackMessageWork(w) \/ FailSlackMessageWork(w)
        PROVE  Kept(m)
    <3>1. pc'[w] # pc[w]
      BY <2>0, <2>6 DEF ApplySlackMessageWork, DeferSlackMessageWork, FailSlackMessageWork, Returns, Goes
    <3>2. UNCHANGED work \/ (Holds(w) /\ \E row : work' = [work EXCEPT ![mine[w].message] = row])
      BY <2>6 DEF ApplySlackMessageWork, DeferSlackMessageWork, FailSlackMessageWork
    <3> QED
      BY <2>1, <2>2, <3>1, <3>2
  <2>7. ASSUME NEW x \in Messages, RecordSlackMessage(x) PROVE Kept(m)
    BY <2>0, <2>7 DEF RecordSlackMessage, Kept
  <2>8. ASSUME NEW x \in Messages, RecoverSlackMessage(x) PROVE Kept(m)
    BY <2>0, <2>8 DEF RecoverSlackMessage, Kept
  <2>9. CASE Tick
    <3>1. PICK ttl \in 0 .. LeaseFor :
            work'[m] = [work[m] EXCEPT !.ttl = ttl] /\ (work[m].ttl = 0 => ttl = 0)
      BY <2>0, <2>9, TickFacts DEF Tick
    <3>2. work'[m].status = work[m].status /\ (work[m].ttl = 0 => work'[m] = work[m])
      BY <2>0, <3>1 DEF Rows
    <3> QED
      BY <2>0, <3>2 DEF Kept
  <2>10. ASSUME NEW w \in Workers, ApplyRefused(w) \/ Crash(w) PROVE Kept(m)
    BY <2>1, <2>10 DEF ApplyRefused, Crash
  <2>11. ASSUME NEW t \in Threads, TurnEnds(t) \/ AdmitTurn(t) PROVE Kept(m)
    BY <2>1, <2>11 DEF TurnEnds, AdmitTurn
  <2>12. CASE UNCHANGED vars
    BY <2>1, <2>12 DEF vars
  <2> QED
    BY <1>1, <2>4, <2>5, <2>6, <2>7, <2>8, <2>9, <2>10, <2>11, <2>12 DEF Next, ProcessOne
<1>2. WorkInv /\ [Next]_vars => \A m \in Messages : Kept(m)
  BY <1>1
<1> QED
  BY WorkInvInit, WorkInvNext, <1>2, PTL DEF Spec, LeaseIsExclusive

-----------------------------------------------------------------------------
(* Event streams. *)

Increasing(s) == \A i, j \in DOMAIN s : i < j => s[i] < s[j]

\* Everything visible up to its last element, in order.
Complete(s, visible) ==
    /\ Increasing(s)
    /\ {s[i] : i \in DOMAIN s} = {n \in visible : n <= Last(s)}

\* What is to be written comes next: visible, in order, without a gap.
ComesNext(page, after, visible) ==
    /\ page # <<>>
    /\ Increasing(page)
    /\ \A i \in DOMAIN page : page[i] \in visible /\ after < page[i]
    /\ \A n \in visible : after < n /\ n <= page[Len(page)] => \E i \in DOMAIN page : page[i] = n

VisibleIn(events) == {n \in DOMAIN events : events[n] # Retired}

\* LIMIT gives the first rows, in order and without a gap.
FirstPart(p, rows, limit) ==
    /\ p \in Seq(rows) /\ Len(p) <= limit
    /\ p = <<>> <=> rows = {}
    /\ Increasing(p)
    /\ p # <<>> => \A n \in rows : n <= p[Len(p)] => \E i \in DOMAIN p : p[i] = n

LEMMA FirstOfFacts ==
    ASSUME NEW N \in Nat, NEW rows \in SUBSET (1 .. N), NEW limit \in Nat \ {0}
    PROVE  FirstPart(FirstOf(rows, limit), rows, limit)
<1> DEFINE Upto(n) == {m \in rows : m <= n}
           Place(n) == Cardinality(Upto(n))
           C == Cardinality(rows)
           M == IF C < limit THEN C ELSE limit
           p == FirstOf(rows, limit)
<1>1. IsFiniteSet(rows) /\ C \in Nat
  <2>1. IsFiniteSet(1 .. N)
    BY FS_Interval
  <2>2. IsFiniteSet(rows)
    BY <2>1, FS_Subset
  <2> QED
    BY <2>2, FS_CardinalityType
<1>2. \A n \in rows : IsFiniteSet(Upto(n)) /\ Place(n) \in Nat /\ Upto(n) \in SUBSET rows
  <2> SUFFICES ASSUME NEW n \in rows
               PROVE IsFiniteSet(Upto(n)) /\ Place(n) \in Nat /\ Upto(n) \in SUBSET rows
    OBVIOUS
  <2>1. Upto(n) \in SUBSET rows
    OBVIOUS
  <2> HIDE DEF Upto
  <2>2. IsFiniteSet(Upto(n))
    BY <1>1, <2>1, FS_Subset, Zenon
  <2> QED
    BY <2>1, <2>2, FS_CardinalityType
<1>3. \A n \in rows : n \in Nat /\ n \in Int
  OBVIOUS
<1>4. ASSUME NEW m \in rows, NEW n \in rows, m < n PROVE Place(m) < Place(n)
  <2>0. m \in Nat /\ n \in Nat /\ n <= n /\ ~(n <= m)
    BY <1>3, <1>4
  <2>4. \A x \in rows : x <= m => x <= n
    BY <1>3, <1>4, <2>0
  <2>1. n \in Upto(n) /\ n \notin Upto(m) /\ Upto(m) \in SUBSET Upto(n)
    BY <2>0, <2>4, Zenon
  <2> HIDE DEF Upto
  <2>2. /\ Cardinality(Upto(m)) <= Cardinality(Upto(n))
        /\ Cardinality(Upto(n)) = Cardinality(Upto(m)) => Upto(n) = Upto(m)
    BY <1>2, <2>1, FS_Subset
  <2>3. Cardinality(Upto(m)) # Cardinality(Upto(n))
    BY <2>1, <2>2
  <2> QED
    BY <1>2, <2>2, <2>3
<1>5. \A n \in rows : Place(n) \in 1 .. C
  <2> SUFFICES ASSUME NEW n \in rows PROVE Place(n) \in 1 .. C
    OBVIOUS
  <2>1. n \in Upto(n)
    BY <1>3
  <2> HIDE DEF Upto
  <2>2. Cardinality(Upto(n)) <= C
    BY <1>1, <1>2, FS_Subset
  <2>3. Cardinality(Upto(n)) # 0
    BY <1>2, <2>1, FS_EmptySet
  <2> QED
    BY <1>1, <1>2, <2>2, <2>3
<1>6. \A m, n \in rows : Place(m) = Place(n) => m = n
  <2> SUFFICES ASSUME NEW m \in rows, NEW n \in rows, Place(m) = Place(n), m # n PROVE FALSE
    OBVIOUS
  <2>1. m < n \/ n < m
    BY <1>3
  <2>2. Place(m) \in Nat /\ Place(n) \in Nat
    BY <1>2
  <2> HIDE DEF Place
  <2>3. Place(m) < Place(n) \/ Place(n) < Place(m)
    BY <1>4, <2>1
  <2> QED
    BY <2>2, <2>3
<1> HIDE DEF Place
<1>7. \A k \in 1 .. C : \E n \in rows : Place(n) = k
  <2> DEFINE f == [n \in rows |-> Place(n)]
  <2>1. f \in Injection(rows, 1 .. C)
    BY <1>5, <1>6 DEF Injection, IsInjective
  <2>2. IsFiniteSet(1 .. C) /\ Cardinality(1 .. C) = C
    BY <1>1, FS_Interval
  <2>3. f \in Surjection(rows, 1 .. C)
    BY <2>1, <2>2, FS_Injection, Zenon
  <2> QED
    BY <2>3 DEF Surjection
<1>8. p = [k \in 1 .. M |-> CHOOSE n \in rows : Place(n) = k]
  BY DEF FirstOf, Place
<1>9. M \in Nat /\ M <= limit /\ M <= C /\ (M = 0 <=> C = 0) /\ \A k \in 1 .. M : k \in 1 .. C
  BY <1>1
<1> HIDE DEF M, p, C
<1>10. \A k \in 1 .. M : p[k] \in rows /\ Place(p[k]) = k
  <2>1. \A k \in 1 .. M : p[k] = CHOOSE n \in rows : Place(n) = k
    BY <1>8
  <2> QED
    BY <1>7, <1>9, <2>1
<1>11. p \in Seq(rows) /\ Len(p) = M /\ DOMAIN p = 1 .. M
  <2>1. p \in [1 .. M -> rows]
    BY <1>8, <1>10
  <2> QED
    BY <1>9, <2>1
<1>12. p = <<>> <=> rows = {}
  <2>1. p = <<>> <=> M = 0
    BY <1>9, <1>11
  <2>2. C = 0 <=> rows = {}
    BY <1>1, FS_EmptySet DEF C
  <2> QED
    BY <1>9, <2>1, <2>2
<1>13. Increasing(p)
  <2> SUFFICES ASSUME NEW i \in 1 .. M, NEW j \in 1 .. M, i < j PROVE p[i] < p[j]
    BY <1>11 DEF Increasing
  <2>1. p[i] \in Nat /\ p[j] \in Nat /\ p[i] \in rows /\ p[j] \in rows /\ Place(p[i]) = i /\ Place(p[j]) = j
    BY <1>3, <1>10
  <2>2. p[i] = p[j] => i = j
    BY <2>1
  <2>3. p[j] < p[i] => j < i
    BY <1>4, <2>1
  <2> QED
    BY <1>9, <2>1, <2>2, <2>3
<1>14. ASSUME p # <<>>, NEW n \in rows, n <= p[Len(p)] PROVE \E i \in DOMAIN p : p[i] = n
  <2>1. M \in 1 .. M
    BY <1>9, <1>11, <1>14
  <2>2. p[M] \in rows /\ Place(p[M]) = M /\ n <= p[M]
    BY <1>10, <1>11, <1>14, <2>1
  <2>3. n < p[M] => Place(n) < M
    BY <1>4, <2>2
  <2>8. n \in Nat /\ p[M] \in Nat
    BY <1>3, <2>2, Zenon
  <2>4. n = p[M] \/ n < p[M]
    BY <2>2, <2>8
  <2>5. Place(n) \in 1 .. M
    BY <1>5, <1>9, <2>2, <2>3, <2>4
  <2>6. p[Place(n)] \in rows /\ Place(p[Place(n)]) = Place(n)
    BY <1>10, <2>5
  <2>7. p[Place(n)] = n
    BY <1>6, <2>6
  <2> QED
    BY <1>11, <2>5, <2>7
<1>15. Len(p) <= limit
  BY <1>9, <1>11
<1> QED
  BY <1>11, <1>12, <1>13, <1>14, <1>15 DEF p, FirstPart

\* What is complete has only what is visible, up to its last element.
LEMMA CompleteFacts ==
    ASSUME NEW s \in Seq(Nat), NEW visible \in SUBSET (Nat \ {0})
    PROVE  /\ Last(s) \in Nat
           /\ s # <<>> => Len(s) \in DOMAIN s /\ Last(s) = s[Len(s)]
           /\ s = <<>> => Last(s) = 0 /\ DOMAIN s = {}
           /\ Increasing(s) => \A i \in DOMAIN s : s[i] <= Last(s)
           /\ Complete(s, visible) <=>
                /\ Increasing(s)
                /\ \A i \in DOMAIN s : s[i] \in visible
                /\ \A n \in visible : n <= Last(s) => \E i \in DOMAIN s : s[i] = n
<1>1. Len(s) \in Nat /\ DOMAIN s = 1 .. Len(s) /\ \A i \in 1 .. Len(s) : s[i] \in Nat
  OBVIOUS
<1>2. s = <<>> => Last(s) = 0 /\ DOMAIN s = {}
  BY DEF Last
<1>3. s # <<>> => Len(s) \in DOMAIN s /\ Last(s) = s[Len(s)]
  BY <1>1 DEF Last
<1>4. Last(s) \in Nat
  BY <1>1, <1>2, <1>3
<1>5. ASSUME Increasing(s), NEW i \in DOMAIN s PROVE s[i] <= Last(s)
  <2>1. s # <<>> /\ i \in 1 .. Len(s)
    BY <1>1, <1>2
  <2>2. Len(s) \in DOMAIN s /\ Last(s) = s[Len(s)] /\ (i = Len(s) \/ i < Len(s))
    BY <1>1, <1>3, <2>1
  <2>3. s[i] \in Nat /\ s[Len(s)] \in Nat
    BY <1>1, <2>1, <2>2
  <2>4. CASE i = Len(s)
    BY <2>2, <2>3, <2>4
  <2>5. CASE i < Len(s)
    <3>1. s[i] < s[Len(s)]
      BY <1>5, <2>2, <2>5 DEF Increasing
    <3> QED
      BY <2>2, <2>3, <3>1
  <2> QED
    BY <2>2, <2>4, <2>5
<1>6. ASSUME Complete(s, visible)
      PROVE  /\ Increasing(s)
             /\ \A i \in DOMAIN s : s[i] \in visible
             /\ \A n \in visible : n <= Last(s) => \E i \in DOMAIN s : s[i] = n
  <2>1. Increasing(s) /\ {s[i] : i \in DOMAIN s} = {n \in visible : n <= Last(s)}
    BY <1>6, Zenon DEF Complete
  <2>2. \A i \in DOMAIN s : s[i] \in {s[k] : k \in DOMAIN s}
    OBVIOUS
  <2>3. \A n \in {s[k] : k \in DOMAIN s} : \E i \in DOMAIN s : s[i] = n
    OBVIOUS
  <2> QED
    BY <2>1, <2>2, <2>3, Zenon
<1>7. ASSUME Increasing(s),
             \A i \in DOMAIN s : s[i] \in visible,
             \A n \in visible : n <= Last(s) => \E i \in DOMAIN s : s[i] = n
      PROVE  Complete(s, visible)
  <2>1. ASSUME NEW x \in {s[i] : i \in DOMAIN s} PROVE x \in {n \in visible : n <= Last(s)}
    BY <1>5, <1>7, <2>1
  <2>2. ASSUME NEW x \in {n \in visible : n <= Last(s)} PROVE x \in {s[i] : i \in DOMAIN s}
    BY <1>7, <2>2, Zenon
  <2> QED
    BY <1>7, <2>1, <2>2 DEF Complete
<1> QED
  BY <1>2, <1>3, <1>4, <1>5, <1>6, <1>7, Zenon

\* A first part of what is complete is complete.
LEMMA PrefixIsComplete ==
    ASSUME NEW r \in Seq(Nat), NEW w \in Seq(Nat), NEW visible \in SUBSET (Nat \ {0}),
           Complete(r \o w, visible)
    PROVE  Complete(r, visible)
<1> DEFINE q == r \o w
<1>0. q \in Seq(Nat)
  OBVIOUS
<1>1. /\ Len(r) \in Nat /\ Len(w) \in Nat /\ Len(q) = Len(r) + Len(w)
      /\ DOMAIN r = 1 .. Len(r) /\ DOMAIN q = 1 .. Len(r) + Len(w)
      /\ \A i \in 1 .. Len(r) : q[i] = r[i] /\ r[i] \in Nat
      /\ \A i \in 1 .. Len(r) + Len(w) : q[i] \in Nat
  <2>1. Len(q) = Len(r) + Len(w) /\ \A i \in 1 .. Len(r) : q[i] = r[i]
    OBVIOUS
  <2> HIDE DEF q
  <2> QED
    BY <1>0, <2>1, SMTT(40)
<1>2. Complete(q, visible)
  OBVIOUS
<1> HIDE DEF q
<1>3. /\ Increasing(q)
      /\ \A i \in DOMAIN q : q[i] \in visible
      /\ \A n \in visible : n <= Last(q) => \E i \in DOMAIN q : q[i] = n
      /\ \A i \in DOMAIN q : q[i] <= Last(q)
  BY <1>0, <1>2, CompleteFacts
<1>4. \A i \in 1 .. Len(r) : i \in DOMAIN q
  BY <1>1
<1>5. Increasing(r)
  BY <1>1, <1>3, <1>4 DEF Increasing
<1>6. \A i \in DOMAIN r : r[i] \in visible
  BY <1>1, <1>3, <1>4
<1>7. ASSUME NEW n \in visible, n <= Last(r) PROVE \E i \in DOMAIN r : r[i] = n
  <2>0. r # <<>>
    <3>1. SUFFICES ASSUME r = <<>> PROVE FALSE
      OBVIOUS
    <3>2. n <= 0 /\ n \in Nat \ {0}
      BY <1>7, <3>1 DEF Last
    <3> QED
      BY <3>2
  <2>1. Last(r) = r[Len(r)] /\ Len(r) \in DOMAIN r /\ Len(r) \in 1 .. Len(r)
    BY <1>1, <2>0, CompleteFacts
  <2>2. q[Len(r)] = r[Len(r)] /\ Len(r) \in DOMAIN q /\ q[Len(r)] \in Nat
    BY <1>1, <1>4, <2>1
  <2>3. q[Len(r)] <= Last(q) /\ Last(q) \in Nat
    BY <1>0, <1>3, <2>2, CompleteFacts
  <2>4. n <= Last(q) /\ n <= q[Len(r)] /\ n \in Nat
    BY <1>7, <2>1, <2>2, <2>3
  <2>5. PICK i \in DOMAIN q : q[i] = n
    BY <1>3, <2>4
  <2>6. ~(Len(r) < i)
    <3> SUFFICES ASSUME Len(r) < i PROVE FALSE
      OBVIOUS
    <3>1. q[Len(r)] < q[i]
      BY <1>3, <2>2 DEF Increasing
    <3> QED
      BY <2>2, <2>4, <2>5, <3>1
  <2>7. i \in 1 .. Len(r)
    BY <1>1, <2>6
  <2> QED
    BY <1>1, <2>5, <2>7
<1> QED
  BY <1>5, <1>6, <1>7, CompleteFacts

\* What comes next may be added, and the rest of it comes next then.
LEMMA NextIsComplete ==
    ASSUME NEW q \in Seq(Nat), NEW page \in Seq(Nat), NEW visible \in SUBSET (Nat \ {0}),
           Complete(q, visible), ComesNext(page, Last(q), visible)
    PROVE  LET n == Head(page)
           IN  /\ n \in visible /\ n \in Nat
               /\ Complete(Append(q, n), visible) /\ Last(Append(q, n)) = n
               /\ Tail(page) \in Seq(Nat)
               /\ Tail(page) # <<>> => ComesNext(Tail(page), n, visible)
<1> DEFINE n == Head(page)
           more == Append(q, n)
           rest == Tail(page)
<1>1. /\ page # <<>> /\ Increasing(page)
      /\ \A i \in DOMAIN page : page[i] \in visible /\ Last(q) < page[i]
      /\ \A m \in visible : Last(q) < m /\ m <= page[Len(page)] => \E i \in DOMAIN page : page[i] = m
  BY DEF ComesNext
<1>2. /\ Len(page) \in Nat /\ Len(page) >= 1 /\ DOMAIN page = 1 .. Len(page) /\ n = page[1]
      /\ 1 \in 1 .. Len(page) /\ Len(page) \in 1 .. Len(page)
      /\ rest \in Seq(Nat) /\ Len(rest) = Len(page) - 1 /\ DOMAIN rest = 1 .. Len(page) - 1
      /\ \A i \in 1 .. Len(page) - 1 : rest[i] = page[i + 1]
      /\ \A i \in 1 .. Len(page) : page[i] \in Nat
  <2>1. n = page[1] /\ rest \in Seq(Nat) /\ Len(rest) = Len(page) - 1
        /\ \A i \in 1 .. Len(page) - 1 : rest[i] = page[i + 1]
    BY <1>1
  <2>2. Len(page) \in Nat /\ Len(page) >= 1 /\ DOMAIN page = 1 .. Len(page)
        /\ \A i \in 1 .. Len(page) : page[i] \in Nat
    BY <1>1
  <2> HIDE DEF n, rest
  <2> QED
    BY <2>1, <2>2
<1>3. n \in visible /\ n \in Nat /\ Last(q) < n
  BY <1>1, <1>2
<1> HIDE DEF n, rest
<1>4. /\ more \in Seq(Nat) /\ Len(more) = Len(q) + 1 /\ DOMAIN more = 1 .. Len(q) + 1
      /\ more[Len(q) + 1] = n /\ \A i \in 1 .. Len(q) : more[i] = q[i]
      /\ Len(q) \in Nat /\ DOMAIN q = 1 .. Len(q) /\ more # <<>> /\ \A i \in 1 .. Len(q) : q[i] \in Nat
  <2>1. Len(q) \in Nat /\ DOMAIN q = 1 .. Len(q) /\ \A i \in 1 .. Len(q) : q[i] \in Nat
    OBVIOUS
  <2>2. more \in Seq(Nat) /\ Len(more) = Len(q) + 1
    BY <1>3
  <2>3. more[Len(q) + 1] = n /\ \A i \in 1 .. Len(q) : more[i] = q[i]
    BY <1>3, <2>1
  <2> HIDE DEF more
  <2> QED
    BY <2>1, <2>2, <2>3
<1> HIDE DEF more
<1>5. Last(more) = n
  BY <1>4, CompleteFacts
<1>6. /\ Increasing(q) /\ \A i \in DOMAIN q : q[i] \in visible /\ q[i] <= Last(q)
      /\ \A m \in visible : m <= Last(q) => \E i \in DOMAIN q : q[i] = m
      /\ Last(q) \in Nat
  BY CompleteFacts
<1>7. \A i \in 1 .. Len(q) + 1 : i = Len(q) + 1 \/ i \in 1 .. Len(q)
  BY <1>4
<1>8. Increasing(more)
  <2> SUFFICES ASSUME NEW i \in 1 .. Len(q) + 1, NEW j \in 1 .. Len(q) + 1, i < j
               PROVE  more[i] < more[j]
    BY <1>4 DEF Increasing
  <2>1. i \in 1 .. Len(q) /\ more[i] = q[i]
    BY <1>4, SMTT(40)
  <2>2. CASE j = Len(q) + 1
    <3>1. q[i] <= Last(q) /\ q[i] \in Nat
      BY <1>4, <1>6, <2>1
    <3> QED
      BY <1>3, <1>4, <1>6, <2>1, <2>2, <3>1
  <2>3. CASE j \in 1 .. Len(q)
    <3>1. q[i] < q[j]
      BY <1>4, <1>6, <2>1, <2>3 DEF Increasing
    <3> QED
      BY <1>4, <2>1, <2>3, <3>1
  <2> QED
    BY <1>7, <2>2, <2>3
<1>9. \A i \in DOMAIN more : more[i] \in visible
  BY <1>3, <1>4, <1>6, <1>7
<1>10. ASSUME NEW m \in visible, m <= Last(more) PROVE \E i \in DOMAIN more : more[i] = m
  <2>0. m <= n /\ m \in Nat
    BY <1>5, <1>10
  <2>1. CASE m <= Last(q)
    <3>1. PICK i \in DOMAIN q : q[i] = m
      BY <1>6, <2>1
    <3>2. i \in DOMAIN more /\ more[i] = m
      BY <1>4, <3>1
    <3> QED
      BY <3>2
  <2>2. CASE Last(q) < m
    <3>1. n <= page[Len(page)] /\ page[Len(page)] \in Nat
      <4>1. Len(page) = 1 \/ 1 < Len(page)
        BY <1>2
      <4>2. 1 < Len(page) => page[1] < page[Len(page)]
        BY <1>1, <1>2 DEF Increasing
      <4> QED
        BY <1>2, <1>3, <4>1, <4>2
    <3>2. m <= page[Len(page)]
      BY <1>3, <2>0, <3>1
    <3>3. PICK i \in DOMAIN page : page[i] = m
      BY <1>1, <2>2, <3>2
    <3>4. i = 1 \/ 1 < i
      BY <1>2
    <3>5. 1 < i => n < m
      BY <1>1, <1>2, <3>3 DEF Increasing
    <3>6. m = n
      BY <1>2, <1>3, <2>0, <3>3, <3>4, <3>5
    <3>7. Len(q) + 1 \in DOMAIN more
      BY <1>4
    <3> QED
      BY <1>4, <3>6, <3>7
  <2> QED
    BY <1>6, <2>0, <2>1, <2>2
<1>11. Complete(more, visible)
  BY <1>4, <1>8, <1>9, <1>10, CompleteFacts
<1>12. ASSUME rest # <<>> PROVE ComesNext(rest, n, visible)
  <2>1. Len(page) - 1 \in 1 .. Len(page) - 1 /\ rest[Len(rest)] = page[Len(page)]
    BY <1>2, <1>12
  <2>2. \A i \in 1 .. Len(page) - 1 : i + 1 \in 1 .. Len(page) /\ 1 < i + 1
    BY <1>2
  <2>3. \A i \in DOMAIN rest : rest[i] \in visible /\ n < rest[i]
    <3> SUFFICES ASSUME NEW i \in 1 .. Len(page) - 1 PROVE rest[i] \in visible /\ n < rest[i]
      BY <1>2
    <3>1. i + 1 \in 1 .. Len(page) /\ 1 < i + 1 /\ rest[i] = page[i + 1]
      BY <1>2, <2>2
    <3>2. page[1] < page[i + 1]
      BY <1>1, <1>2, <3>1 DEF Increasing
    <3> QED
      BY <1>1, <1>2, <3>1, <3>2
  <2>4. Increasing(rest)
    <3> SUFFICES ASSUME NEW i \in 1 .. Len(page) - 1, NEW j \in 1 .. Len(page) - 1, i < j
                 PROVE  rest[i] < rest[j]
      BY <1>2 DEF Increasing
    <3>1. i + 1 \in 1 .. Len(page) /\ j + 1 \in 1 .. Len(page) /\ i + 1 < j + 1
      BY <1>2
    <3>2. page[i + 1] < page[j + 1]
      BY <1>1, <1>2, <3>1 DEF Increasing
    <3> QED
      BY <1>2, <3>2
  <2>5. ASSUME NEW m \in visible, n < m, m <= rest[Len(rest)] PROVE \E i \in DOMAIN rest : rest[i] = m
    <3>1. Last(q) < m /\ m <= page[Len(page)] /\ m \in Nat
      BY <1>3, <1>6, <2>1, <2>5
    <3>2. PICK i \in DOMAIN page : page[i] = m
      BY <1>1, <3>1
    <3>3. i # 1
      BY <1>2, <1>3, <2>5, <3>1, <3>2
    <3>4. i - 1 \in 1 .. Len(page) - 1 /\ (i - 1) + 1 = i
      BY <1>2, <3>3, SMTT(40)
    <3>5. i - 1 \in DOMAIN rest /\ rest[i - 1] = m
      BY <1>2, <3>2, <3>4
    <3> QED
      BY <3>5
  <2> QED
    BY <1>12, <2>3, <2>4, <2>5 DEF ComesNext
<1> QED
  BY <1>2, <1>3, <1>5, <1>11, <1>12 DEF n, more, rest
-----------------------------------------------------------------------------

Stream == [pc : {"closed", "read", "status", "write", "wait"}, after : Nat,
           found : {"running", "ended"}, page : Seq(Nat), full : BOOLEAN]

\* A client and the handler that serves it, by the events there are and the status.
ClientIsSound(s, w, r, events, state) ==
    /\ s \in Stream /\ w \in Seq(Nat) /\ r \in Seq(Nat)
    /\ s.after <= Len(events)
    /\ \A i \in DOMAIN s.page : s.page[i] \in DOMAIN events
    /\ Complete(r \o w, VisibleIn(events))
    /\ s.pc # "closed" => s.after = Last(r \o w)
    /\ s.pc = "write" => ComesNext(s.page, s.after, VisibleIn(events))
    /\ s.found = "ended" => state = "ended"
    /\ s.found = "ended" /\ s.pc = "closed" => r \o w # <<>> /\ events[Last(r \o w)] \in TerminalTypes

\* The last event of an Investigation that has ended says how.
EndIsLast ==
    followed = "ended" => log # <<>> /\ log[Len(log)] \in TerminalTypes

FollowerInv ==
    /\ log \in Seq(EventTypes) /\ followed \in {"running", "ended"} /\ breaks \in 0 .. MaxBreaks
    /\ EndIsLast
    /\ follower \in [Clients -> Stream]
    /\ wire \in [Clients -> Seq(Nat)] /\ seen \in [Clients -> Seq(Nat)]
    /\ \A c \in Clients : ClientIsSound(follower[c], wire[c], seen[c], log, followed)

LEMMA VisibleFacts ==
    ASSUME NEW events \in Seq(EventTypes)
    PROVE  /\ Len(events) \in Nat /\ DOMAIN events = 1 .. Len(events)
           /\ VisibleIn(events) \in SUBSET (1 .. Len(events))
           /\ VisibleIn(events) \in SUBSET (Nat \ {0})
           /\ \A n \in 1 .. Len(events) : events[n] \in TerminalTypes => n \in VisibleIn(events)
<1>1. Len(events) \in Nat /\ DOMAIN events = 1 .. Len(events)
  OBVIOUS
<1>2. VisibleIn(events) \in SUBSET (1 .. Len(events))
  BY <1>1 DEF VisibleIn
<1>3. \A n \in 1 .. Len(events) : n \in Nat \ {0}
  BY <1>1
<1>4. VisibleIn(events) \in SUBSET (Nat \ {0})
  BY <1>2, <1>3, Zenon
<1>5. Retired \notin TerminalTypes
  BY DEF Retired, TerminalTypes
<1> QED
  BY <1>1, <1>2, <1>4, <1>5 DEF VisibleIn

\* What a client has is among the events there are.
LEMMA ReceivedIsThere ==
    ASSUME NEW events \in Seq(EventTypes), NEW q \in Seq(Nat), Complete(q, VisibleIn(events))
    PROVE  /\ \A i \in DOMAIN q : q[i] \in 1 .. Len(events)
           /\ Last(q) \in Nat /\ Last(q) <= Len(events)
           /\ q # <<>> => Last(q) \in 1 .. Len(events)
<1>1. \A i \in DOMAIN q : q[i] \in 1 .. Len(events)
  BY VisibleFacts, CompleteFacts
<1>2. q # <<>> => Last(q) \in 1 .. Len(events)
  BY <1>1, VisibleFacts, CompleteFacts
<1>3. q = <<>> => Last(q) = 0
  BY DEF Last
<1>4. Last(q) \in Nat /\ Last(q) <= Len(events)
  BY <1>2, <1>3, VisibleFacts
<1> QED
  BY <1>1, <1>2, <1>4

\* An event that is appended comes after everything a client has or is about to get.
LEMMA AppendKeepsSound ==
    ASSUME NEW s, NEW w, NEW r, NEW events \in Seq(EventTypes), NEW type \in EventTypes, NEW state,
           ClientIsSound(s, w, r, events, "running")
    PROVE  ClientIsSound(s, w, r, Append(events, type), state)
<1> DEFINE more == Append(events, type)
           q == r \o w
           V == VisibleIn(events)
           U == VisibleIn(more)
<1>1. /\ s \in Stream /\ w \in Seq(Nat) /\ r \in Seq(Nat) /\ s.after <= Len(events)
      /\ \A i \in DOMAIN s.page : s.page[i] \in DOMAIN events
      /\ Complete(q, V)
      /\ s.pc # "closed" => s.after = Last(q)
      /\ s.pc = "write" => ComesNext(s.page, s.after, V)
      /\ s.found # "ended"
  BY DEF ClientIsSound
<1>2. q \in Seq(Nat) /\ s.after \in Nat /\ s.page \in Seq(Nat)
  <2>1. q \in Seq(Nat)
    BY <1>1
  <2>2. s.after \in Nat /\ s.page \in Seq(Nat)
    BY <1>1 DEF Stream
  <2> QED
    BY <2>1, <2>2
<1>3. /\ more \in Seq(EventTypes) /\ Len(more) = Len(events) + 1 /\ Len(events) \in Nat
      /\ DOMAIN more = 1 .. Len(events) + 1 /\ DOMAIN events = 1 .. Len(events)
      /\ \A n \in 1 .. Len(events) : more[n] = events[n]
  <2>1. Len(events) \in Nat /\ DOMAIN events = 1 .. Len(events)
    OBVIOUS
  <2>2. more \in Seq(EventTypes) /\ Len(more) = Len(events) + 1
    OBVIOUS
  <2>3. \A n \in 1 .. Len(events) : more[n] = events[n]
    BY <2>1
  <2> HIDE DEF more
  <2> QED
    BY <2>1, <2>2, <2>3
<1> HIDE DEF more, q
<1>4. V \in SUBSET (Nat \ {0}) /\ U \in SUBSET (Nat \ {0}) /\ V \in SUBSET (1 .. Len(events))
  BY <1>3, VisibleFacts
<1>5. \A n \in 1 .. Len(events) : n \in V <=> n \in U
  BY <1>3 DEF VisibleIn
<1> HIDE DEF V, U
<1>6. Last(q) \in Nat /\ Last(q) <= Len(events)
  BY <1>1, <1>2, ReceivedIsThere DEF V
<1>7. Complete(q, U)
  <2>1. /\ Increasing(q)
        /\ \A i \in DOMAIN q : q[i] \in V
        /\ \A n \in V : n <= Last(q) => \E i \in DOMAIN q : q[i] = n
    BY <1>1, <1>2, <1>4, CompleteFacts
  <2>2. \A i \in DOMAIN q : q[i] \in U
    BY <1>4, <1>5, <2>1
  <2>3. ASSUME NEW n \in U, n <= Last(q) PROVE \E i \in DOMAIN q : q[i] = n
    <3>1. n \in 1 .. Len(events)
      BY <1>3, <1>4, <1>6, <2>3
    <3> QED
      BY <1>5, <2>1, <2>3, <3>1
  <2> QED
    BY <1>2, <1>4, <2>1, <2>2, <2>3, CompleteFacts
<1>8. ASSUME s.pc = "write" PROVE ComesNext(s.page, s.after, U)
  <2> DEFINE page == s.page
             after == s.after
  <2>0. page \in Seq(Nat) /\ after \in Nat
    BY <1>2
  <2>1. /\ page # <<>> /\ Increasing(page)
        /\ \A i \in DOMAIN page : page[i] \in V /\ after < page[i]
        /\ \A n \in V : after < n /\ n <= page[Len(page)] => \E i \in DOMAIN page : page[i] = n
    BY <1>1, <1>8 DEF ComesNext
  <2> HIDE DEF page, after
  <2>2. Len(page) \in DOMAIN page
    BY <2>0, <2>1
  <2>3. \A i \in DOMAIN page : page[i] \in U
    BY <1>4, <1>5, <2>1
  <2>4. page[Len(page)] \in 1 .. Len(events)
    BY <1>4, <2>1, <2>2
  <2>5. ASSUME NEW n \in U, after < n, n <= page[Len(page)] PROVE \E i \in DOMAIN page : page[i] = n
    <3>1. n \in 1 .. Len(events)
      BY <1>3, <1>4, <2>4, <2>5
    <3> QED
      BY <1>5, <2>1, <2>5, <3>1
  <2>6. ComesNext(page, after, U)
    BY <2>1, <2>3, <2>5 DEF ComesNext
  <2> QED
    BY <2>6 DEF page, after
<1>9. s.after <= Len(more)
  BY <1>1, <1>2, <1>3
<1>10. \A i \in DOMAIN s.page : s.page[i] \in DOMAIN more
  BY <1>1, <1>3
<1> QED
  BY <1>1, <1>7, <1>8, <1>9, <1>10, Zenon DEF ClientIsSound, more, q, U
-----------------------------------------------------------------------------
(* What a handler, a client and the connection do to one client. *)

LEMMA StreamFacts ==
    ASSUME NEW s \in Stream
    PROVE  /\ s.pc \in {"closed", "read", "status", "write", "wait"} /\ s.after \in Nat
           /\ s.found \in {"running", "ended"} /\ s.page \in Seq(Nat) /\ s.full \in BOOLEAN
BY DEF Stream

\* streamEvents goes on from the last event the client has.
LEMMA OpenKeepsSound ==
    ASSUME FollowerInv, NEW c \in Clients, wire[c] = <<>>
    PROVE  ClientIsSound([NoStream EXCEPT !.pc = "read", !.after = AfterSequence(c), !.found = followed],
                         wire[c], seen[c], log, followed)
<1> DEFINE s == [NoStream EXCEPT !.pc = "read", !.after = AfterSequence(c), !.found = followed]
           q == seen[c] \o wire[c]
<1>1. /\ ClientIsSound(follower[c], wire[c], seen[c], log, followed)
      /\ log \in Seq(EventTypes) /\ followed \in {"running", "ended"}
      /\ seen[c] \in Seq(Nat) /\ wire[c] \in Seq(Nat)
  BY DEF FollowerInv
<1>2. q = seen[c] /\ q \in Seq(Nat) /\ Complete(q, VisibleIn(log))
  BY <1>1 DEF ClientIsSound
<1>3. Last(q) \in Nat /\ Last(q) <= Len(log)
  BY <1>1, <1>2, ReceivedIsThere
<1>4. AfterSequence(c) = Last(q)
  BY <1>2 DEF AfterSequence
<1>5. NoStream \in Stream
  BY DEF NoStream, Stream
<1>6. s \in Stream
  <2>1. AfterSequence(c) \in Nat
    BY <1>3, <1>4
  <2> QED
    BY <1>1, <1>5, <2>1 DEF Stream
<1>9. s.pc = "read" /\ s.after = AfterSequence(c) /\ s.found = followed /\ s.page = <<>>
  BY DEF NoStream
<1>7. /\ s.pc = "read" /\ s.after = Last(q) /\ s.found = followed
      /\ s.page = <<>> /\ DOMAIN s.page = {}
  <2>1. DOMAIN <<>> = {}
    OBVIOUS
  <2> HIDE DEF s
  <2> QED
    BY <1>4, <1>9, <2>1, Zenon
<1> HIDE DEF s, q
<1>8. ClientIsSound(s, wire[c], seen[c], log, followed)
  BY <1>1, <1>2, <1>3, <1>6, <1>7 DEF ClientIsSound, q
<1> QED
  BY <1>8 DEF s

\* A stream that stops leaves what the client has, and what is on its way to it.
LEMMA StopKeepsSound ==
    ASSUME NEW s, NEW w, NEW r, NEW events \in Seq(EventTypes), NEW state,
           ClientIsSound(s, w, r, events, state)
    PROVE  ClientIsSound(NoStream, w, r, events, state) /\ ClientIsSound(NoStream, <<>>, r, events, state)
<1>1. w \in Seq(Nat) /\ r \in Seq(Nat) /\ Complete(r \o w, VisibleIn(events))
  BY DEF ClientIsSound
<1>2. /\ NoStream \in Stream /\ NoStream.pc = "closed" /\ NoStream.after = 0
      /\ NoStream.found = "running" /\ DOMAIN NoStream.page = {}
  BY DEF NoStream, Stream
<1>3. 0 <= Len(events) /\ VisibleIn(events) \in SUBSET (Nat \ {0})
  BY VisibleFacts
<1>4. Complete(r, VisibleIn(events))
  BY <1>1, <1>3, PrefixIsComplete
<1>5. r \o <<>> = r /\ <<>> \in Seq(Nat)
  BY <1>1
<1>6. ClientIsSound(NoStream, w, r, events, state)
  BY <1>1, <1>2, <1>3 DEF ClientIsSound
<1>7. ClientIsSound(NoStream, <<>>, r, events, state)
  BY <1>1, <1>2, <1>3, <1>4, <1>5 DEF ClientIsSound
<1> QED
  BY <1>6, <1>7

\* What is received was on its way.
LEMMA ReceiveKeepsSound ==
    ASSUME NEW s, NEW w, NEW r, NEW events, NEW state,
           ClientIsSound(s, w, r, events, state), w # <<>>
    PROVE  ClientIsSound(s, Tail(w), Append(r, Head(w)), events, state)
<1>1. w \in Seq(Nat) /\ r \in Seq(Nat)
  BY DEF ClientIsSound
<1>2. Head(w) \in Nat /\ Tail(w) \in Seq(Nat) /\ Append(r, Head(w)) \in Seq(Nat)
  BY <1>1
<1>3. Append(r, Head(w)) \o Tail(w) = r \o w
  <2> DEFINE a == Append(r, Head(w)) \o Tail(w)
             b == r \o w
  <2>1. Len(r) \in Nat /\ Len(w) \in Nat /\ Len(w) >= 1
    BY <1>1
  <2>2. Len(a) = Len(r) + Len(w) /\ Len(b) = Len(r) + Len(w) /\ a \in Seq(Nat) /\ b \in Seq(Nat)
    BY <1>1, <1>2, <2>1
  <2>3. ASSUME NEW i \in 1 .. Len(r) + Len(w) PROVE a[i] = b[i]
    <3>1. CASE i <= Len(r)
      BY <1>1, <1>2, <2>1, <3>1
    <3>2. CASE i = Len(r) + 1
      BY <1>1, <1>2, <2>1, <3>2
    <3>3. CASE i > Len(r) + 1
      <4>1. a[i] = Tail(w)[i - (Len(r) + 1)]
        BY <1>1, <1>2, <2>1, <3>3, SMTT(40)
      <4>2. Tail(w)[i - (Len(r) + 1)] = w[i - Len(r)]
        BY <1>1, <2>1, <3>3
      <4>3. b[i] = w[i - Len(r)]
        BY <1>1, <2>1, <3>3
      <4> QED
        BY <4>1, <4>2, <4>3
    <3> QED
      BY <2>1, <3>1, <3>2, <3>3
  <2> HIDE DEF a, b
  <2>4. a = b
    BY <2>2, <2>3, SeqEqual
  <2> QED
    BY <2>4 DEF a, b
<1> QED
  BY <1>2, <1>3, Zenon DEF ClientIsSound
\* A page that is read comes next; there is none for a handler that found the
\* Investigation ended only when the client has the last event.
LEMMA ReadKeepsSound ==
    ASSUME FollowerInv, NEW c \in Clients, ReadEvents(c), NEW t \in Stream,
           t.after = follower[c].after, t.found = follower[c].found,
           t.page = Events(follower[c].after),
           t.pc = IF Events(follower[c].after) # <<>> THEN "write"
                  ELSE IF follower[c].found # "running" THEN "closed" ELSE "status"
    PROVE  ClientIsSound(t, wire[c], seen[c], log, followed)
<1> DEFINE s == follower[c]
           q == seen[c] \o wire[c]
           V == VisibleIn(log)
           rows == {n \in V : s.after < n}
           p == FirstOf(rows, PageSize)
<1>1. /\ ClientIsSound(s, wire[c], seen[c], log, followed) /\ EndIsLast
      /\ log \in Seq(EventTypes) /\ followed \in {"running", "ended"}
      /\ seen[c] \in Seq(Nat) /\ wire[c] \in Seq(Nat) /\ s \in Stream
  BY DEF FollowerInv
<1>2. s.pc = "read"
  BY DEF ReadEvents
<1>3. /\ q \in Seq(Nat) /\ Complete(q, V) /\ s.after = Last(q) /\ s.after <= Len(log)
      /\ s.found = "ended" => followed = "ended"
  <2>1. q \in Seq(Nat)
    BY <1>1
  <2> QED
    BY <1>1, <1>2, <2>1 DEF ClientIsSound
<1>4. /\ Len(log) \in Nat /\ DOMAIN log = 1 .. Len(log)
      /\ V \in SUBSET (1 .. Len(log)) /\ V \in SUBSET (Nat \ {0})
      /\ \A n \in 1 .. Len(log) : log[n] \in TerminalTypes => n \in V
  BY <1>1, VisibleFacts
<1>5. Events(s.after) = p
  BY DEF Events, Visible, VisibleIn
<1>6. s.after \in Nat /\ s.found \in {"running", "ended"}
  BY <1>1, StreamFacts
<1> HIDE DEF V, q
<1>7. /\ p \in Seq(rows) /\ (p = <<>> <=> rows = {}) /\ Increasing(p)
      /\ p # <<>> => \A n \in rows : n <= p[Len(p)] => \E i \in DOMAIN p : p[i] = n
  <2>1. rows \in SUBSET (1 .. Len(log)) /\ PageSize \in Nat \ {0}
    BY <1>4, FollowerAssumption
  <2>2. Len(log) \in Nat
    BY <1>4
  <2> HIDE DEF rows
  <2>3. FirstPart(p, rows, PageSize)
    BY <2>1, <2>2, FirstOfFacts
  <2> QED
    BY <2>3, Zenon DEF FirstPart
<1>8. \A n : n \in rows <=> n \in V /\ s.after < n
  OBVIOUS
<1> HIDE DEF p, rows, s
<1>9. \A i \in DOMAIN p : p[i] \in rows
  BY <1>7
<1>10. t.page = p /\ t.after = s.after /\ t.found = s.found
  BY <1>5 DEF s
<1>11. \A i \in DOMAIN p : p[i] \in V /\ s.after < p[i] /\ p[i] \in DOMAIN log
  BY <1>4, <1>8, <1>9
<1>12. CASE p # <<>>
  <2>1. ComesNext(p, s.after, V)
    BY <1>7, <1>8, <1>11, <1>12 DEF ComesNext
  <2>2. t.pc = "write"
    BY <1>5, <1>12 DEF s
  <2> QED
    BY <1>1, <1>3, <1>10, <1>11, <2>1, <2>2 DEF ClientIsSound, V, q
<1>13. CASE p = <<>> /\ s.found = "running"
  <2>1. t.pc = "status"
    BY <1>5, <1>13 DEF s
  <2> QED
    BY <1>1, <1>3, <1>10, <1>11, <1>13, <2>1 DEF ClientIsSound, V, q
<1>14. CASE p = <<>> /\ s.found = "ended"
  <2>1. t.pc = "closed"
    BY <1>5, <1>14 DEF s
  <2>2. log # <<>> /\ log[Len(log)] \in TerminalTypes
    BY <1>1, <1>3, <1>14 DEF EndIsLast
  <2>3. Len(log) \in 1 .. Len(log) /\ Len(log) \in V
    BY <1>1, <1>4, <2>2
  <2>4. ~(s.after < Len(log))
    BY <1>7, <1>8, <1>14, <2>3
  <2>5. Last(q) = Len(log)
    BY <1>3, <1>4, <1>6, <2>4
  <2>6. q # <<>>
    <3>1. Last(q) # 0
      BY <2>3, <2>5
    <3> QED
      BY <3>1 DEF Last
  <2>7. log[Last(q)] \in TerminalTypes
    BY <2>2, <2>5
  <2> QED
    BY <1>1, <1>3, <1>10, <1>11, <1>14, <2>1, <2>6, <2>7 DEF ClientIsSound, V, q
<1> QED
  BY <1>6, <1>12, <1>13, <1>14

\* What is written comes next.
LEMMA WriteKeepsSound ==
    ASSUME FollowerInv, NEW c \in Clients, WriteEvent(c), NEW t \in Stream,
           t.after = Head(follower[c].page), t.found = follower[c].found,
           t.page = Tail(follower[c].page),
           t.pc = "closed" => Terminal(Head(follower[c].page)),
           t.pc = "write" => Tail(follower[c].page) # <<>>
    PROVE  ClientIsSound(t, Append(wire[c], Head(follower[c].page)), seen[c], log, followed)
<1> DEFINE s == follower[c]
           n == Head(s.page)
           w == wire[c]
           r == seen[c]
           q == r \o w
           V == VisibleIn(log)
<1>1. /\ ClientIsSound(s, w, r, log, followed) /\ log \in Seq(EventTypes)
      /\ r \in Seq(Nat) /\ w \in Seq(Nat) /\ s \in Stream
  BY DEF FollowerInv
<1>2. s.pc = "write"
  BY DEF WriteEvent
<1>3. /\ q \in Seq(Nat) /\ Complete(q, V) /\ ComesNext(s.page, Last(q), V)
      /\ s.found = "ended" => followed = "ended"
      /\ \A i \in DOMAIN s.page : s.page[i] \in DOMAIN log
  <2>1. q \in Seq(Nat)
    BY <1>1
  <2>2. s.after = Last(q)
    BY <1>1, <1>2 DEF ClientIsSound
  <2> QED
    BY <1>1, <1>2, <2>1, <2>2 DEF ClientIsSound
<1>4. V \in SUBSET (Nat \ {0}) /\ V \in SUBSET (1 .. Len(log)) /\ s.page \in Seq(Nat)
      /\ Len(log) \in Nat /\ DOMAIN log = 1 .. Len(log)
  BY <1>1, VisibleFacts, StreamFacts
<1>5. s.page # <<>>
  BY <1>3 DEF ComesNext
<1> HIDE DEF s, r, w, V
<1>6. /\ n \in V /\ n \in Nat
      /\ Complete(Append(q, n), V) /\ Last(Append(q, n)) = n
      /\ Tail(s.page) \in Seq(Nat)
      /\ Tail(s.page) # <<>> => ComesNext(Tail(s.page), n, V)
  <2> HIDE DEF q
  <2> QED
    BY <1>3, <1>4, NextIsComplete
<1>7. r \o Append(w, n) = Append(q, n) /\ Append(w, n) \in Seq(Nat) /\ Append(q, n) # <<>>
  <2> HIDE DEF n
  <2>0. r \in Seq(Nat) /\ w \in Seq(Nat) /\ n \in Nat /\ q \in Seq(Nat) /\ <<n>> \in Seq(Nat)
    BY <1>1, <1>3, <1>6
  <2>1. Append(w, n) \in Seq(Nat) /\ Append(q, n) # <<>>
    <3> HIDE DEF q
    <3> QED
      BY <2>0, AppendProperties, ZenonT(40)
  <2>2. r \o Append(w, n) = Append(r \o w, n)
    <3>1. Append(w, n) = w \o <<n>> /\ Append(r \o w, n) = (r \o w) \o <<n>>
      BY <2>0, AppendIsConcat, Zenon
    <3>2. (r \o w) \o <<n>> = r \o (w \o <<n>>)
      BY <2>0, ConcatAssociative, SMTT(40)
    <3> QED
      BY <3>1, <3>2
  <2> QED
    BY <2>1, <2>2
<1>8. t.after = n /\ t.found = s.found /\ t.page = Tail(s.page)
      /\ (t.pc = "closed" => log[n] \in TerminalTypes) /\ (t.pc = "write" => Tail(s.page) # <<>>)
  BY DEF s, Terminal
<1>9. \A i \in DOMAIN Tail(s.page) : Tail(s.page)[i] \in DOMAIN log
  <2>1. \A i \in DOMAIN Tail(s.page) : i + 1 \in DOMAIN s.page /\ Tail(s.page)[i] = s.page[i + 1]
    BY <1>4, <1>5
  <2> QED
    BY <1>3, <2>1
<1>10. n <= Len(log)
  BY <1>4, <1>6
<1> HIDE DEF n, q
<1>11. ClientIsSound(t, Append(w, n), r, log, followed)
  BY <1>1, <1>3, <1>6, <1>7, <1>8, <1>9, <1>10, Zenon DEF ClientIsSound, V
<1> QED
  BY <1>11 DEF s, n, w, r

-----------------------------------------------------------------------------
(* Steps. *)

\* A step of one client's stream is judged by that client alone.
LEMMA OneClientMoves ==
    ASSUME FollowerInv, NEW c \in Clients, NEW t \in Stream, NEW w \in Seq(Nat), NEW r \in Seq(Nat),
           follower' = [follower EXCEPT ![c] = t], wire' = [wire EXCEPT ![c] = w],
           seen' = [seen EXCEPT ![c] = r], UNCHANGED <<log, followed>>, breaks' \in 0 .. MaxBreaks,
           ClientIsSound(t, w, r, log, followed)
    PROVE  FollowerInv'
<1>1. /\ follower' \in [Clients -> Stream] /\ wire' \in [Clients -> Seq(Nat)]
      /\ seen' \in [Clients -> Seq(Nat)]
  BY DEF FollowerInv
<1>2. ASSUME NEW d \in Clients PROVE ClientIsSound(follower[d], wire[d], seen[d], log, followed)'
  <2>1. CASE d = c
    <3>1. follower'[d] = t /\ wire'[d] = w /\ seen'[d] = r
      BY <2>1 DEF FollowerInv
    <3> QED
      BY <3>1
  <2>2. CASE d # c
    <3>1. follower'[d] = follower[d] /\ wire'[d] = wire[d] /\ seen'[d] = seen[d]
      BY <2>2 DEF FollowerInv
    <3> QED
      BY <3>1 DEF FollowerInv
  <2> QED
    BY <2>1, <2>2
<1> QED
  BY <1>1, <1>2 DEF FollowerInv, EndIsLast

\* What stays is what it was, as far as a function of the clients goes.
LEMMA Stays ==
    ASSUME NEW S, NEW f \in [Clients -> S], NEW c \in Clients
    PROVE  f = [f EXCEPT ![c] = f[c]] /\ f[c] \in S
OBVIOUS

LEMMA OpenStep ==
    ASSUME FollowerInv, NEW c \in Clients, StreamEvents(c)
    PROVE  FollowerInv'
<1> DEFINE t == [NoStream EXCEPT !.pc = "read", !.after = AfterSequence(c), !.found = followed]
<1>1. /\ wire[c] = <<>> /\ follower' = [follower EXCEPT ![c] = t]
      /\ wire' = wire /\ seen' = seen /\ UNCHANGED <<log, followed>> /\ breaks' = breaks
  BY DEF StreamEvents
<1>2. ClientIsSound(t, wire[c], seen[c], log, followed)
  BY <1>1, OpenKeepsSound
<1> HIDE DEF t
<1>3. t \in Stream
  BY <1>2 DEF ClientIsSound
<1>4. /\ wire' = [wire EXCEPT ![c] = wire[c]] /\ seen' = [seen EXCEPT ![c] = seen[c]]
      /\ wire[c] \in Seq(Nat) /\ seen[c] \in Seq(Nat) /\ breaks' \in 0 .. MaxBreaks
  BY <1>1, Stays DEF FollowerInv
<1> QED
  BY <1>1, <1>2, <1>3, <1>4, OneClientMoves, Zenon

LEMMA ReadStep ==
    ASSUME FollowerInv, NEW c \in Clients, ReadEvents(c)
    PROVE  FollowerInv'
<1> DEFINE s == follower[c]
           e == Events(s.after)
           next == CASE e # <<>> -> "write"
                     [] e = <<>> /\ s.found # "running" -> "closed"
                     [] OTHER -> "status"
           t == [s EXCEPT !.pc = next, !.page = e, !.full = Len(e) = PageSize]
<1>1. /\ follower \in [Clients -> Stream] /\ s \in Stream
      /\ wire' = wire /\ seen' = seen /\ UNCHANGED <<log, followed>> /\ breaks' = breaks
  BY DEF FollowerInv, ReadEvents
<1>2. follower' = [follower EXCEPT ![c] = t]
  BY <1>1 DEF ReadEvents
<1>3. next = IF e # <<>> THEN "write" ELSE IF s.found # "running" THEN "closed" ELSE "status"
  <2> HIDE DEF e, s
  <2> QED
    OBVIOUS
<1>4. next \in {"closed", "read", "status", "write", "wait"}
  BY <1>3
<1>5. e \in Seq(Nat)
  <2> DEFINE rows == {n \in VisibleIn(log) : s.after < n}
  <2>1. rows \in SUBSET (1 .. Len(log)) /\ Len(log) \in Nat /\ PageSize \in Nat \ {0}
    BY FollowerAssumption, VisibleFacts DEF FollowerInv
  <2>2. e = FirstOf(rows, PageSize)
    BY DEF Events, Visible, VisibleIn
  <2>3. rows \in SUBSET Nat
    BY <2>1
  <2> HIDE DEF rows, e
  <2>4. e \in Seq(rows)
    BY <2>1, <2>2, FirstOfFacts DEF FirstPart
  <2>5. Len(e) \in Nat /\ e \in [1 .. Len(e) -> rows]
    BY <2>4, LenProperties
  <2>6. e \in [1 .. Len(e) -> Nat]
    BY <2>3, <2>5
  <2> QED
    BY <2>5, <2>6, SeqDef
<1> HIDE DEF next, e
<1>6. t \in Stream
  BY <1>1, <1>4, <1>5 DEF Stream
<1>7. t.pc = next /\ t.page = e /\ t.after = s.after /\ t.found = s.found
  BY <1>1 DEF Stream
<1> HIDE DEF t
<1>8. ClientIsSound(t, wire[c], seen[c], log, followed)
  BY <1>3, <1>6, <1>7, ReadKeepsSound DEF e
<1>9. /\ wire' = [wire EXCEPT ![c] = wire[c]] /\ seen' = [seen EXCEPT ![c] = seen[c]]
      /\ wire[c] \in Seq(Nat) /\ seen[c] \in Seq(Nat) /\ breaks' \in 0 .. MaxBreaks
  BY <1>1, Stays DEF FollowerInv
<1> QED
  BY <1>1, <1>2, <1>6, <1>8, <1>9, OneClientMoves, Zenon

LEMMA StatusStep ==
    ASSUME FollowerInv, NEW c \in Clients, ReadStatus(c) \/ Poll(c)
    PROVE  FollowerInv'
<1> DEFINE s == follower[c]
<1>1. /\ follower \in [Clients -> Stream] /\ s \in Stream /\ followed \in {"running", "ended"}
      /\ ClientIsSound(s, wire[c], seen[c], log, followed) /\ s.pc \in {"status", "wait"}
      /\ wire' = wire /\ seen' = seen /\ UNCHANGED <<log, followed>> /\ breaks' = breaks
  BY DEF FollowerInv, ReadStatus, Poll
<1>2. \E p \in {"read", "wait"} : \E f \in {"running", "ended"} :
        /\ f = "ended" => followed = "ended"
        /\ follower' = [follower EXCEPT ![c] = [s EXCEPT !.pc = p, !.found = f]]
  <2>1. CASE ReadStatus(c)
    <3>1. follower' = [follower EXCEPT ![c] = [s EXCEPT !.pc = IF followed # "running" THEN "read" ELSE "wait",
                                                        !.found = followed]]
      BY <1>1, <2>1 DEF ReadStatus, Stream
    <3> QED
      BY <1>1, <3>1
  <2>2. CASE Poll(c)
    <3>1. follower' = [follower EXCEPT ![c] = [s EXCEPT !.pc = "read", !.found = s.found]]
      BY <1>1, <2>2 DEF Poll, Stream
    <3>2. s.found \in {"running", "ended"} /\ (s.found = "ended" => followed = "ended")
      BY <1>1, StreamFacts DEF ClientIsSound
    <3> QED
      BY <3>1, <3>2
  <2> QED
    BY <2>1, <2>2
<1>3. PICK p \in {"read", "wait"} : \E f \in {"running", "ended"} :
        /\ f = "ended" => followed = "ended"
        /\ follower' = [follower EXCEPT ![c] = [s EXCEPT !.pc = p, !.found = f]]
  BY <1>2
<1>4. PICK f \in {"running", "ended"} :
        /\ f = "ended" => followed = "ended"
        /\ follower' = [follower EXCEPT ![c] = [s EXCEPT !.pc = p, !.found = f]]
  BY <1>3
<1> DEFINE t == [s EXCEPT !.pc = p, !.found = f]
<1>5. t \in Stream
  BY <1>1 DEF Stream
<1>6. t.pc \in {"read", "wait"} /\ t.page = s.page /\ t.after = s.after /\ (t.found = "ended" => followed = "ended")
  BY <1>1, <1>4 DEF Stream
<1>7. follower' = [follower EXCEPT ![c] = t]
  BY <1>4
<1> HIDE DEF t, s
<1>8. ClientIsSound(t, wire[c], seen[c], log, followed)
  BY <1>1, <1>5, <1>6 DEF ClientIsSound
<1>9. /\ wire' = [wire EXCEPT ![c] = wire[c]] /\ seen' = [seen EXCEPT ![c] = seen[c]]
      /\ wire[c] \in Seq(Nat) /\ seen[c] \in Seq(Nat) /\ breaks' \in 0 .. MaxBreaks
  BY <1>1, Stays DEF FollowerInv
<1> QED
  BY <1>1, <1>5, <1>7, <1>8, <1>9, OneClientMoves, Zenon

LEMMA WriteStep ==
    ASSUME FollowerInv, NEW c \in Clients, WriteEvent(c)
    PROVE  FollowerInv'
<1> DEFINE s == follower[c]
           n == Head(s.page)
           next == CASE Terminal(n) -> "closed"
                     [] ~Terminal(n) /\ Tail(s.page) # <<>> -> "write"
                     [] OTHER -> IF s.full THEN "read" ELSE "wait"
           t == [s EXCEPT !.pc = next, !.after = n, !.page = Tail(s.page)]
<1>1. /\ follower \in [Clients -> Stream] /\ s \in Stream /\ wire \in [Clients -> Seq(Nat)]
      /\ ClientIsSound(s, wire[c], seen[c], log, followed) /\ s.pc = "write"
      /\ wire' = [wire EXCEPT ![c] = Append(wire[c], n)]
      /\ seen' = seen /\ UNCHANGED <<log, followed>> /\ breaks' = breaks
  BY DEF FollowerInv, WriteEvent
<1>2. follower' = [follower EXCEPT ![c] = t]
  BY <1>1 DEF WriteEvent
<1>3. s.page \in Seq(Nat) /\ s.page # <<>>
  BY <1>1, StreamFacts DEF ClientIsSound, ComesNext
<1>4. n \in Nat /\ Tail(s.page) \in Seq(Nat)
  <2> HIDE DEF s
  <2> QED
    BY <1>3
<1>5. /\ next \in {"closed", "read", "status", "write", "wait"}
      /\ next = "closed" => Terminal(n)
      /\ next = "write" => Tail(s.page) # <<>>
  <2> HIDE DEF n, s
  <2> QED
    OBVIOUS
<1> HIDE DEF next, n
<1>6. t \in Stream
  BY <1>1, <1>4, <1>5 DEF Stream
<1>7. t.pc = next /\ t.page = Tail(s.page) /\ t.after = n /\ t.found = s.found
  BY <1>1 DEF Stream
<1> HIDE DEF t
<1>8. ClientIsSound(t, Append(wire[c], n), seen[c], log, followed)
  BY <1>5, <1>6, <1>7, WriteKeepsSound DEF n
<1>9. /\ seen' = [seen EXCEPT ![c] = seen[c]] /\ seen[c] \in Seq(Nat) /\ breaks' \in 0 .. MaxBreaks
  BY <1>1, Stays DEF FollowerInv
<1>10. Append(wire[c], n) \in Seq(Nat)
  BY <1>8 DEF ClientIsSound
<1> QED
  BY <1>1, <1>2, <1>6, <1>8, <1>9, <1>10, OneClientMoves, Zenon

LEMMA StopStep ==
    ASSUME FollowerInv, NEW c \in Clients, StopFollowing(c) \/ Break(c)
    PROVE  FollowerInv'
<1>1. /\ ClientIsSound(follower[c], wire[c], seen[c], log, followed) /\ log \in Seq(EventTypes)
      /\ follower' = [follower EXCEPT ![c] = NoStream] /\ seen' = seen /\ UNCHANGED <<log, followed>>
      /\ breaks \in 0 .. MaxBreaks /\ breaks < MaxBreaks /\ breaks' = breaks + 1
  BY DEF FollowerInv, StopFollowing, Break
<1>2. /\ ClientIsSound(NoStream, wire[c], seen[c], log, followed)
      /\ ClientIsSound(NoStream, <<>>, seen[c], log, followed)
  BY <1>1, StopKeepsSound
<1>3. NoStream \in Stream /\ breaks' \in 0 .. MaxBreaks
  BY <1>1, <1>2, FollowerAssumption DEF ClientIsSound
<1>4. /\ seen' = [seen EXCEPT ![c] = seen[c]] /\ seen[c] \in Seq(Nat)
      /\ wire = [wire EXCEPT ![c] = wire[c]] /\ wire[c] \in Seq(Nat) /\ <<>> \in Seq(Nat)
  BY <1>1, Stays DEF FollowerInv
<1>5. CASE StopFollowing(c)
  <2>1. wire' = [wire EXCEPT ![c] = wire[c]]
    BY <1>4, <1>5 DEF StopFollowing
  <2> QED
    BY <1>1, <1>2, <1>3, <1>4, <2>1, OneClientMoves, Zenon
<1>6. CASE Break(c)
  <2>1. wire' = [wire EXCEPT ![c] = <<>>]
    BY <1>6 DEF Break
  <2> QED
    BY <1>1, <1>2, <1>3, <1>4, <2>1, OneClientMoves, Zenon
<1> QED
  BY <1>5, <1>6

LEMMA ReceiveStep ==
    ASSUME FollowerInv, NEW c \in Clients, Receive(c)
    PROVE  FollowerInv'
<1>1. /\ ClientIsSound(follower[c], wire[c], seen[c], log, followed) /\ wire[c] # <<>>
      /\ seen' = [seen EXCEPT ![c] = Append(seen[c], Head(wire[c]))]
      /\ wire' = [wire EXCEPT ![c] = Tail(wire[c])]
      /\ follower' = follower /\ UNCHANGED <<log, followed>> /\ breaks' \in 0 .. MaxBreaks
  BY DEF FollowerInv, Receive
<1>2. ClientIsSound(follower[c], Tail(wire[c]), Append(seen[c], Head(wire[c])), log, followed)
  BY <1>1, ReceiveKeepsSound
<1>3. Tail(wire[c]) \in Seq(Nat) /\ Append(seen[c], Head(wire[c])) \in Seq(Nat)
  BY <1>2 DEF ClientIsSound
<1>4. follower' = [follower EXCEPT ![c] = follower[c]] /\ follower[c] \in Stream
  BY <1>1, Stays DEF FollowerInv
<1> QED
  BY <1>1, <1>2, <1>3, <1>4, OneClientMoves, Zenon

LEMMA AppendStep ==
    ASSUME FollowerInv, AppendEvent \/ EndInvestigation
    PROVE  FollowerInv'
<1>1. /\ log \in Seq(EventTypes) /\ followed = "running"
      /\ \A c \in Clients : ClientIsSound(follower[c], wire[c], seen[c], log, "running")
      /\ UNCHANGED <<follower, wire, seen, breaks>>
  BY DEF FollowerInv, AppendEvent, EndInvestigation
<1>2. \E type \in EventTypes : /\ log' = Append(log, type)
                               /\ followed' \in {"running", "ended"}
                               /\ followed' = "ended" => type \in TerminalTypes
  <2>1. CASE AppendEvent
    BY <1>1, <2>1 DEF AppendEvent, EventTypes
  <2>2. CASE EndInvestigation
    BY <2>2 DEF EndInvestigation, EventTypes
  <2> QED
    BY <2>1, <2>2
<1>3. PICK type \in EventTypes : /\ log' = Append(log, type)
                                 /\ followed' \in {"running", "ended"}
                                 /\ followed' = "ended" => type \in TerminalTypes
  BY <1>2
<1>4. /\ log' \in Seq(EventTypes) /\ log' # <<>> /\ log'[Len(log')] = type
  BY <1>1, <1>3, AppendProperties
<1>5. ASSUME NEW c \in Clients PROVE ClientIsSound(follower[c], wire[c], seen[c], log, followed)'
  <2>1. ClientIsSound(follower[c], wire[c], seen[c], Append(log, type), followed')
    BY <1>1, AppendKeepsSound
  <2> QED
    BY <1>1, <1>3, <2>1
<1>6. EndIsLast'
  BY <1>3, <1>4 DEF EndIsLast
<1> QED
  BY <1>1, <1>3, <1>4, <1>5, <1>6 DEF FollowerInv

LEMMA FollowersStart == FollowerInit => FollowerInv
<1> SUFFICES ASSUME FollowerInit PROVE FollowerInv
  OBVIOUS
<1>1. log \in Seq(EventTypes) /\ followed = "running" /\ breaks \in 0 .. MaxBreaks
  <2>1. "progress" \in EventTypes /\ Retired \in EventTypes
    BY DEF EventTypes
  <2>2. log \in {<<>>, <<Retired, Retired>>, <<"progress", Retired>>} /\ followed = "running" /\ breaks = 0
    BY DEF FollowerInit
  <2>3. breaks \in 0 .. MaxBreaks
    BY <2>2, FollowerAssumption
  <2>4. <<>> \in Seq(EventTypes) /\ <<Retired, Retired>> \in Seq(EventTypes) /\ <<"progress", Retired>> \in Seq(EventTypes)
    <3> HIDE DEF Retired, EventTypes
    <3> QED
      BY <2>1
  <2> QED
    BY <2>2, <2>3, <2>4
<1>2. NoStream \in Stream /\ <<>> \in Seq(Nat)
  BY DEF NoStream, Stream
<1>3. /\ follower \in [Clients -> Stream]
      /\ wire \in [Clients -> Seq(Nat)] /\ seen \in [Clients -> Seq(Nat)]
  BY <1>2 DEF FollowerInit
<1>4. VisibleIn(log) \in SUBSET (Nat \ {0})
  BY <1>1, VisibleFacts
<1>5. Complete(<<>> \o <<>>, VisibleIn(log)) /\ <<>> \o <<>> = <<>>
  BY <1>4 DEF Complete, Increasing, Last
<1>6. /\ NoStream.pc = "closed" /\ NoStream.after = 0 /\ NoStream.found = "running"
      /\ DOMAIN NoStream.page = {} /\ 0 <= Len(log)
  BY <1>1 DEF NoStream
<1>7. ClientIsSound(NoStream, <<>>, <<>>, log, followed)
  BY <1>2, <1>5, <1>6 DEF ClientIsSound
<1>8. \A c \in Clients : follower[c] = NoStream /\ wire[c] = <<>> /\ seen[c] = <<>>
  BY DEF FollowerInit
<1> QED
  BY <1>1, <1>3, <1>7, <1>8 DEF FollowerInv, EndIsLast

LEMMA FollowersStay == FollowerInv /\ [FollowerNext]_followerVars => FollowerInv'
<1> SUFFICES ASSUME FollowerInv, [FollowerNext]_followerVars PROVE FollowerInv'
  OBVIOUS
<1>1. CASE AppendEvent \/ EndInvestigation
  BY <1>1, AppendStep
<1>2. ASSUME NEW c \in Clients, HandlerStep(c) \/ StopFollowing(c) \/ Receive(c) \/ Break(c)
      PROVE  FollowerInv'
  BY <1>2, OpenStep, ReadStep, StatusStep, WriteStep, StopStep, ReceiveStep DEF HandlerStep
<1>3. CASE UNCHANGED followerVars
  BY <1>3 DEF followerVars, FollowerInv, EndIsLast
<1> QED
  BY <1>1, <1>2, <1>3 DEF FollowerNext

LEMMA SoundMissNothing == FollowerInv => FollowersMissNothing
<1> SUFFICES ASSUME FollowerInv PROVE FollowersMissNothing
  OBVIOUS
<1>1. /\ log \in Seq(EventTypes) /\ followed \in {"running", "ended"} /\ breaks \in 0 .. MaxBreaks
      /\ DOMAIN log = 1 .. Len(log) /\ Visible = VisibleIn(log)
  BY DEF FollowerInv, Visible, VisibleIn
<1>2. ASSUME NEW c \in Clients
      PROVE  LET s == follower[c]
                 q == seen[c] \o wire[c]
             IN  /\ s \in Stream /\ s.after \in 0 .. Len(log)
                 /\ wire[c] \in Seq(DOMAIN log) /\ seen[c] \in Seq(DOMAIN log) /\ s.page \in Seq(DOMAIN log)
                 /\ Complete(q, Visible)
                 /\ s.found = "ended" /\ s.pc = "closed" => q # <<>> /\ Terminal(Last(q))
  <2> DEFINE s == follower[c]
             r == seen[c]
             w == wire[c]
             q == r \o w
  <2>1. ClientIsSound(s, w, r, log, followed)
    BY DEF FollowerInv
  <2>2. /\ s \in Stream /\ w \in Seq(Nat) /\ r \in Seq(Nat) /\ q \in Seq(Nat) /\ Complete(q, Visible)
        /\ \A i \in DOMAIN s.page : s.page[i] \in DOMAIN log
    BY <1>1, <2>1 DEF ClientIsSound
  <2>3. \A i \in DOMAIN q : q[i] \in DOMAIN log
    BY <1>1, <2>2, ReceivedIsThere
  <2>4. s.after \in 0 .. Len(log)
    BY <1>1, <2>1, StreamFacts DEF ClientIsSound
  <2>5. s.page \in Seq(Nat)
    BY <2>2, StreamFacts
  <2> HIDE DEF s, r, w
  <2>6. s.page \in Seq(DOMAIN log)
    BY <2>2, <2>5, SMTT(40)
  <2>7. \A i \in DOMAIN r : i \in DOMAIN q /\ q[i] = r[i]
    BY <2>2
  <2>8. \A i \in DOMAIN w : Len(r) + i \in DOMAIN q /\ q[Len(r) + i] = w[i]
    BY <2>2
  <2> HIDE DEF q
  <2>9. r \in Seq(DOMAIN log) /\ w \in Seq(DOMAIN log)
    <3>1. \A i \in DOMAIN r : r[i] \in DOMAIN log
      BY <2>3, <2>7
    <3>2. \A i \in DOMAIN w : w[i] \in DOMAIN log
      BY <2>3, <2>8
    <3> QED
      BY <2>2, <3>1, <3>2
  <2>10. s.found = "ended" /\ s.pc = "closed" => q # <<>> /\ Terminal(Last(q))
    BY <2>1 DEF ClientIsSound, Terminal, q
  <2> QED
    BY <2>2, <2>4, <2>6, <2>9, <2>10 DEF s, r, w, q
<1>3. FollowerTypeOK
  BY <1>1, <1>2, StreamFacts DEF FollowerTypeOK
<1> QED
  BY <1>2, <1>3 DEF FollowersMissNothing, Complete, Increasing

\* Over any number of streams, broken ones included, a client gets every event it
\* may see, once and in order, and a stream that is closed for good ends with the
\* last one (follow, streamEvents, afterSequence, Events).
THEOREM FollowersAlwaysMissNothing == FollowerSpec => []FollowersMissNothing
<1> QED
  BY FollowersStart, FollowersStay, SoundMissNothing, PTL DEF FollowerSpec

=============================================================================
