-------------------------- MODULE SlackMessageWork --------------------------
(***************************************************************************)
(* Messages that arrive from Slack: RecordSlackMessage appends the Message   *)
(* to the Conversation of its thread and enqueues one slack_message_work    *)
(* row with it; message workers of every replica claim rows under a lease   *)
(* and open the Conversation's next turn.                                   *)
(*                                                                          *)
(* The worker keeps the row as it was claimed and writes under the fence of *)
(* its claim. Turns end, and the admission loop opens them too, as the      *)
(* module Investigation says in detail.                                     *)
(***************************************************************************)
EXTENDS Integers, Sequences, FiniteSets, FiniteSetsExt

CONSTANTS
    Messages,       \* accepted Slack events, by content digest
    Threads,        \* Slack threads, each bound to one Conversation
    Thread,         \* the thread of each Message
    Workers,        \* message workers, each with its own Owner
    None,           \* no owner, no Message
    MaxQueued,      \* maxQueuedMessages
    MaxAttempts,    \* MessageWorker.MaxAttempts
    Budget,         \* MaxSlackMessageAttempts
    LeaseFor,       \* MessageWorker.Lease, in clock ticks
    MaxRecoveries   \* bound: recoveries an operator asks for

ASSUME ThreadAssumption == Thread \in [Messages -> Threads]
ASSUME FiniteAssumption == IsFiniteSet(Messages) /\ IsFiniteSet(Workers)
ASSUME NoneAssumption == None \notin Workers \cup Messages
ASSUME LimitAssumption ==
    /\ MaxQueued \in Nat /\ MaxAttempts \in Nat \ {0} /\ MaxRecoveries \in Nat
    /\ Budget \in Nat /\ Budget >= MaxAttempts
    /\ LeaseFor \in Nat \ {0}

Statuses == {"absent", "ready", "leased", "retry", "terminal", "complete"}

VARIABLES
    work,       \* slack_message_work, by Message
    said,       \* user Messages of each thread's Conversation, by sequence
    turn,       \* the turn that took each Message, 0 while it is queued
    turns,      \* turns opened in each Conversation
    running,    \* Conversations with an Investigation in progress
    pc,         \* where a worker stands in ProcessOne
    mine,       \* the work it claimed, as it was then
    spent,      \* history: attempts of each Message that failed or were abandoned
    recovered   \* recoveries so far

vars == <<work, said, turn, turns, running, pc, mine, spent, recovered>>
conversation == <<said, turn, turns, running>>

Generations == 1 .. Cardinality(Workers) + 1
NoRow == [status |-> "absent", owner |-> None, epoch |-> 0, attempts |-> 0, ttl |-> 0]
NoWork == [message |-> None, epoch |-> 0, attempts |-> 0]

Init ==
    /\ work = [m \in Messages |-> NoRow]
    /\ said = [t \in Threads |-> <<>>]
    /\ turn = [m \in Messages |-> 0]
    /\ turns = [t \in Threads |-> 0]
    /\ running = {}
    /\ pc = [w \in Workers |-> "idle"]
    /\ mine = [w \in Workers |-> NoWork]
    /\ spent = [m \in Messages |-> 0]
    /\ recovered = 0

-----------------------------------------------------------------------------
(* The Conversation.                                                        *)

\* Messages no turn has taken.
Queued(t) == {m \in Messages : \E k \in DOMAIN said[t] : said[t][k] = m /\ turn[m] = 0}

\* RecordSlackMessage: claim of the delivery, room in the Message queue, the
\* thread's Conversation, the Message and its work commit together. A second
\* delivery of the same content changes nothing.
RecordSlackMessage(m) ==
    /\ work[m].status = "absent"
    /\ Cardinality(UNION {Queued(t) : t \in Threads}) < MaxQueued
    /\ said' = [said EXCEPT ![Thread[m]] = Append(@, m)]
    /\ work' = [work EXCEPT ![m].status = "ready"]
    /\ UNCHANGED <<turn, turns, running, pc, mine, spent, recovered>>

\* openTurn: the next turn takes every queued Message.
OpenTurn(t) ==
    /\ t \notin running
    /\ Queued(t) # {}
    /\ turns' = [turns EXCEPT ![t] = @ + 1]
    /\ turn' = [m \in Messages |-> IF m \in Queued(t) THEN turns[t] + 1 ELSE turn[m]]
    /\ running' = running \cup {t}
    /\ UNCHANGED said

\* The turn's Investigation ends.
TurnEnds(t) ==
    /\ t \in running
    /\ running' = running \ {t}
    /\ UNCHANGED <<work, said, turn, turns, pc, mine, spent, recovered>>

\* OpenQueuedConversationTurn, or the end of the turn before.
AdmitTurn(t) ==
    /\ OpenTurn(t)
    /\ UNCHANGED <<work, pc, mine, spent, recovered>>

-----------------------------------------------------------------------------
(* Leases.                                                                  *)

\* Mutant: only the status is looked at.
HoldsStatus(w) == mine[w].message # None /\ work[mine[w].message].status = "leased"

\* status = 2 AND lease_owner AND lease_epoch AND lease_expires_at > now()
Holds(w) ==
    LET m == mine[w].message
    IN /\ m # None
       /\ work[m].status = "leased"
       /\ work[m].owner = w
       /\ work[m].epoch = mine[w].epoch
       /\ work[m].ttl > 0

\* lease_epoch + 1: a generation of m that no worker remembers.
NextEpoch(m) == Min(Generations \ {mine[w].epoch : w \in {v \in Workers : mine[v].message = m}})

Goes(w, step) == pc' = [pc EXCEPT ![w] = step]
Returns(w) == Goes(w, "idle") /\ mine' = [mine EXCEPT ![w] = NoWork]

\* The row with a new status and without a lease.
Settled(row, status) == [row EXCEPT !.status = status, !.owner = None, !.ttl = 0]

\* Mutant: an expired lease is left where it is.
ClaimableFresh(m) == work[m].status \in {"ready", "retry"}

\* Due, or leased by a worker that let the lease expire. Delays pass.
Claimable(m) ==
    \/ work[m].status \in {"ready", "retry"}
    \/ work[m].status = "leased" /\ work[m].ttl = 0

\* ClaimSlackMessageWork. The budget caps the attempts, and a row at the budget
\* goes straight to fail.
ClaimSlackMessageWork(w) ==
    \E m \in Messages :
        LET tried == IF work[m].attempts >= Budget THEN work[m].attempts ELSE work[m].attempts + 1
        IN /\ pc[w] = "idle"
           /\ Claimable(m)
           /\ work' = [work EXCEPT ![m] = [status |-> "leased", owner |-> w, epoch |-> NextEpoch(m),
                                           attempts |-> tried, ttl |-> LeaseFor]]
           /\ mine' = [mine EXCEPT ![w] = [message |-> m, epoch |-> NextEpoch(m), attempts |-> tried]]
           /\ Goes(w, IF tried >= Budget THEN "failing" ELSE "processing")
           /\ spent' = [spent EXCEPT ![m] =
                  IF work[m].status = "leased" /\ @ < MaxAttempts THEN @ + 1 ELSE @]
           /\ UNCHANGED <<conversation, recovered>>

\* HeartbeatSlackMessageWork: the lease is renewed, or found lost and the work
\* dropped, or the renewal fails and so does the attempt.
Heartbeat(w) ==
    /\ pc[w] = "processing"
    /\ \/ /\ Holds(w)
          /\ work' = [work EXCEPT ![mine[w].message].ttl = LeaseFor]
          /\ UNCHANGED <<pc, mine>>
       \/ ~Holds(w) /\ Returns(w) /\ UNCHANGED work
       \/ Goes(w, "failing") /\ UNCHANGED <<work, mine>>
    /\ UNCHANGED <<conversation, spent, recovered>>

\* ApplySlackMessageWork commits: the turn is opened if it can be, and the work is
\* complete either way. The worker may miss the answer.
ApplySlackMessageWork(w) ==
    LET t == Thread[mine[w].message]
    IN /\ pc[w] = "processing"
       /\ Holds(w)
       /\ \/ OpenTurn(t)
          \/ (t \in running \/ Queued(t) = {}) /\ UNCHANGED conversation
       /\ work' = [work EXCEPT ![mine[w].message] = Settled(@, "complete")]
       /\ Returns(w) \/ (Goes(w, "failing") /\ UNCHANGED mine)
       /\ UNCHANGED <<spent, recovered>>

\* It does not commit: the lease is lost, the Organization has no room for
\* another waiting Investigation, or the store fails.
ApplyRefused(w) ==
    /\ pc[w] = "processing"
    /\ \/ ~Holds(w) /\ Returns(w)
       \/ Goes(w, "deferring") /\ UNCHANGED mine
       \/ Goes(w, "failing") /\ UNCHANGED mine
    /\ UNCHANGED <<work, conversation, spent, recovered>>

\* Mutant: waiting for room counts as an attempt.
DeferCounting(w) ==
    /\ pc[w] = "deferring"
    /\ \/ Holds(w) /\ work' = [work EXCEPT ![mine[w].message] = Settled(@, "retry")]
       \/ UNCHANGED work
    /\ Returns(w)
    /\ UNCHANGED <<conversation, spent, recovered>>

\* The row put off, with the attempt given back.
Deferred(row) == [Settled(row, "retry") EXCEPT !.attempts = Max({row.attempts - 1, 0})]

\* DeferSlackMessageWork, which gives the attempt back; or its failure.
DeferSlackMessageWork(w) ==
    /\ pc[w] = "deferring"
    /\ \/ Holds(w) /\ work' = [work EXCEPT ![mine[w].message] = Deferred(@)]
       \/ UNCHANGED work
    /\ Returns(w)
    /\ UNCHANGED <<conversation, spent, recovered>>

\* fail and FailSlackMessageWork, or its failure.
FailSlackMessageWork(w) ==
    LET m == mine[w].message
    IN /\ pc[w] = "failing"
       /\ \/ /\ Holds(w)
             /\ work' = [work EXCEPT ![m] =
                    Settled(@, IF mine[w].attempts >= MaxAttempts THEN "terminal" ELSE "retry")]
             /\ spent' = [spent EXCEPT ![m] = IF @ < MaxAttempts THEN @ + 1 ELSE @]
          \/ UNCHANGED <<work, spent>>
       /\ Returns(w)
       /\ UNCHANGED <<conversation, recovered>>

\* The worker's process dies, at any step, and the lease is left to expire: the
\* environment's.
Crash(w) ==
    /\ pc[w] # "idle"
    /\ Returns(w)
    /\ UNCHANGED <<work, conversation, spent, recovered>>

\* RecoverSlackMessage: an operator gives a terminal Message a new budget.
RecoverSlackMessage(m) ==
    /\ work[m].status = "terminal"
    /\ recovered < MaxRecoveries
    /\ recovered' = recovered + 1
    /\ work' = [work EXCEPT ![m].status = "ready", ![m].attempts = 0]
    /\ spent' = [spent EXCEPT ![m] = 0]
    /\ UNCHANGED <<conversation, pc, mine>>

\* One tick of the clock.
Tick ==
    /\ \E m \in Messages : work[m].ttl > 0
    /\ work' = [m \in Messages |-> [work[m] EXCEPT !.ttl = Max({@ - 1, 0})]]
    /\ UNCHANGED <<conversation, pc, mine, spent, recovered>>

-----------------------------------------------------------------------------
ProcessOne(w) ==
    \/ ClaimSlackMessageWork(w) \/ Heartbeat(w) \/ ApplySlackMessageWork(w) \/ ApplyRefused(w)
    \/ DeferSlackMessageWork(w) \/ FailSlackMessageWork(w) \/ Crash(w)

Next ==
    \/ \E m \in Messages : RecordSlackMessage(m) \/ RecoverSlackMessage(m)
    \/ \E t \in Threads : TurnEnds(t) \/ AdmitTurn(t)
    \/ \E w \in Workers : ProcessOne(w)
    \/ Tick

Spec == Init /\ [][Next]_vars

\* A worker keeps polling and finishes what it is doing unless it dies; workers
\* may die in every attempt, but the store does not lose the write of a failure
\* every time; turns end; and the Organization has room again some day.
Fairness ==
    /\ WF_vars(Tick)
    /\ \A t \in Threads : WF_vars(TurnEnds(t)) /\ WF_vars(AdmitTurn(t))
    /\ \A w \in Workers : /\ WF_vars(ClaimSlackMessageWork(w))
                          /\ WF_vars(ApplySlackMessageWork(w) \/ ApplyRefused(w))
                          /\ WF_vars(DeferSlackMessageWork(w) \/ FailSlackMessageWork(w))
    /\ \A m \in Messages :
          SF_vars(\E w \in Workers : /\ mine[w].message = m
                                     /\ FailSlackMessageWork(w)
                                     /\ work'[m] # work[m])
    /\ <>[][\A w \in Workers : pc'[w] # "deferring"]_vars

FairSpec == Spec /\ Fairness

-----------------------------------------------------------------------------
(* Properties.                                                              *)

TypeOK ==
    /\ work \in [Messages -> [status : Statuses, owner : Workers \cup {None},
                              epoch : Generations \cup {0}, attempts : 0 .. Budget, ttl : 0 .. LeaseFor]]
    /\ \A t \in Threads : \A k \in DOMAIN said[t] : said[t][k] \in Messages
    /\ turn \in [Messages -> 0 .. Cardinality(Messages)]
    /\ turns \in [Threads -> 0 .. Cardinality(Messages)]
    /\ running \subseteq Threads
    /\ pc \in [Workers -> {"idle", "processing", "deferring", "failing"}]
    /\ mine \in [Workers -> [message : Messages \cup {None}, epoch : Generations \cup {0},
                             attempts : 0 .. Budget]]
    /\ spent \in [Messages -> 0 .. MaxAttempts]
    /\ recovered \in 0 .. MaxRecoveries

\* However often work is retried after a commit whose answer was lost, every turn
\* has a Message of its own: the assignment of the Message is what makes a retry
\* harmless (ApplySlackMessageWork).
TurnsHaveMessages ==
    \A t \in Threads : \A n \in 1 .. turns[t] : \E m \in Messages : Thread[m] = t /\ turn[m] = n

\* A Message is in its Conversation exactly once if its delivery was accepted, and
\* nowhere if not, so the work and the Message never part (RecordSlackMessage).
WorkHasItsMessage ==
    \A m \in Messages :
        Cardinality({k \in DOMAIN said[Thread[m]] : said[Thread[m]][k] = m})
            = (IF work[m].status = "absent" THEN 0 ELSE 1)

\* Rows and workers are well formed, every Message has its work, and every turn
\* its Message.
Consistent == TypeOK /\ WorkHasItsMessage /\ TurnsHaveMessages

\* A Message becomes terminal only after MaxAttempts attempts that failed or were
\* abandoned; waiting behind a full Organization does not use it up (Defer, fail).
TerminalIsEarned ==
    /\ Consistent
    /\ \A m \in Messages : work[m].status = "terminal" => spent[m] >= MaxAttempts

\* While a lease is good only its holder settles the row, and a worker whose claim
\* was superseded settles nothing: complete stays complete, and only a recovery
\* takes a Message out of terminal.
LeaseIsExclusive ==
    [][\A m \in Messages :
          /\ work[m].status = "complete" => work'[m] = work[m]
          /\ work[m].status = "terminal" => work'[m] = work[m] \/ recovered' # recovered
          /\ (work[m].status = "leased" /\ work[m].ttl > 0 /\ work'[m].status # "leased") =>
                \E w \in Workers : /\ work[m].owner = w
                                   /\ mine[w].message = m
                                   /\ mine[w].epoch = work[m].epoch
                                   /\ pc'[w] # pc[w]]_vars

\* Accepted work never gets stuck: it completes or becomes terminal, although
\* workers die with it and leases expire.
EveryMessageSettles ==
    \A m \in Messages : work[m].status \in {"ready", "leased", "retry"} ~>
                            work[m].status \in {"complete", "terminal"}
=============================================================================
