--------------------------- MODULE Investigation ---------------------------
(***************************************************************************)
(* Investigations and the Conversation turns they answer, for one           *)
(* Organization: the PostgreSQL rows (investigation, investigation_event,   *)
(* investigation_tool_run, conversation_message) and the processes that     *)
(* write them: the Runner's workers with their agent and lease monitor, the *)
(* sweeper (recoverLoop), the admission loop and the HTTP handlers.         *)
(*                                                                          *)
(* One store transaction is one action: every one of them takes the row     *)
(* locks (lockInvestigation, lockConversation) or the Organization's        *)
(* advisory lock before it reads what its write depends on. What a process  *)
(* remembers between two transactions is state of its own and may be stale. *)
(***************************************************************************)
EXTENDS Integers, Sequences, FiniteSets

CONSTANTS
    Conversations,      \* Conversations of the Organization
    Workers,            \* worker goroutines, of every control-plane process
    Windows,            \* evidence windows a Message may carry
    None,               \* SQL NULL / uuid.Nil
    MaxPending,         \* waiting-Investigation limit; not positive = no limit
    MaxQueued,          \* maxQueuedMessages
    MaxToolRuns,        \* the agent's read budget
    SweepBatch,         \* sweepBatch
    LeaseFor,           \* leaseDuration, in clock ticks
    MaxInvestigations,  \* bound: Investigations ever opened
    MaxMessages,        \* bound: Messages in one Conversation
    MaxEvents           \* bound: events announced in one Investigation

ASSUME NoneAssumption == None \notin Conversations \cup Windows \cup Nat
ASSUME PendingAssumption == MaxPending \in Int
ASSUME QueuedAssumption == MaxQueued \in Nat \ {0}
ASSUME BudgetAssumption == MaxToolRuns \in Nat
ASSUME LeaseAssumption == LeaseFor \in Nat \ {0}
ASSUME BoundsAssumption ==
    /\ MaxInvestigations \in Nat
    /\ MaxMessages \in Nat
    /\ MaxEvents \in Nat
    /\ SweepBatch \in Nat \ {0}

\* uuid.New: ids are handed out in creation order, so a smaller id is an
\* older created_at, and within a Conversation a smaller turn.
Investigations == 1 .. MaxInvestigations

Terminal == {"concluded", "failed", "cancelled"}
Statuses == {"absent", "running"} \cup Terminal
Steps == {"idle", "deciding", "executing", "recorded", "failing", "ended"}

VARIABLES
    opened,     \* Investigations created so far
    status,     \* investigation.status, "absent" before the row exists
    conv,       \* investigation.conversation_id
    window,     \* investigation.window_from / window_until
    token,      \* investigation.lease_token, 0 = NULL
    ttl,        \* ticks until lease_expires_at, 0 = lapsed or no lease
    events,     \* investigation_event rows by sequence
    runs,       \* ordinals of the investigation_tool_run rows
    messages,   \* conversation_message rows by sequence
    issued,     \* lease tokens generated so far (gen_random_uuid)
    pc,         \* where a worker's runClaimed stands
    job,        \* the Investigation it claimed
    claim,      \* Claim.Token it holds
    stopped,    \* its run context is done
    made,       \* len(runState.runs)
    failed,     \* the agent returned an error
    picked      \* Conversation the admission loop read, not yet opened

investigationVars == <<opened, status, conv, window, token, ttl, issued>>
streamVars == <<events, runs>>
workerVars == <<pc, job, claim, stopped, made, failed>>
vars == <<investigationVars, streamVars, messages, workerVars, picked>>

Event(type, ordinal) == [type |-> type, ordinal |-> ordinal]
Announced == {"progress", "tool_started", "tool_completed"}
Events == [type : Announced \cup Terminal, ordinal : 0 .. MaxToolRuns]
Messages == [role : {"user", "assistant"}, inv : Investigations \cup {None},
             window : Windows]

RowsTypeOK ==
    /\ opened \in 0 .. MaxInvestigations
    /\ status \in [Investigations -> Statuses]
    /\ conv \in [Investigations -> Conversations \cup {None}]
    /\ window \in [Investigations -> Windows \cup {None}]
    /\ token \in [Investigations -> Nat]
    /\ ttl \in [Investigations -> 0 .. LeaseFor]
    /\ events \in [Investigations -> Seq(Events)]
    /\ runs \in [Investigations -> SUBSET (1 .. MaxToolRuns)]
    /\ messages \in [Conversations -> Seq(Messages)]
    /\ issued \in Nat

ProcessTypeOK ==
    /\ pc \in [Workers -> Steps]
    /\ job \in [Workers -> Investigations \cup {None}]
    /\ claim \in [Workers -> Nat]
    /\ stopped \in [Workers -> BOOLEAN]
    /\ made \in [Workers -> 0 .. MaxToolRuns]
    /\ failed \in [Workers -> BOOLEAN]
    /\ picked \in Conversations \cup {None}

\* Every row and every process variable has its type.
TypeOK == RowsTypeOK /\ ProcessTypeOK

Init ==
    /\ opened = 0
    /\ status = [i \in Investigations |-> "absent"]
    /\ conv = [i \in Investigations |-> None]
    /\ window = [i \in Investigations |-> None]
    /\ token = [i \in Investigations |-> 0]
    /\ ttl = [i \in Investigations |-> 0]
    /\ events = [i \in Investigations |-> <<>>]
    /\ runs = [i \in Investigations |-> {}]
    /\ messages = [c \in Conversations |-> <<>>]
    /\ issued = 0
    /\ pc = [w \in Workers |-> "idle"]
    /\ job = [w \in Workers |-> None]
    /\ claim = [w \in Workers |-> 0]
    /\ stopped = [w \in Workers |-> FALSE]
    /\ made = [w \in Workers |-> 0]
    /\ failed = [w \in Workers |-> FALSE]
    /\ picked = None

-----------------------------------------------------------------------------
(* Reads that the transactions share. *)

\* status = 1 AND lease_worker = ''
Waiting == {i \in Investigations : status[i] = "running" /\ token[i] = 0}

\* Mutant: the expiry comparison is strict.
LapsedStrictly == {i \in Investigations :
              status[i] = "running" /\ token[i] # 0 /\ ttl[i] < 0}

\* status = 1 AND lease_worker <> '' AND lease_expires_at <= now()
Lapsed == {i \in Investigations :
              status[i] = "running" /\ token[i] # 0 /\ ttl[i] = 0}

\* reserveWaitingInvestigations, under the Organization's advisory lock.
Reserve(requested) ==
    MaxPending <= 0 \/ requested <= MaxPending - Cardinality(Waiting)

\* The Conversation's running Investigation, if any.
RunningTurns(c) == {i \in Investigations : status[i] = "running" /\ conv[i] = c}

\* User Messages of a Conversation that no turn has taken yet.
Unassigned(said) == {k \in DOMAIN said : said[k].role = "user" /\ said[k].inv = None}

\* All of the Organization's unassigned user Messages.
QueuedMessages ==
    UNION {{<<c, k>> : k \in Unassigned(messages[c])} : c \in Conversations}

\* Mutant: the expiry is not looked at.
HoldsWithoutExpiry(w) ==
    job[w] # None /\ status[job[w]] = "running" /\ token[job[w]] = claim[w]

\* The fence every write of a run passes: status = 1, the token, the expiry.
Holds(w) ==
    LET i == job[w]
    IN  /\ i # None
        /\ status[i] = "running"
        /\ token[i] = claim[w]
        /\ ttl[i] > 0

-----------------------------------------------------------------------------
(* Opening Investigations and turns. *)

\* queuedBatch: the first MaxQueued unassigned user Messages by sequence.
QueuedBatch(said) ==
    {k \in Unassigned(said) :
        Cardinality({j \in Unassigned(said) : j <= k}) <= MaxQueued}

\* The window of a turn is its first queued Message's.
HeadWindow(said) ==
    said[CHOOSE k \in Unassigned(said) : \A j \in Unassigned(said) : k <= j].window

Assigned(said, batch, i) ==
    [k \in DOMAIN said |-> IF k \in batch THEN [said[k] EXCEPT !.inv = i]
                                          ELSE said[k]]

NewInvestigation(c, win) ==
    LET i == opened + 1
    IN  /\ opened < MaxInvestigations
        /\ opened' = i
        /\ status' = [status EXCEPT ![i] = "running"]
        /\ conv' = [conv EXCEPT ![i] = c]
        /\ window' = [window EXCEPT ![i] = win]
        /\ UNCHANGED <<token, ttl, issued, streamVars>>

\* Mutant: a running turn is not looked for.
OpenTurnUnchecked(c, said) ==
    IF Unassigned(said) = {}
    THEN /\ messages' = [messages EXCEPT ![c] = said]
         /\ UNCHANGED <<investigationVars, streamVars>>
    ELSE /\ NewInvestigation(c, HeadWindow(said))
         /\ messages' = [messages EXCEPT
                            ![c] = Assigned(said, QueuedBatch(said), opened + 1)]

\* openTurn: said is the Conversation's Messages as its transaction sees them.
OpenTurn(c, said) ==
    \/ /\ RunningTurns(c) # {} \/ Unassigned(said) = {}
       /\ messages' = [messages EXCEPT ![c] = said]
       /\ UNCHANGED <<investigationVars, streamVars>>
    \/ /\ RunningTurns(c) = {}
       /\ Unassigned(said) # {}
       /\ NewInvestigation(c, HeadWindow(said))
       /\ messages' = [messages EXCEPT
                          ![c] = Assigned(said, QueuedBatch(said), opened + 1)]

\* CreateInvestigation: a person asks for one outside any Conversation.
CreateInvestigation ==
    /\ Reserve(1)
    /\ \E win \in Windows : NewInvestigation(None, win)
    /\ UNCHANGED <<messages, workerVars, picked>>

\* acceptedWindow: a queued Message fixes the window of those behind it, and a
\* request for another one is refused.
AcceptedWindow(c, requested, default) ==
    IF Unassigned(messages[c]) # {} THEN HeadWindow(messages[c])
    ELSE IF requested # None THEN requested ELSE default

WindowConflict(c, requested) ==
    /\ Unassigned(messages[c]) # {}
    /\ requested # None
    /\ requested # HeadWindow(messages[c])

\* AppendMessageAndOpenTurn, with appendMessage and reserveQueuedMessage. A
\* default window comes from the clock and the Incident (turnWindow).
AppendMessageAndOpenTurn(c) ==
    \E requested \in Windows \cup {None}, default \in Windows :
        /\ Reserve(1)
        /\ Cardinality(QueuedMessages) < MaxQueued
        /\ ~WindowConflict(c, requested)
        /\ Len(messages[c]) < MaxMessages
        /\ OpenTurn(c, Append(messages[c],
                              [role |-> "user", inv |-> None,
                               window |-> AcceptedWindow(c, requested, default)]))
        /\ UNCHANGED <<workerVars, picked>>

\* Mutant: an earlier turn that has ended counts as running.
AdmitPickFirstTurn ==
    /\ picked = None
    /\ \E c \in Conversations :
          /\ Unassigned(messages[c]) # {}
          /\ \A i \in Investigations : conv[i] # c
          /\ Reserve(1)
          /\ picked' = c
    /\ UNCHANGED <<investigationVars, streamVars, messages, workerVars>>

\* OpenQueuedConversationTurn reads a Conversation before it takes any lock ...
AdmitPick ==
    /\ picked = None
    /\ \E c \in Conversations :
          /\ Unassigned(messages[c]) # {}
          /\ RunningTurns(c) = {}
          /\ Reserve(1)
          /\ picked' = c
    /\ UNCHANGED <<investigationVars, streamVars, messages, workerVars>>

\* ... and checks everything again under the locks.
AdmitOpen ==
    /\ picked # None
    /\ Reserve(1)
    /\ OpenTurn(picked, messages[picked])
    /\ picked' = None
    /\ UNCHANGED workerVars

\* A refused reservation or a storage error leaves the Message for the next poll.
AdmitRefused ==
    /\ picked # None
    /\ picked' = None
    /\ UNCHANGED <<investigationVars, streamVars, messages, workerVars>>

-----------------------------------------------------------------------------
(* Endings. *)

\* What every ending does to the row and its stream: status, no lease, and one
\* last event.
EndAll(S, outcome) ==
    /\ status' = [i \in Investigations |-> IF i \in S THEN outcome ELSE status[i]]
    /\ token' = [i \in Investigations |-> IF i \in S THEN 0 ELSE token[i]]
    /\ ttl' = [i \in Investigations |-> IF i \in S THEN 0 ELSE ttl[i]]
    /\ events' = [i \in Investigations |->
                    IF i \in S THEN Append(events[i], Event(outcome, 0))
                               ELSE events[i]]
    /\ UNCHANGED <<opened, conv, window, issued, runs>>

\* RecoverStale: up to SweepBatch lapsed leases fail; rows another transaction
\* has locked are skipped, so any of the lapsed ones may be left for later.
RecoverStale ==
    /\ \E S \in SUBSET Lapsed :
          /\ S # {}
          /\ Cardinality(S) <= SweepBatch
          /\ EndAll(S, "failed")
    /\ UNCHANGED <<messages, workerVars, picked>>

\* Mutant: an Investigation that has ended is cancelled again.
CancelEnded(i) ==
    /\ status[i] # "absent"
    /\ EndAll({i}, "cancelled")
    /\ UNCHANGED <<messages, workerVars, picked>>

\* CancelInvestigation; an Investigation that has ended is refused.
CancelInvestigation(i) ==
    /\ status[i] = "running"
    /\ EndAll({i}, "cancelled")
    /\ UNCHANGED <<messages, workerVars, picked>>

\* endInvestigation under the fence, with the assistant's reply of a concluded
\* turn that has one to give.
EndInvestigation(w, outcome, reply) ==
    LET i == job[w]
        c == conv[job[w]]
    IN  /\ Holds(w)
        /\ EndAll({i}, outcome)
        /\ messages' =
             IF c # None /\ outcome = "concluded" /\ reply
             THEN [messages EXCEPT ![c] = Append(@, [role |-> "assistant",
                                                     inv |-> i,
                                                     window |-> window[i]])]
             ELSE messages

-----------------------------------------------------------------------------
(* A worker: claim, run the agent, end, open the next turn. *)

\* ClaimInvestigation takes a waiting row under a fresh token: the oldest that no
\* other transaction has locked (SKIP LOCKED), so any of them. It never takes one
\* whose lease has lapsed.
ClaimInvestigation(w) ==
    /\ pc[w] = "idle"
    /\ \E i \in Waiting :
          /\ token' = [token EXCEPT ![i] = issued + 1]
          /\ ttl' = [ttl EXCEPT ![i] = LeaseFor]
          /\ job' = [job EXCEPT ![w] = i]
    /\ issued' = issued + 1
    /\ claim' = [claim EXCEPT ![w] = issued + 1]
    /\ pc' = [pc EXCEPT ![w] = "deciding"]
    /\ stopped' = [stopped EXCEPT ![w] = FALSE]
    /\ made' = [made EXCEPT ![w] = 0]
    /\ failed' = [failed EXCEPT ![w] = FALSE]
    /\ UNCHANGED <<opened, status, conv, window, streamVars, messages, picked>>

\* AppendEvent through announce: a refused or lost event is only logged.
Announce(w, type, ordinal) ==
    \/ /\ Holds(w)
       /\ ~stopped[w]
       /\ Len(events[job[w]]) < MaxEvents
       /\ events' = [events EXCEPT ![job[w]] = Append(@, Event(type, ordinal))]
    \/ UNCHANGED events

\* The agent reports progress between two moves.
AnnounceProgress(w) ==
    /\ pc[w] = "deciding"
    /\ Announce(w, "progress", 0)
    /\ UNCHANGED <<investigationVars, runs, messages, workerVars, picked>>

\* Mutant: completion is announced before the run is recorded.
StartToolAsDone(w) ==
    /\ pc[w] = "deciding"
    /\ ~stopped[w]
    /\ made[w] < MaxToolRuns
    /\ Announce(w, "tool_completed", made[w] + 1)
    /\ pc' = [pc EXCEPT ![w] = "executing"]
    /\ UNCHANGED <<investigationVars, runs, messages, job, claim, stopped, made,
                   failed, picked>>

\* The model asked for a read within the budget: announce it, then execute.
StartTool(w) ==
    /\ pc[w] = "deciding"
    /\ ~stopped[w]
    /\ made[w] < MaxToolRuns
    /\ Announce(w, "tool_started", made[w] + 1)
    /\ pc' = [pc EXCEPT ![w] = "executing"]
    /\ UNCHANGED <<investigationVars, runs, messages, job, claim, stopped, made,
                   failed, picked>>

\* RecordToolRun commits; the agent may still see an error, and then it fails
\* the run. The ordinal is the row's key, so a second insert is refused.
RecordToolRun(w) ==
    /\ pc[w] = "executing"
    /\ ~stopped[w]
    /\ Holds(w)
    /\ made[w] + 1 \notin runs[job[w]]
    /\ runs' = [runs EXCEPT ![job[w]] = @ \cup {made[w] + 1}]
    /\ \/ /\ made' = [made EXCEPT ![w] = @ + 1]
          /\ pc' = [pc EXCEPT ![w] = "recorded"]
       \/ /\ pc' = [pc EXCEPT ![w] = "failing"]
          /\ UNCHANGED made
    /\ UNCHANGED <<investigationVars, events, messages, job, claim, stopped,
                   failed, picked>>

\* The recorded run's completion is announced and the agent decides again.
CompleteTool(w) ==
    /\ pc[w] = "recorded"
    /\ Announce(w, "tool_completed", made[w])
    /\ pc' = [pc EXCEPT ![w] = "deciding"]
    /\ UNCHANGED <<investigationVars, runs, messages, job, claim, stopped, made,
                   failed, picked>>

\* ConcludeInvestigation and FailInvestigation write outside the run's context,
\* so a stopped run still tries. The answer to a write that landed may be lost.
Conclude(w) ==
    /\ pc[w] = "deciding"
    /\ \E reply \in BOOLEAN : EndInvestigation(w, "concluded", reply)
    /\ pc' = [pc EXCEPT ![w] = "ended"]
    /\ \E lost \in BOOLEAN : failed' = [failed EXCEPT ![w] = lost]
    /\ UNCHANGED <<job, claim, stopped, made, picked>>

\* failRun: the reasoner, a tool or the recording of a tool run failed.
FailRun(w) ==
    /\ pc[w] \in {"deciding", "executing", "failing"}
    /\ EndInvestigation(w, "failed", FALSE)
    /\ pc' = [pc EXCEPT ![w] = "ended"]
    /\ \E lost \in BOOLEAN : failed' = [failed EXCEPT ![w] = lost]
    /\ UNCHANGED <<job, claim, stopped, made, picked>>

\* The terminal write is refused (the fence) or does not reach the database.
EndRefused(w) ==
    /\ pc[w] \in {"deciding", "executing", "failing"}
    /\ pc' = [pc EXCEPT ![w] = "ended"]
    /\ failed' = [failed EXCEPT ![w] = TRUE]
    /\ UNCHANGED <<investigationVars, streamVars, messages, job, claim, stopped,
                   made, picked>>

Release(w) ==
    /\ pc' = [pc EXCEPT ![w] = "idle"]
    /\ job' = [job EXCEPT ![w] = None]
    /\ claim' = [claim EXCEPT ![w] = 0]
    /\ stopped' = [stopped EXCEPT ![w] = FALSE]
    /\ made' = [made EXCEPT ![w] = 0]
    /\ failed' = [failed EXCEPT ![w] = FALSE]

\* After the agent: a run that failed and whose row still runs is left to its
\* lease; any other opens the Conversation's next turn, unless the queue is
\* full or the store does not answer.
FinishRun(w) ==
    LET i == job[w]
    IN  /\ pc[w] = "ended"
        /\ \/ /\ ~(failed[w] /\ status[i] = "running")
              /\ conv[i] # None
              /\ Reserve(1)
              /\ OpenTurn(conv[i], messages[conv[i]])
           \/ UNCHANGED <<investigationVars, streamVars, messages>>
        /\ Release(w)
        /\ UNCHANGED picked

\* The process dies with its memory, at any step: the environment's. The row keeps
\* its lease.
Crash(w) ==
    /\ pc[w] # "idle"
    /\ Release(w)
    /\ UNCHANGED <<investigationVars, streamVars, messages, picked>>

-----------------------------------------------------------------------------
(* The worker's monitor and the clock. *)

AgentRunning(w) == pc[w] \notin {"idle", "ended"}

\* monitorClaim's renewal: a held lease is extended, a lost one stops the run.
Heartbeat(w) ==
    /\ AgentRunning(w)
    /\ ~stopped[w]
    /\ \/ /\ Holds(w)
          /\ ttl' = [ttl EXCEPT ![job[w]] = LeaseFor]
          /\ UNCHANGED stopped
       \/ /\ ~Holds(w)
          /\ stopped' = [stopped EXCEPT ![w] = TRUE]
          /\ UNCHANGED ttl
    /\ UNCHANGED <<opened, status, conv, window, token, issued, streamVars,
                   messages, pc, job, claim, made, failed, picked>>

\* The monitor's poll, or Runner.Cancel in the same process, sees the
\* cancellation.
SeeCancelled(w) ==
    /\ AgentRunning(w)
    /\ ~stopped[w]
    /\ status[job[w]] = "cancelled"
    /\ stopped' = [stopped EXCEPT ![w] = TRUE]
    /\ UNCHANGED <<investigationVars, streamVars, messages, pc, job, claim, made,
                   failed, picked>>

\* investigationTimeout passes, or the process shuts down.
StopRun(w) ==
    /\ AgentRunning(w)
    /\ ~stopped[w]
    /\ stopped' = [stopped EXCEPT ![w] = TRUE]
    /\ UNCHANGED <<investigationVars, streamVars, messages, pc, job, claim, made,
                   failed, picked>>

\* One tick of the database clock.
Tick ==
    /\ \E i \in Investigations : ttl[i] > 0
    /\ ttl' = [i \in Investigations |-> IF ttl[i] > 0 THEN ttl[i] - 1 ELSE 0]
    /\ UNCHANGED <<opened, status, conv, window, token, issued, streamVars,
                   messages, workerVars, picked>>

-----------------------------------------------------------------------------
WorkerStep(w) ==
    \/ ClaimInvestigation(w) \/ AnnounceProgress(w) \/ StartTool(w)
    \/ RecordToolRun(w) \/ CompleteTool(w) \/ Conclude(w) \/ FailRun(w)
    \/ EndRefused(w) \/ FinishRun(w) \/ Crash(w)
    \/ Heartbeat(w) \/ SeeCancelled(w) \/ StopRun(w)

Next ==
    \/ CreateInvestigation
    \/ \E c \in Conversations : AppendMessageAndOpenTurn(c)
    \/ AdmitPick
    \/ AdmitOpen
    \/ AdmitRefused
    \/ RecoverStale
    \/ \E i \in Investigations : CancelInvestigation(i)
    \/ \E w \in Workers : WorkerStep(w)
    \/ Tick

Spec == Init /\ [][Next]_vars

\* What the code's scheduling guarantees: loops that poll keep polling, a run
\* context has a deadline, the clock advances, and a store that refuses an
\* admission does not refuse it for ever.
Fairness ==
    /\ \A w \in Workers :
          /\ WF_vars(ClaimInvestigation(w))
          /\ WF_vars(StopRun(w))
          /\ WF_vars(CompleteTool(w))
          /\ WF_vars(stopped[w] /\ (FailRun(w) \/ EndRefused(w)))
          /\ WF_vars(FinishRun(w))
    /\ WF_vars(Tick)
    /\ WF_vars(RecoverStale)
    /\ WF_vars(AdmitPick)
    /\ SF_vars(AdmitOpen)

FairSpec == Spec /\ Fairness

-----------------------------------------------------------------------------
(* Properties. *)

Ending(i) == {k \in DOMAIN events[i] : events[i][k].type \in Terminal}

\* The event stream agrees with the row, whoever wrote the ending (the run, the
\* sweeper or a cancellation): an Investigation that has ended has exactly one
\* terminal event, of its own kind and last, and a running one has none. A
\* reader that stops at the terminal event has therefore seen everything.
StreamEndsOnce ==
    \A i \in Investigations :
        IF status[i] \in Terminal
        THEN /\ Ending(i) = {Len(events[i])}
             /\ events[i][Len(events[i])].type = status[i]
        ELSE Ending(i) = {}

\* A Conversation never has two Investigations running: the admission loop, a
\* finishing worker and a new Message race to open the next turn.
OneTurnAtATime ==
    \A c \in Conversations, i, j \in Investigations :
        i \in RunningTurns(c) /\ j \in RunningTurns(c) => i = j

\* reserveWaitingInvestigations: no interleaving of openings exceeds the limit.
WaitingWithinLimit ==
    MaxPending > 0 => Cardinality(Waiting) <= MaxPending

\* recordToolRun comes before the announcement: every completion in the stream
\* names a tool run that is in the database, although announcements may be lost
\* and the answer to the insert may be too.
CompletionsAreRecorded ==
    \A i \in Investigations : \A k \in DOMAIN events[i] :
        events[i][k].type = "tool_completed" => events[i][k].ordinal \in runs[i]

\* Rows and processes are well formed, openings stay within the limit whoever
\* opens, and the stream announces only what the database holds
\* (reserveWaitingInvestigations, RecordToolRun).
Consistent == TypeOK /\ WaitingWithinLimit /\ CompletionsAreRecorded

\* A turn has Messages to answer (the agent's "assigned Messages are missing"
\* cannot happen), all in the one window the Investigation searches.
TurnsHaveMessages ==
    \A i \in Investigations : conv[i] # None =>
        LET own == {k \in DOMAIN messages[conv[i]] :
                       messages[conv[i]][k].inv = i}
        IN  /\ \E k \in own : messages[conv[i]][k].role = "user"
            /\ \A k \in own : messages[conv[i]][k].window = window[i]

\* An assistant Message answers a turn that concluded, comes after every Message
\* of that turn and is the only answer to it.
RepliesFollowTheirTurn ==
    \A c \in Conversations : \A k \in DOMAIN messages[c] :
        messages[c][k].role = "assistant" =>
            /\ messages[c][k].inv # None
            /\ status[messages[c][k].inv] = "concluded"
            /\ \A j \in DOMAIN messages[c] :
                  messages[c][j].inv = messages[c][k].inv => j <= k

\* A Conversation reads as a dialogue, whoever opens and ends its turns: one turn at
\* a time, each with its Messages, each answered after them and at most once
\* (openTurn, OpenQueuedConversationTurn, endInvestigation).
TurnsAreADialogue == OneTurnAtATime /\ TurnsHaveMessages /\ RepliesFollowTheirTurn

\* Ended is for ever: nothing writes a terminal Investigation, its stream or its
\* tool runs, however late the write was prepared.
TerminalIsFinal ==
    [][\A i \in Investigations : status[i] \in Terminal =>
          /\ status'[i] = status[i]
          /\ token'[i] = 0
          /\ events'[i] = events[i]
          /\ runs'[i] = runs[i]]_vars

\* The refinement mapping: the lease columns and the clock as one phase.
Phase == [i \in Investigations |->
            IF status[i] # "running" THEN status[i]
            ELSE IF token[i] = 0 THEN "waiting"
            ELSE IF ttl[i] > 0 THEN "leased" ELSE "lapsed"]

Lifecycle == INSTANCE InvestigationLifecycle
                WITH Ids <- Investigations, Ordinals <- 1 .. MaxToolRuns,
                     Notes <- {e \in Events : e.type \in Announced},
                     phase <- Phase, log <- events, evidence <- runs

\* The store's transactions, with every process that calls them, implement the
\* lifecycle each Investigation is promised: one lease, one ending, and no note or
\* evidence outside the lease.
ImplementsLifecycle == Lifecycle!LifecycleSpec

\* Every Investigation ends, although workers crash, stall and lose answers.
EveryInvestigationEnds ==
    \A i \in Investigations : status[i] = "running" ~> status[i] \in Terminal

\* Every queued Message is taken by a turn (up to the bound on Investigations),
\* also when the worker that would have opened it died or the pick was stale.
EveryMessageIsTaken ==
    \A c \in Conversations :
        Unassigned(messages[c]) # {} ~>
            (Unassigned(messages[c]) = {} \/ opened = MaxInvestigations)
=============================================================================
