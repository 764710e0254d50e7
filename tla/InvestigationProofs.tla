------------------------- MODULE InvestigationProofs -------------------------
(***************************************************************************)
(* Proofs about Investigation for every value of its constants.             *)
(***************************************************************************)
EXTENDS Investigation, SequenceTheorems, FiniteSetTheorems, WellFoundedInduction, TLAPS

USE NoneAssumption, PendingAssumption, QueuedAssumption, BudgetAssumption,
    LeaseAssumption, BoundsAssumption

\* Rows exist from 1 up to opened; an open row has a window; a worker past its
\* claim works on a row that exists, within its read budget.
RowsInOrder ==
    /\ \A i \in Investigations : status[i] = "absent" <=> i > opened
    /\ \A i \in Investigations : status[i] # "absent" => window[i] \in Windows
    /\ \A i \in Investigations : conv[i] # None => i <= opened

JobsExist == \A w \in Workers : pc[w] # "idle" => job[w] \in 1 .. opened

BudgetKept == \A w \in Workers : pc[w] = "executing" => made[w] < MaxToolRuns

Shape == RowsInOrder /\ JobsExist /\ BudgetKept

TypeShape == TypeOK /\ Shape

-----------------------------------------------------------------------------
(* What opening a turn does to the rows. *)

\* The oldest unassigned Message exists, and its window is the head's.
LEMMA HeadIsFirst ==
    ASSUME NEW said \in Seq(Messages), Unassigned(said) # {}
    PROVE  \E k \in Unassigned(said) :
              HeadWindow(said) = said[k].window /\ \A j \in Unassigned(said) : k <= j
<1> DEFINE U == Unassigned(said)
<1>1. U \subseteq Nat
  BY DEF Unassigned
<1>2. PICK k \in U : \A j \in U : ~(<<j, k>> \in OpToRel(<, Nat))
  BY <1>1, NatLessThanWellFounded, WFMin
<1>3. \A j \in U : k <= j
  <2> SUFFICES ASSUME NEW j \in U, j < k PROVE FALSE
    BY <1>1
  <2>1. <<j, k>> \in Nat \X Nat /\ <<j, k>>[1] < <<j, k>>[2]
    BY <1>1
  <2>2. <<j, k>> \in OpToRel(<, Nat)
    BY <2>1, Zenon DEF OpToRel
  <2> QED
    BY <2>2, <1>2
<1> DEFINE head == CHOOSE n \in U : \A j \in U : n <= j
<1>4. head \in U /\ \A j \in U : head <= j
  BY <1>3
<1> QED
  BY <1>4 DEF HeadWindow

LEMMA HeadWindowType ==
    ASSUME NEW said \in Seq(Messages), Unassigned(said) # {}
    PROVE  HeadWindow(said) \in Windows
<1>1. PICK k \in Unassigned(said) : HeadWindow(said) = said[k].window
  BY HeadIsFirst
<1>2. said[k] \in Messages
  BY DEF Unassigned
<1> QED
  BY <1>1, <1>2 DEF Messages

\* A turn takes Messages: the result is again a sequence of Messages.
LEMMA AssignedType ==
    ASSUME NEW said \in Seq(Messages), NEW batch, NEW i \in Investigations
    PROVE  /\ Assigned(said, batch, i) \in Seq(Messages)
           /\ DOMAIN Assigned(said, batch, i) = DOMAIN said
<1> DEFINE new == Assigned(said, batch, i)
<1>1. said \in [1 .. Len(said) -> Messages] /\ Len(said) \in Nat
  OBVIOUS
<1>2. new \in [1 .. Len(said) -> Messages]
  BY <1>1 DEF Assigned, Messages
<1> QED
  BY <1>1, <1>2, SeqDef

\* openTurn, in the two forms its transaction can take.
LEMMA OpenTurnCases ==
    ASSUME NEW c, NEW said, OpenTurn(c, said)
    PROVE  \/ /\ UNCHANGED <<investigationVars, streamVars>>
              /\ messages' = [messages EXCEPT ![c] = said]
           \/ /\ Unassigned(said) # {}
              /\ RunningTurns(c) = {}
              /\ NewInvestigation(c, HeadWindow(said))
              /\ messages' = [messages EXCEPT
                      ![c] = Assigned(said, QueuedBatch(said), opened + 1)]
BY DEF OpenTurn

\* A new row is typed and the next in order.
LEMMA NewInvestigationRows ==
    ASSUME RowsTypeOK, RowsInOrder, NEW c \in Conversations \cup {None}, NEW win \in Windows,
           NewInvestigation(c, win), messages' \in [Conversations -> Seq(Messages)]
    PROVE  /\ RowsTypeOK'
           /\ RowsInOrder'
           /\ opened' \in Nat /\ opened' >= opened
<1>1. /\ opened \in Nat /\ opened' = opened + 1
      /\ opened' \in Investigations /\ opened' \in 0 .. MaxInvestigations
  BY BoundsAssumption DEF NewInvestigation, RowsTypeOK, Investigations
<1>2. /\ status' = [status EXCEPT ![opened'] = "running"]
      /\ conv' = [conv EXCEPT ![opened'] = c]
      /\ window' = [window EXCEPT ![opened'] = win]
      /\ UNCHANGED <<token, ttl, issued, events, runs>>
  BY DEF NewInvestigation, streamVars
<1>3. RowsTypeOK'
  <2>1. status' \in [Investigations -> Statuses]
    BY <1>1, <1>2 DEF RowsTypeOK, Statuses
  <2>2. conv' \in [Investigations -> Conversations \cup {None}]
    BY <1>1, <1>2 DEF RowsTypeOK
  <2>3. window' \in [Investigations -> Windows \cup {None}]
    BY <1>1, <1>2 DEF RowsTypeOK
  <2> QED
    BY <1>1, <1>2, <2>1, <2>2, <2>3 DEF RowsTypeOK
<1>4. RowsInOrder'
  <2> SUFFICES ASSUME NEW i \in Investigations
               PROVE  /\ status'[i] = "absent" <=> i > opened'
                      /\ status'[i] # "absent" => window'[i] \in Windows
                      /\ conv'[i] # None => i <= opened'
    BY DEF RowsInOrder
  <2>1. i \in Nat
    BY DEF Investigations
  <2>2. CASE i = opened'
    <3>1. status'[i] = "running" /\ window'[i] = win
      BY <1>1, <1>2, <2>2 DEF RowsTypeOK
    <3> QED
      BY <1>1, <2>1, <2>2, <3>1
  <2>3. CASE i # opened'
    <3>1. status'[i] = status[i] /\ window'[i] = window[i] /\ conv'[i] = conv[i]
      BY <1>2, <2>3 DEF RowsTypeOK
    <3>2. i > opened <=> i > opened'
      BY <1>1, <2>1, <2>3
    <3> QED
      BY <1>1, <2>1, <3>1, <3>2 DEF RowsInOrder
  <2> QED
    BY <2>2, <2>3
<1> QED
  BY <1>1, <1>3, <1>4

\* openTurn keeps the rows typed and in shape.
LEMMA OpenTurnRows ==
    ASSUME RowsTypeOK, RowsInOrder, NEW c \in Conversations, NEW said \in Seq(Messages),
           OpenTurn(c, said)
    PROVE  /\ RowsTypeOK'
           /\ RowsInOrder'
           /\ opened' \in Nat /\ opened' >= opened
<1>1. CASE UNCHANGED <<investigationVars, streamVars>>
           /\ messages' = [messages EXCEPT ![c] = said]
  BY <1>1 DEF RowsTypeOK, RowsInOrder, investigationVars, streamVars
<1>2. CASE /\ Unassigned(said) # {}
           /\ NewInvestigation(c, HeadWindow(said))
           /\ messages' = [messages EXCEPT
                   ![c] = Assigned(said, QueuedBatch(said), opened + 1)]
  <2>1. HeadWindow(said) \in Windows
    BY <1>2, HeadWindowType
  <2>2. opened + 1 \in Investigations
    BY <1>2 DEF NewInvestigation, RowsTypeOK, Investigations
  <2>3. Assigned(said, QueuedBatch(said), opened + 1) \in Seq(Messages)
    BY <2>2, AssignedType
  <2>4. messages' \in [Conversations -> Seq(Messages)]
    BY <1>2, <2>3 DEF RowsTypeOK
  <2> QED
    BY <1>2, <2>1, <2>4, NewInvestigationRows
<1> QED
  BY <1>1, <1>2, OpenTurnCases

\* An ending keeps the rows typed and in shape.
LEMMA EndAllRows ==
    ASSUME RowsTypeOK, RowsInOrder, NEW S, NEW outcome \in Terminal, EndAll(S, outcome),
           \A i \in S : status[i] = "running",
           messages' \in [Conversations -> Seq(Messages)]
    PROVE  /\ RowsTypeOK'
           /\ RowsInOrder'
           /\ opened' \in Nat /\ opened' >= opened
<1>1. Event(outcome, 0) \in Events
  BY DEF Event, Events
<1>2. events' \in [Investigations -> Seq(Events)]
  BY <1>1 DEF EndAll, RowsTypeOK
<1>3. RowsTypeOK'
  BY <1>2 DEF EndAll, RowsTypeOK, Statuses
<1>4. \A i \in Investigations : status'[i] = "absent" <=> i > opened'
  BY DEF EndAll, RowsTypeOK, RowsInOrder, Terminal
<1>5. \A i \in Investigations : status'[i] # "absent" => window'[i] \in Windows
  BY DEF EndAll, RowsTypeOK, RowsInOrder, Terminal
<1> QED
  BY <1>3, <1>4, <1>5 DEF EndAll, RowsTypeOK, RowsInOrder

\* endInvestigation ends the claimed row and at most adds an assistant Message.
LEMMA EndInvestigationRows ==
    ASSUME TypeShape, NEW w \in Workers, NEW outcome \in Terminal, NEW reply \in BOOLEAN,
           pc[w] # "idle", EndInvestigation(w, outcome, reply)
    PROVE  /\ EndAll({job[w]}, outcome)
           /\ \A i \in {job[w]} : status[i] = "running"
           /\ messages' \in [Conversations -> Seq(Messages)]
<1>1. EndAll({job[w]}, outcome) /\ \A i \in {job[w]} : status[i] = "running"
  BY DEF EndInvestigation, Holds
<1>2. job[w] \in Investigations /\ window[job[w]] \in Windows
  BY <1>1 DEF TypeShape, TypeOK, RowsTypeOK, Shape, JobsExist, RowsInOrder, Investigations
<1>3. [role |-> "assistant", inv |-> job[w], window |-> window[job[w]]] \in Messages
  BY <1>2 DEF Messages
<1>4. conv[job[w]] \in Conversations \cup {None}
  BY <1>2 DEF TypeShape, TypeOK, RowsTypeOK
<1>5. messages' \in [Conversations -> Seq(Messages)]
  BY <1>3, <1>4 DEF EndInvestigation, TypeShape, TypeOK, RowsTypeOK
<1> QED
  BY <1>1, <1>5

-----------------------------------------------------------------------------
(* Type correctness. *)

LEMMA TypeShapeInit == Init => TypeShape
BY DEF Init, TypeShape, TypeOK, RowsTypeOK, ProcessTypeOK, Shape, RowsInOrder,
       JobsExist, BudgetKept, Investigations,
       Statuses, Steps, Messages, Events

LEMMA RowsShapeNext ==
    ASSUME TypeShape, [Next]_vars
    PROVE  RowsTypeOK' /\ RowsInOrder' /\ opened' \in Nat /\ opened' >= opened
<1> DEFINE Goal == RowsTypeOK' /\ RowsInOrder' /\ opened' \in Nat /\ opened' >= opened
<1> RowsTypeOK /\ ProcessTypeOK /\ RowsInOrder /\ JobsExist /\ BudgetKept
  BY DEF TypeShape, TypeOK, Shape
<1>0. ASSUME UNCHANGED <<opened, status, conv, window>>, RowsTypeOK' PROVE Goal
  BY <1>0 DEF RowsTypeOK, RowsInOrder
<1>1. CASE CreateInvestigation
  <2>1. PICK win \in Windows : NewInvestigation(None, win)
    BY <1>1 DEF CreateInvestigation
  <2>2. messages' \in [Conversations -> Seq(Messages)]
    BY <1>1 DEF CreateInvestigation, RowsTypeOK
  <2> QED
    BY <2>1, <2>2, NewInvestigationRows
<1>2. ASSUME NEW c \in Conversations, AppendMessageAndOpenTurn(c) PROVE Goal
  <2>1. PICK requested \in Windows \cup {None}, default \in Windows :
           OpenTurn(c, Append(messages[c],
                  [role |-> "user", inv |-> None,
                   window |-> AcceptedWindow(c, requested, default)]))
    BY <1>2 DEF AppendMessageAndOpenTurn
  <2>2. messages[c] \in Seq(Messages)
    BY DEF RowsTypeOK
  <2>3. AcceptedWindow(c, requested, default) \in Windows
    BY <2>2, HeadWindowType DEF AcceptedWindow
  <2>4. Append(messages[c], [role |-> "user", inv |-> None,
                   window |-> AcceptedWindow(c, requested, default)]) \in Seq(Messages)
    BY <2>2, <2>3 DEF Messages
  <2> QED
    BY <2>1, <2>4, OpenTurnRows
<1>3. CASE AdmitPick \/ AdmitRefused
  BY <1>0, <1>3 DEF AdmitPick, AdmitRefused, RowsTypeOK, investigationVars, streamVars
<1>4. CASE AdmitOpen
  <2>1. picked \in Conversations
    BY <1>4 DEF AdmitOpen, ProcessTypeOK
  <2>2. messages[picked] \in Seq(Messages)
    BY <2>1 DEF RowsTypeOK
  <2> QED
    BY <1>4, <2>1, <2>2, OpenTurnRows DEF AdmitOpen
<1>5. CASE RecoverStale
  <2>1. PICK S \in SUBSET Lapsed : EndAll(S, "failed")
    BY <1>5 DEF RecoverStale
  <2>2. \A i \in S : status[i] = "running"
    BY DEF Lapsed
  <2>3. messages' \in [Conversations -> Seq(Messages)]
    BY <1>5 DEF RecoverStale, RowsTypeOK
  <2> QED
    BY <2>1, <2>2, <2>3, EndAllRows DEF Terminal
<1>6. ASSUME NEW i \in Investigations, CancelInvestigation(i) PROVE Goal
  <2>1. EndAll({i}, "cancelled") /\ \A j \in {i} : status[j] = "running"
    BY <1>6 DEF CancelInvestigation
  <2>2. messages' \in [Conversations -> Seq(Messages)]
    BY <1>6 DEF CancelInvestigation, RowsTypeOK
  <2> QED
    BY <2>1, <2>2, EndAllRows DEF Terminal
<1>7. ASSUME NEW w \in Workers, WorkerStep(w) PROVE Goal
  <2>1. CASE ClaimInvestigation(w)
    <3>1. RowsTypeOK'
      BY <2>1 DEF ClaimInvestigation, Waiting, RowsTypeOK, streamVars
    <3> QED
      BY <1>0, <2>1, <3>1 DEF ClaimInvestigation
  <2>2. ASSUME NEW type \in Announced, NEW ordinal \in 0 .. MaxToolRuns,
               Announce(w, type, ordinal)
        PROVE  events' \in [Investigations -> Seq(Events)]
    <3>1. Event(type, ordinal) \in Events
      BY DEF Event, Events
    <3>2. CASE UNCHANGED events
      BY <3>2 DEF RowsTypeOK
    <3>3. CASE events' = [events EXCEPT ![job[w]] = Append(@, Event(type, ordinal))]
      <4>1. \A i \in Investigations : Append(events[i], Event(type, ordinal)) \in Seq(Events)
        BY <3>1 DEF RowsTypeOK
      <4> QED
        BY <3>3, <4>1 DEF RowsTypeOK
    <3> QED
      BY <2>2, <3>2, <3>3 DEF Announce
  <2>3. CASE AnnounceProgress(w)
    <3>1. events' \in [Investigations -> Seq(Events)]
      BY <2>2, <2>3 DEF AnnounceProgress, Announced
    <3> QED
      BY <1>0, <2>3, <3>1 DEF AnnounceProgress, RowsTypeOK, investigationVars
  <2>4. CASE StartTool(w)
    <3>1. made[w] + 1 \in 0 .. MaxToolRuns
      BY <2>4 DEF StartTool, ProcessTypeOK
    <3>2. events' \in [Investigations -> Seq(Events)]
      BY <2>2, <2>4, <3>1 DEF StartTool, Announced
    <3> QED
      BY <1>0, <2>4, <3>2 DEF StartTool, RowsTypeOK, investigationVars
  <2>5. CASE RecordToolRun(w)
    <3>1. made[w] + 1 \in 1 .. MaxToolRuns
      BY <2>5 DEF RecordToolRun, ProcessTypeOK, BudgetKept
    <3>2. runs' \in [Investigations -> SUBSET (1 .. MaxToolRuns)]
      BY <2>5, <3>1 DEF RecordToolRun, RowsTypeOK
    <3> QED
      BY <1>0, <2>5, <3>2 DEF RecordToolRun, RowsTypeOK, investigationVars
  <2>6. CASE CompleteTool(w)
    <3>1. made[w] \in 0 .. MaxToolRuns
      BY DEF ProcessTypeOK
    <3>2. events' \in [Investigations -> Seq(Events)]
      BY <2>2, <2>6, <3>1 DEF CompleteTool, Announced
    <3> QED
      BY <1>0, <2>6, <3>2 DEF CompleteTool, RowsTypeOK, investigationVars
  <2>70. ASSUME NEW outcome \in Terminal, NEW reply \in BOOLEAN, pc[w] # "idle",
                EndInvestigation(w, outcome, reply)
         PROVE  Goal
    <3>1. /\ EndAll({job[w]}, outcome)
          /\ \A i \in {job[w]} : status[i] = "running"
          /\ messages' \in [Conversations -> Seq(Messages)]
      BY <2>70, EndInvestigationRows
    <3> QED
      BY <3>1, EndAllRows
  <2>7. CASE Conclude(w)
    <3>1. PICK reply \in BOOLEAN : EndInvestigation(w, "concluded", reply)
      BY <2>7 DEF Conclude
    <3> QED
      BY <2>7, <3>1, <2>70 DEF Conclude, Terminal
  <2>8. CASE FailRun(w)
    BY <2>8, <2>70 DEF FailRun, Terminal
  <2>9. CASE FinishRun(w)
    <3>1. CASE UNCHANGED <<investigationVars, streamVars, messages>>
      BY <1>0, <3>1 DEF RowsTypeOK, investigationVars, streamVars
    <3>2. CASE conv[job[w]] # None /\ OpenTurn(conv[job[w]], messages[conv[job[w]]])
      <4>1. conv[job[w]] \in Conversations
        BY <2>9, <3>2 DEF FinishRun, RowsTypeOK, JobsExist, Investigations
      <4>2. messages[conv[job[w]]] \in Seq(Messages)
        BY <4>1 DEF RowsTypeOK
      <4> QED
        BY <3>2, <4>1, <4>2, OpenTurnRows
    <3> QED
      BY <2>9, <3>1, <3>2 DEF FinishRun
  <2>10. CASE EndRefused(w) \/ Crash(w) \/ SeeCancelled(w) \/ StopRun(w)
    BY <1>0, <2>10 DEF EndRefused, Crash, SeeCancelled, StopRun, RowsTypeOK,
                       investigationVars, streamVars
  <2>11. CASE Heartbeat(w)
    <3>2. ttl' \in [Investigations -> 0 .. LeaseFor]
      <4>1. LeaseFor \in 0 .. LeaseFor /\ ttl \in [Investigations -> 0 .. LeaseFor]
        BY DEF RowsTypeOK
      <4>2. CASE UNCHANGED ttl
        BY <4>1, <4>2
      <4>3. CASE ttl' = [ttl EXCEPT ![job[w]] = LeaseFor]
        BY <4>1, <4>3, Zenon
      <4> QED
        BY <2>11, <4>2, <4>3 DEF Heartbeat
    <3>1. RowsTypeOK'
      BY <2>11, <3>2 DEF Heartbeat, RowsTypeOK, streamVars
    <3> QED
      BY <1>0, <2>11, <3>1 DEF Heartbeat
  <2> QED
    BY <1>7, <2>1, <2>3, <2>4, <2>5, <2>6, <2>7, <2>8, <2>9, <2>10, <2>11 DEF WorkerStep
<1>8. CASE Tick
  <2>1. RowsTypeOK'
    BY <1>8 DEF Tick, RowsTypeOK, streamVars
  <2> QED
    BY <1>0, <1>8, <2>1 DEF Tick
<1>9. CASE UNCHANGED vars
  BY <1>0, <1>9 DEF vars, RowsTypeOK, investigationVars, streamVars
<1> QED
  BY <1>1, <1>2, <1>3, <1>4, <1>5, <1>6, <1>7, <1>8, <1>9 DEF Next

LEMMA WorkersShapeNext ==
    ASSUME TypeShape, [Next]_vars
    PROVE  ProcessTypeOK' /\ JobsExist' /\ BudgetKept'
<1> DEFINE Goal == ProcessTypeOK' /\ JobsExist' /\ BudgetKept'
<1> RowsTypeOK /\ ProcessTypeOK /\ RowsInOrder /\ JobsExist /\ BudgetKept
  BY DEF TypeShape, TypeOK, Shape
<1>0. 1 .. opened \subseteq 1 .. opened' /\ 1 .. opened \subseteq Investigations
  BY RowsShapeNext DEF RowsTypeOK, Investigations
<1>1. ASSUME UNCHANGED workerVars, picked' \in Conversations \cup {None}
      PROVE  Goal
  BY <1>0, <1>1 DEF ProcessTypeOK, JobsExist, BudgetKept, workerVars
<1>2. ASSUME NEW w \in Workers, Release(w), UNCHANGED picked PROVE Goal
  <2>1. ProcessTypeOK'
    BY <1>2 DEF Release, ProcessTypeOK, Steps
  <2>2. JobsExist'
    BY <1>0, <1>2 DEF JobsExist, Release, ProcessTypeOK
  <2>3. BudgetKept'
    BY <1>2 DEF BudgetKept, Release, ProcessTypeOK
  <2> QED
    BY <2>1, <2>2, <2>3
<1>3. ASSUME NEW w \in Workers, WorkerStep(w) PROVE Goal
  <2>1. CASE ClaimInvestigation(w)
    <3>1. PICK i \in Waiting : job' = [job EXCEPT ![w] = i]
      BY <2>1 DEF ClaimInvestigation
    <3>2. i \in 1 .. opened
      BY <3>1 DEF Waiting, RowsInOrder, RowsTypeOK, Investigations
    <3>3. ProcessTypeOK'
      BY <1>0, <2>1, <3>1, <3>2 DEF ClaimInvestigation, ProcessTypeOK, Steps, RowsTypeOK
    <3>4. JobsExist'
      BY <1>0, <2>1, <3>1, <3>2 DEF ClaimInvestigation, JobsExist, ProcessTypeOK
    <3>5. BudgetKept'
      BY <2>1 DEF ClaimInvestigation, BudgetKept, ProcessTypeOK
    <3> QED
      BY <3>3, <3>4, <3>5
  <2>2. CASE AnnounceProgress(w)
    BY <1>1, <2>2 DEF AnnounceProgress, ProcessTypeOK
  <2>3. ASSUME UNCHANGED <<job, claim, picked>>,
               made' \in [Workers -> 0 .. MaxToolRuns],
               stopped' \in [Workers -> BOOLEAN], failed' \in [Workers -> BOOLEAN],
               pc[w] # "idle",
               \A v \in Workers \ {w} : made'[v] = made[v],
               NEW step \in Steps, pc' = [pc EXCEPT ![w] = step],
               step = "executing" => made'[w] < MaxToolRuns
        PROVE  Goal
    <3>1. ProcessTypeOK'
      BY <2>3 DEF ProcessTypeOK
    <3>2. JobsExist'
      BY <1>0, <2>3 DEF JobsExist, ProcessTypeOK
    <3>3. BudgetKept'
      BY <2>3 DEF BudgetKept, ProcessTypeOK
    <3> QED
      BY <3>1, <3>2, <3>3
  <2>4. CASE StartTool(w)
    BY <2>3, <2>4 DEF StartTool, ProcessTypeOK, Steps
  <2>5. CASE CompleteTool(w)
    BY <2>3, <2>5 DEF CompleteTool, ProcessTypeOK, Steps
  <2>6. CASE EndRefused(w)
    BY <2>3, <2>6 DEF EndRefused, ProcessTypeOK, Steps
  <2>7. CASE RecordToolRun(w)
    <3>1. made[w] + 1 \in 0 .. MaxToolRuns
      BY <2>7 DEF RecordToolRun, BudgetKept, ProcessTypeOK
    <3>2. made' \in [Workers -> 0 .. MaxToolRuns] /\ \A v \in Workers \ {w} : made'[v] = made[v]
      BY <2>7, <3>1 DEF RecordToolRun, ProcessTypeOK
    <3> QED
      BY <2>3, <2>7, <3>2 DEF RecordToolRun, ProcessTypeOK, Steps
  <2>8. CASE Conclude(w)
    <3>1. failed' \in [Workers -> BOOLEAN]
      BY <2>8 DEF Conclude, ProcessTypeOK
    <3> QED
      BY <2>3, <2>8, <3>1 DEF Conclude, ProcessTypeOK, Steps
  <2>9. CASE FailRun(w)
    <3>1. failed' \in [Workers -> BOOLEAN]
      BY <2>9 DEF FailRun, ProcessTypeOK
    <3> QED
      BY <2>3, <2>9, <3>1 DEF FailRun, ProcessTypeOK, Steps
  <2>10. CASE FinishRun(w) \/ Crash(w)
    BY <1>2, <2>10 DEF FinishRun, Crash
  <2>11. CASE Heartbeat(w) \/ SeeCancelled(w) \/ StopRun(w)
    <3>1. stopped' \in [Workers -> BOOLEAN] /\ UNCHANGED <<pc, job, claim, made, failed, picked>>
      BY <2>11 DEF Heartbeat, SeeCancelled, StopRun, ProcessTypeOK
    <3> QED
      BY <1>0, <3>1 DEF ProcessTypeOK, JobsExist, BudgetKept
  <2> QED
    BY <1>3, <2>1, <2>2, <2>4, <2>5, <2>6, <2>7, <2>8, <2>9, <2>10, <2>11 DEF WorkerStep
<1>4. CASE AdmitPick \/ AdmitOpen \/ AdmitRefused
  BY <1>1, <1>4 DEF AdmitPick, AdmitOpen, AdmitRefused
<1>5. CASE CreateInvestigation \/ RecoverStale \/ Tick
  BY <1>1, <1>5 DEF CreateInvestigation, RecoverStale, Tick, ProcessTypeOK
<1>6. ASSUME NEW c \in Conversations, AppendMessageAndOpenTurn(c) PROVE Goal
  BY <1>1, <1>6 DEF AppendMessageAndOpenTurn, ProcessTypeOK
<1>7. ASSUME NEW i \in Investigations, CancelInvestigation(i) PROVE Goal
  BY <1>1, <1>7 DEF CancelInvestigation, ProcessTypeOK
<1>8. CASE UNCHANGED vars
  BY <1>1, <1>8 DEF vars, ProcessTypeOK
<1> QED
  BY <1>3, <1>4, <1>5, <1>6, <1>7, <1>8 DEF Next

LEMMA TypeShapeNext == TypeShape /\ [Next]_vars => TypeShape'
BY RowsShapeNext, WorkersShapeNext
   DEF TypeShape, TypeOK, Shape

\* Every reachable state is typed, with rows created in order and workers past
\* their claim on rows that exist: no write of a run, a sweep, a cancellation or
\* an opening leaves a column outside its domain.
THEOREM TypeCorrect == Spec => [](TypeOK /\ Shape)
<1>1. Init => TypeShape
  BY TypeShapeInit
<1>2. TypeShape /\ [Next]_vars => TypeShape'
  BY TypeShapeNext
<1> QED
  BY <1>1, <1>2, PTL DEF Spec, TypeShape

-----------------------------------------------------------------------------
(* The lifecycle each Investigation is promised. *)

\* The lease columns agree: only a running row has a token, only a token an expiry.
LeaseShape ==
    \A i \in Investigations :
        /\ ttl[i] > 0 => token[i] # 0
        /\ token[i] # 0 => status[i] = "running"

LifeInv == TypeShape /\ LeaseShape

LEMMA LeaseShapeNext ==
    ASSUME LifeInv, [Next]_vars PROVE LeaseShape'
<1> RowsTypeOK /\ ProcessTypeOK /\ RowsInOrder /\ JobsExist /\ LeaseShape
  BY DEF LifeInv, TypeShape, TypeOK, Shape
<1>0. ASSUME UNCHANGED <<status, token, ttl>> PROVE LeaseShape'
  BY <1>0 DEF LeaseShape
<1>1. ASSUME NEW c, NEW win, NewInvestigation(c, win) PROVE LeaseShape'
  BY <1>1 DEF NewInvestigation, LeaseShape, RowsTypeOK, RowsInOrder, Investigations
<1>2. ASSUME NEW c, NEW said, OpenTurn(c, said) PROVE LeaseShape'
  BY <1>0, <1>1, <1>2, OpenTurnCases DEF investigationVars
<1>3. ASSUME NEW S, NEW outcome, EndAll(S, outcome) PROVE LeaseShape'
  BY <1>3 DEF EndAll, LeaseShape
<1>4. ASSUME NEW w \in Workers, WorkerStep(w) PROVE LeaseShape'
  <2>1. CASE ClaimInvestigation(w)
    BY <2>1 DEF ClaimInvestigation, Waiting, LeaseShape, RowsTypeOK
  <2>2. CASE Conclude(w) \/ FailRun(w)
    BY <1>3, <2>2 DEF Conclude, FailRun, EndInvestigation
  <2>3. CASE FinishRun(w)
    BY <1>0, <1>2, <2>3 DEF FinishRun, investigationVars
  <2>4. CASE Heartbeat(w)
    BY <2>4 DEF Heartbeat, Holds, LeaseShape, RowsTypeOK
  <2>5. CASE \/ AnnounceProgress(w) \/ StartTool(w) \/ RecordToolRun(w) \/ CompleteTool(w)
             \/ EndRefused(w) \/ Crash(w) \/ SeeCancelled(w) \/ StopRun(w)
    BY <1>0, <2>5 DEF AnnounceProgress, StartTool, RecordToolRun, CompleteTool,
       EndRefused, Crash, SeeCancelled, StopRun, investigationVars
  <2> QED
    BY <1>4, <2>1, <2>2, <2>3, <2>4, <2>5 DEF WorkerStep
<1>5. CASE CreateInvestigation
  BY <1>1, <1>5 DEF CreateInvestigation
<1>6. ASSUME NEW c \in Conversations, AppendMessageAndOpenTurn(c) PROVE LeaseShape'
  BY <1>2, <1>6 DEF AppendMessageAndOpenTurn
<1>7. CASE AdmitPick \/ AdmitRefused
  BY <1>0, <1>7 DEF AdmitPick, AdmitRefused, investigationVars
<1>8. CASE AdmitOpen
  BY <1>2, <1>8 DEF AdmitOpen
<1>9. CASE RecoverStale
  BY <1>3, <1>9 DEF RecoverStale
<1>10. ASSUME NEW i \in Investigations, CancelInvestigation(i) PROVE LeaseShape'
  BY <1>3, <1>10 DEF CancelInvestigation
<1>11. CASE Tick
  BY <1>11 DEF Tick, LeaseShape, RowsTypeOK
<1>12. CASE UNCHANGED vars
  BY <1>0, <1>12 DEF vars, investigationVars
<1> QED
  BY <1>4, <1>5, <1>6, <1>7, <1>8, <1>9, <1>10, <1>11, <1>12 DEF Next

LEMMA LifeInvNext == LifeInv /\ [Next]_vars => LifeInv'
BY TypeShapeNext, LeaseShapeNext DEF LifeInv

LEMMA LifeInvInit == Init => LifeInv
<1>1. Init => LeaseShape
  BY DEF Init, LeaseShape
<1> QED
  BY <1>1, TypeShapeInit DEF LifeInv

\* A step of the system is a step of every lifecycle or changes none.
LEMMA LifecycleStep ==
    ASSUME LifeInv, [Next]_vars
    PROVE  [Lifecycle!LifecycleNext]_(Lifecycle!lifecycleVars)
<1> RowsTypeOK /\ ProcessTypeOK /\ RowsInOrder /\ JobsExist /\ BudgetKept /\ LeaseShape
  BY DEF LifeInv, TypeShape, TypeOK, Shape
<1> DEFINE Goal == [Lifecycle!LifecycleNext]_(Lifecycle!lifecycleVars)
<1>0. ASSUME UNCHANGED <<status, token, ttl, events, runs>> PROVE Goal
  BY <1>0 DEF Phase, Lifecycle!lifecycleVars
<1>1. ASSUME NEW c, NEW win, NewInvestigation(c, win) PROVE Goal
  <2>1. opened + 1 \in Investigations /\ status[opened + 1] = "absent"
    BY <1>1 DEF NewInvestigation, RowsTypeOK, RowsInOrder, Investigations
  <2>2. token[opened + 1] = 0
    BY <2>1 DEF LeaseShape
  <2>3. Phase[opened + 1] = "absent"
    BY <2>1 DEF Phase
  <2>4. Phase' = [Phase EXCEPT ![opened + 1] = "waiting"]
    BY <1>1, <2>1, <2>2 DEF NewInvestigation, Phase, RowsTypeOK
  <2>5. Lifecycle!Open(opened + 1)
    BY <1>1, <2>3, <2>4 DEF NewInvestigation, streamVars, Lifecycle!Open, Lifecycle!Move
  <2> QED
    BY <2>1, <2>5 DEF Lifecycle!LifecycleNext
<1>2. ASSUME NEW c, NEW said, OpenTurn(c, said) PROVE Goal
  BY <1>0, <1>1, <1>2, OpenTurnCases DEF investigationVars, streamVars
<1>3. ASSUME NEW S \in SUBSET Investigations, NEW outcome \in Terminal, EndAll(S, outcome),
             \A i \in S :
                \/ Phase[i] = "leased"
                \/ Phase[i] = "waiting" /\ outcome = "cancelled"
                \/ Phase[i] = "lapsed" /\ outcome \in {"failed", "cancelled"}
      PROVE  Goal
  <2>1. Phase' = [i \in Investigations |-> IF i \in S THEN outcome ELSE Phase[i]]
    BY <1>3 DEF EndAll, Phase, Terminal
  <2>2. Lifecycle!End(S, outcome)
    BY <1>3, <2>1 DEF EndAll, Lifecycle!End, Lifecycle!Closing, Event
  <2>3. outcome \in Lifecycle!Endings
    BY DEF Terminal, Lifecycle!Endings
  <2> QED
    BY <2>2, <2>3 DEF Lifecycle!LifecycleNext
<1>4. ASSUME NEW w \in Workers, Holds(w), pc[w] # "idle"
      PROVE  job[w] \in Investigations /\ Phase[job[w]] = "leased"
  <2>1. job[w] \in Investigations
    BY <1>4 DEF JobsExist, RowsTypeOK, Investigations
  <2> QED
    BY <1>4, <2>1 DEF Holds, Phase, LeaseShape
<1>5. ASSUME NEW w \in Workers, pc[w] # "idle", NEW type \in Announced,
             NEW ordinal \in 0 .. MaxToolRuns, Announce(w, type, ordinal),
             UNCHANGED <<status, token, ttl, runs>>
      PROVE  Goal
  <2>1. CASE UNCHANGED events
    BY <1>0, <1>5, <2>1
  <2>2. CASE Holds(w) /\ events' = [events EXCEPT ![job[w]] = Append(@, Event(type, ordinal))]
    <3>1. Event(type, ordinal) \in {e \in Events : e.type \in Announced}
      BY DEF Event, Events
    <3>2. Lifecycle!Report(job[w])
      BY <1>4, <1>5, <2>2, <3>1 DEF Lifecycle!Report, Phase
    <3> QED
      BY <1>4, <1>5, <2>2, <3>2 DEF Lifecycle!LifecycleNext
  <2> QED
    BY <1>5, <2>1, <2>2 DEF Announce
<1>6. ASSUME NEW w \in Workers, WorkerStep(w) PROVE Goal
  <2>1. CASE ClaimInvestigation(w)
    <3>1. PICK i \in Waiting : /\ token' = [token EXCEPT ![i] = issued + 1]
                              /\ ttl' = [ttl EXCEPT ![i] = LeaseFor]
      BY <2>1 DEF ClaimInvestigation
    <3>2. i \in Investigations /\ Phase[i] = "waiting"
      BY DEF Waiting, Phase
    <3>3. Phase' = [Phase EXCEPT ![i] = "leased"]
      <4>1. status[i] = "running" /\ status' = status
        BY <2>1, <3>1 DEF ClaimInvestigation, Waiting
      <4>2. token'[i] # 0 /\ ttl'[i] > 0
        BY <3>1, <3>2 DEF RowsTypeOK
      <4>3. \A j \in Investigations \ {i} : token'[j] = token[j] /\ ttl'[j] = ttl[j]
        BY <3>1 DEF RowsTypeOK
      <4> QED
        BY <3>2, <4>1, <4>2, <4>3 DEF Phase
    <3>4. Lifecycle!Lease(i)
      BY <2>1, <3>2, <3>3 DEF ClaimInvestigation, streamVars, Lifecycle!Lease, Lifecycle!Move
    <3> QED
      BY <3>2, <3>4 DEF Lifecycle!LifecycleNext
  <2>2. CASE AnnounceProgress(w)
    BY <1>5, <2>2 DEF AnnounceProgress, Announced, investigationVars
  <2>3. CASE StartTool(w)
    <3>1. made[w] + 1 \in 0 .. MaxToolRuns
      BY <2>3 DEF StartTool, ProcessTypeOK
    <3> QED
      BY <1>5, <2>3, <3>1 DEF StartTool, Announced, investigationVars
  <2>4. CASE CompleteTool(w)
    <3>1. made[w] \in 0 .. MaxToolRuns
      BY DEF ProcessTypeOK
    <3> QED
      BY <1>5, <2>4, <3>1 DEF CompleteTool, Announced, investigationVars
  <2>5. CASE RecordToolRun(w)
    <3>1. made[w] + 1 \in (1 .. MaxToolRuns) \ runs[job[w]]
      BY <2>5 DEF RecordToolRun, ProcessTypeOK, BudgetKept
    <3>2. job[w] \in Investigations /\ Phase[job[w]] = "leased"
      BY <1>4, <2>5 DEF RecordToolRun
    <3>3. Phase' = Phase
      BY <2>5 DEF RecordToolRun, investigationVars, Phase
    <3>4. Lifecycle!Record(job[w])
      BY <2>5, <3>1, <3>2, <3>3 DEF RecordToolRun, Lifecycle!Record
    <3> QED
      BY <3>2, <3>4 DEF Lifecycle!LifecycleNext
  <2>6. ASSUME NEW outcome \in Terminal, NEW reply, pc[w] # "idle",
               EndInvestigation(w, outcome, reply)
        PROVE  Goal
    <3>1. Holds(w) /\ EndAll({job[w]}, outcome)
      BY <2>6 DEF EndInvestigation
    <3>2. job[w] \in Investigations /\ Phase[job[w]] = "leased"
      BY <1>4, <2>6, <3>1
    <3> DEFINE S == {job[w]}
    <3>3. S \in SUBSET Investigations /\ \A i \in S : Phase[i] = "leased"
      BY <3>2
    <3>4. EndAll(S, outcome)
      BY <3>1
    <3> HIDE DEF S
    <3> QED
      BY <1>3, <3>3, <3>4
  <2>7. CASE Conclude(w)
    BY <2>6, <2>7 DEF Conclude, Terminal
  <2>8. CASE FailRun(w)
    BY <2>6, <2>8 DEF FailRun, Terminal
  <2>9. CASE FinishRun(w)
    BY <1>0, <1>2, <2>9 DEF FinishRun, investigationVars, streamVars
  <2>10. CASE EndRefused(w) \/ Crash(w) \/ SeeCancelled(w) \/ StopRun(w)
    BY <1>0, <2>10 DEF EndRefused, Crash, SeeCancelled, StopRun, investigationVars, streamVars
  <2>11. CASE Heartbeat(w)
    <3>1. Phase' = Phase
      <4>1. UNCHANGED <<status, token>>
        BY <2>11 DEF Heartbeat
      <4>2. \A i \in Investigations : ttl'[i] > 0 <=> ttl[i] > 0
        BY <2>11 DEF Heartbeat, Holds, RowsTypeOK
      <4> QED
        BY <4>1, <4>2 DEF Phase
    <3> QED
      BY <2>11, <3>1 DEF Heartbeat, streamVars, Lifecycle!lifecycleVars
  <2> QED
    BY <1>6, <2>1, <2>2, <2>3, <2>4, <2>5, <2>7, <2>8, <2>9, <2>10, <2>11 DEF WorkerStep
<1>7. CASE CreateInvestigation
  BY <1>1, <1>7 DEF CreateInvestigation
<1>8. ASSUME NEW c \in Conversations, AppendMessageAndOpenTurn(c) PROVE Goal
  BY <1>2, <1>8 DEF AppendMessageAndOpenTurn
<1>9. CASE AdmitPick \/ AdmitRefused
  BY <1>0, <1>9 DEF AdmitPick, AdmitRefused, investigationVars, streamVars
<1>10. CASE AdmitOpen
  BY <1>2, <1>10 DEF AdmitOpen
<1>11. CASE RecoverStale
  <2>1. PICK S \in SUBSET Lapsed : EndAll(S, "failed")
    BY <1>11 DEF RecoverStale
  <2>2. S \in SUBSET Investigations /\ \A i \in S : Phase[i] = "lapsed"
    BY DEF Lapsed, Phase
  <2> QED
    BY <1>3, <2>1, <2>2 DEF Terminal
<1>12. ASSUME NEW i \in Investigations, CancelInvestigation(i) PROVE Goal
  <2>1. EndAll({i}, "cancelled") /\ Phase[i] \in {"waiting", "leased", "lapsed"}
    BY <1>12 DEF CancelInvestigation, Phase
  <2> QED
    BY <1>3, <2>1 DEF Terminal
<1>13. CASE Tick
  <2> DEFINE S == {i \in Investigations : ttl[i] = 1}
  <2>1. \A i \in S : Phase[i] = "leased"
    BY DEF Phase, LeaseShape
  <2>2. Phase' = [i \in Investigations |-> IF i \in S THEN "lapsed" ELSE Phase[i]]
    <3>1. \A i \in Investigations : ttl'[i] = IF ttl[i] > 0 THEN ttl[i] - 1 ELSE 0
      BY <1>13 DEF Tick
    <3>2. \A i \in Investigations : ttl[i] \in Nat /\ (ttl'[i] > 0 <=> ttl[i] > 1)
      BY <3>1 DEF RowsTypeOK
    <3> QED
      BY <1>13, <3>2 DEF Tick, Phase, LeaseShape
  <2>3. Lifecycle!Lapse(S)
    BY <1>13, <2>1, <2>2 DEF Tick, streamVars, Lifecycle!Lapse
  <2> QED
    BY <2>3 DEF Lifecycle!LifecycleNext
<1>14. CASE UNCHANGED vars
  BY <1>0, <1>14 DEF vars, investigationVars, streamVars
<1> QED
  BY <1>6, <1>7, <1>8, <1>9, <1>10, <1>11, <1>12, <1>13, <1>14 DEF Next

\* The transactions of the store, the Runner's workers, its sweeper and its
\* admission loop, and the handlers implement the lifecycle that every
\* Investigation is promised: one lease, one ending, notes and evidence only under
\* the lease, a lapsed lease only failed or cancelled.
THEOREM LifecycleRefinement == Spec => ImplementsLifecycle
<1>1. Init => Lifecycle!LifecycleInit
  BY DEF Init, Lifecycle!LifecycleInit, Phase
<1>2. Init => LifeInv
  BY LifeInvInit
<1>3. LifeInv /\ [Next]_vars => LifeInv'
  BY LifeInvNext
<1>4. LifeInv /\ [Next]_vars => [Lifecycle!LifecycleNext]_(Lifecycle!lifecycleVars)
  BY LifecycleStep
<1> QED
  BY <1>1, <1>2, <1>3, <1>4, PTL DEF Spec, ImplementsLifecycle, Lifecycle!LifecycleSpec

-----------------------------------------------------------------------------
(* What the lifecycle means for a row and its stream. *)

\* A step, seen from one Investigation.
Untouched(i) == Phase'[i] = Phase[i] /\ events'[i] = events[i] /\ runs'[i] = runs[i]

LEMMA RowStep ==
    ASSUME LifeInv, [Next]_vars, NEW i \in Investigations
    PROVE  \/ Untouched(i)
           \/ /\ \/ Phase[i] = "absent" /\ Phase'[i] = "waiting"
                 \/ Phase[i] = "waiting" /\ Phase'[i] = "leased"
                 \/ Phase[i] = "leased" /\ Phase'[i] = "lapsed"
              /\ events'[i] = events[i]
              /\ runs'[i] = runs[i]
           \/ /\ Phase[i] = "leased"
              /\ Phase'[i] = "leased"
              /\ \/ events'[i] = events[i]
                 \/ \E e \in Events : /\ e.type \in Announced
                                     /\ events'[i] = Append(events[i], e)
           \/ /\ \/ Phase[i] = "leased" /\ Phase'[i] \in Terminal
                 \/ /\ Phase[i] \in {"waiting", "lapsed"}
                    /\ Phase'[i] \in {"failed", "cancelled"}
              /\ events'[i] = Append(events[i], Event(Phase'[i], 0))
              /\ runs'[i] = runs[i]
<1> events \in [Investigations -> Seq(Events)] /\ runs \in [Investigations -> SUBSET (1 .. MaxToolRuns)]
  BY DEF LifeInv, TypeShape, TypeOK, RowsTypeOK
<1> Phase = [j \in Investigations |-> Phase[j]]
  BY DEF Phase
<1>1. CASE UNCHANGED Lifecycle!lifecycleVars
  BY <1>1 DEF Lifecycle!lifecycleVars, Untouched
<1>2. ASSUME NEW j \in Investigations, Lifecycle!Open(j) \/ Lifecycle!Lease(j)
      PROVE  \/ Untouched(i)
             \/ /\ \/ Phase[i] = "absent" /\ Phase'[i] = "waiting"
                   \/ Phase[i] = "waiting" /\ Phase'[i] = "leased"
                /\ events'[i] = events[i]
                /\ runs'[i] = runs[i]
  BY <1>2 DEF Lifecycle!Open, Lifecycle!Lease, Lifecycle!Move, Untouched
<1>3. ASSUME NEW j \in Investigations, Lifecycle!Report(j)
      PROVE  \/ Untouched(i)
             \/ /\ Phase[i] = "leased" /\ Phase'[i] = "leased"
                /\ \E e \in Events : /\ e.type \in Announced
                                    /\ events'[i] = Append(events[i], e)
  BY <1>3 DEF Lifecycle!Report, Untouched
<1>4. ASSUME NEW j \in Investigations, Lifecycle!Record(j)
      PROVE  \/ Untouched(i)
             \/ Phase[i] = "leased" /\ Phase'[i] = "leased" /\ events'[i] = events[i]
  BY <1>4 DEF Lifecycle!Record, Untouched
<1>5. ASSUME NEW S \in SUBSET Investigations, Lifecycle!Lapse(S)
      PROVE  \/ Untouched(i)
             \/ /\ Phase[i] = "leased" /\ Phase'[i] = "lapsed"
                /\ events'[i] = events[i] /\ runs'[i] = runs[i]
  BY <1>5 DEF Lifecycle!Lapse, Untouched
<1>6. ASSUME NEW S \in SUBSET Investigations, NEW outcome \in Terminal,
             Lifecycle!End(S, outcome)
      PROVE  \/ Untouched(i)
             \/ /\ \/ Phase[i] = "leased" /\ Phase'[i] \in Terminal
                   \/ /\ Phase[i] \in {"waiting", "lapsed"}
                      /\ Phase'[i] \in {"failed", "cancelled"}
                /\ events'[i] = Append(events[i], Event(Phase'[i], 0))
                /\ runs'[i] = runs[i]
  BY <1>6 DEF Lifecycle!End, Lifecycle!Closing, Event, Untouched
<1> QED
  BY <1>1, <1>2, <1>3, <1>4, <1>5, <1>6, LifecycleStep
     DEF Lifecycle!LifecycleNext, Lifecycle!Endings, Terminal

LEMMA PhaseFacts ==
    ASSUME TypeShape
    PROVE  \A i \in Investigations :
              /\ status[i] \in Terminal <=> Phase[i] \in Terminal
              /\ Phase[i] \in Terminal => Phase[i] = status[i]
              /\ i \in Lapsed <=> Phase[i] = "lapsed"
<1> \A i \in Investigations : status[i] \in Statuses /\ ttl[i] \in Nat
  BY DEF TypeShape, TypeOK, RowsTypeOK
<1> QED
  BY DEF Phase, Lapsed, Statuses, Terminal

LEMMA StreamStep ==
    ASSUME LifeInv, [Next]_vars, StreamEndsOnce PROVE StreamEndsOnce'
<1>0. LifeInv' /\ TypeShape /\ TypeShape'
  BY LifeInvNext DEF LifeInv
<1> SUFFICES ASSUME NEW i \in Investigations
             PROVE  IF status'[i] \in Terminal
                    THEN /\ Ending(i)' = {Len(events'[i])}
                         /\ events'[i][Len(events'[i])].type = status'[i]
                    ELSE Ending(i)' = {}
  BY DEF StreamEndsOnce
<1>1. events[i] \in Seq(Events) /\ events'[i] \in Seq(Events)
  BY <1>0 DEF TypeShape, TypeOK, RowsTypeOK
<1>2. IF Phase[i] \in Terminal
      THEN Ending(i) = {Len(events[i])} /\ events[i][Len(events[i])].type = Phase[i]
      ELSE Ending(i) = {}
  BY <1>0, PhaseFacts DEF StreamEndsOnce
<1>3. /\ status'[i] \in Terminal <=> Phase'[i] \in Terminal
      /\ Phase'[i] \in Terminal => Phase'[i] = status'[i]
  <2>1. status'[i] \in Statuses /\ ttl'[i] \in Nat
    BY <1>0 DEF TypeShape, TypeOK, RowsTypeOK
  <2> QED
    BY <2>1 DEF Phase, Statuses, Terminal
<1>4. CASE /\ events'[i] = events[i]
           /\ \/ Phase'[i] = Phase[i]
              \/ (Phase'[i] \notin Terminal /\ Phase[i] \notin Terminal)
  BY <1>2, <1>3, <1>4 DEF Ending
<1>5. ASSUME NEW e \in Events, e.type \notin Terminal, events'[i] = Append(events[i], e),
             Phase[i] \notin Terminal, Phase'[i] \notin Terminal
      PROVE  Ending(i)' = {}
  BY <1>1, <1>2, <1>5 DEF Ending
<1>6. CASE /\ Phase[i] \notin Terminal /\ Phase'[i] \in Terminal
           /\ events'[i] = Append(events[i], Event(Phase'[i], 0))
  <2>1. Len(events'[i]) = Len(events[i]) + 1
    BY <1>1, <1>6
  <2>2. events'[i][Len(events'[i])] = Event(Phase'[i], 0)
    BY <1>1, <1>6, <2>1
  <2>3. events'[i][Len(events'[i])].type = Phase'[i]
    BY <2>2 DEF Event
  <2>4. \A k \in 1 .. Len(events[i]) : events'[i][k] = events[i][k] /\ events[i][k].type \notin Terminal
    BY <1>1, <1>2, <1>6 DEF Ending
  <2>5. Ending(i)' = {Len(events'[i])}
    BY <1>1, <1>6, <2>1, <2>3, <2>4 DEF Ending
  <2> QED
    BY <1>3, <1>6, <2>3, <2>5
<1>7. CASE Phase[i] = "leased" /\ Phase'[i] = "leased"
            /\ \E e \in Events : e.type \in Announced /\ events'[i] = Append(events[i], e)
  <2>1. PICK e \in Events : e.type \in Announced /\ events'[i] = Append(events[i], e)
    BY <1>7
  <2>2. e.type \notin Terminal /\ Phase[i] \notin Terminal /\ Phase'[i] \notin Terminal
    BY <1>7, <2>1 DEF Announced, Terminal
  <2> QED
    BY <1>3, <1>5, <2>1, <2>2
<1>8. \/ Untouched(i)
      \/ Phase[i] \notin Terminal /\ Phase'[i] \notin Terminal /\ events'[i] = events[i]
      \/ Phase[i] = "leased" /\ Phase'[i] = "leased"
            /\ \E e \in Events : e.type \in Announced /\ events'[i] = Append(events[i], e)
      \/ /\ Phase[i] \notin Terminal /\ Phase'[i] \in Terminal
         /\ events'[i] = Append(events[i], Event(Phase'[i], 0))
  <2> DEFINE noted == \E e \in Events : e.type \in Announced /\ events'[i] = Append(events[i], e)
  <2> HIDE DEF noted
  <2>1. {"absent", "waiting", "leased", "lapsed"} \cap Terminal = {}
        /\ {"failed", "cancelled"} \subseteq Terminal
    BY DEF Terminal
  <2>2. \/ Untouched(i)
        \/ /\ \/ Phase[i] = "absent" /\ Phase'[i] = "waiting"
              \/ Phase[i] = "waiting" /\ Phase'[i] = "leased"
              \/ Phase[i] = "leased" /\ Phase'[i] = "lapsed"
           /\ events'[i] = events[i]
        \/ /\ Phase[i] = "leased"
           /\ Phase'[i] = "leased"
           /\ events'[i] = events[i] \/ noted
        \/ /\ \/ Phase[i] = "leased" /\ Phase'[i] \in Terminal
              \/ /\ Phase[i] \in {"waiting", "lapsed"}
                 /\ Phase'[i] \in {"failed", "cancelled"}
           /\ events'[i] = Append(events[i], Event(Phase'[i], 0))
    BY RowStep, Zenon DEF noted
  <2> QED
    BY <2>1, <2>2 DEF noted
<1>9. Untouched(i) => events'[i] = events[i] /\ Phase'[i] = Phase[i]
  BY DEF Untouched
<1> QED
  BY <1>4, <1>6, <1>7, <1>8, <1>9

\* Whoever ends an Investigation (its run, the sweeper, a cancellation), its
\* stream closes exactly once, with the row's own outcome and nothing after it.
THEOREM StreamsEndOnce == Spec => []StreamEndsOnce
<1>1. Init => LifeInv /\ StreamEndsOnce
  <2>1. Init => StreamEndsOnce
    BY DEF Init, StreamEndsOnce, Ending, Terminal
  <2> QED
    BY <2>1, LifeInvInit
<1>2. LifeInv /\ StreamEndsOnce /\ [Next]_vars => LifeInv' /\ StreamEndsOnce'
  BY LifeInvNext, StreamStep
<1> QED
  BY <1>1, <1>2, PTL DEF Spec

\* A write prepared before an ending and executed after it (a late announcement,
\* tool run, conclusion, heartbeat or sweep) changes nothing of the row.
THEOREM TerminalStaysFinal == Spec => TerminalIsFinal
<1> DEFINE Final == \A i \in Investigations : status[i] \in Terminal =>
          /\ status'[i] = status[i]
          /\ token'[i] = 0
          /\ events'[i] = events[i]
          /\ runs'[i] = runs[i]
<1>1. ASSUME LifeInv, [Next]_vars PROVE Final
  <2> SUFFICES ASSUME NEW i \in Investigations, status[i] \in Terminal
               PROVE  /\ status'[i] = status[i]
                      /\ token'[i] = 0
                      /\ events'[i] = events[i]
                      /\ runs'[i] = runs[i]
    OBVIOUS
  <2>1. LifeInv'
    BY <1>1, LifeInvNext
  <2>2. Phase[i] = status[i] /\ Phase[i] \in Terminal
    BY <1>1, PhaseFacts DEF LifeInv
  <2>3. Untouched(i)
    BY <1>1, <2>2, RowStep DEF Terminal
  <2>4. status'[i] \in Statuses /\ Phase'[i] \in Terminal
    BY <2>1, <2>2, <2>3 DEF LifeInv, TypeShape, TypeOK, RowsTypeOK, Untouched
  <2>5. status'[i] = Phase'[i]
    BY <2>4 DEF Phase, Terminal
  <2>6. token'[i] = 0
    BY <2>1, <2>4, <2>5 DEF LifeInv, LeaseShape, Terminal
  <2> QED
    BY <2>2, <2>3, <2>5, <2>6 DEF Untouched
<1>2. LifeInv /\ [Next]_vars => [Final]_vars
  BY <1>1
<1>3. Init => LifeInv
  BY LifeInvInit
<1>4. LifeInv /\ [Next]_vars => LifeInv'
  BY LifeInvNext
<1> QED
  BY <1>2, <1>3, <1>4, PTL DEF Spec, TerminalIsFinal

-----------------------------------------------------------------------------
(* The stream announces what the database holds. *)

\* A worker that has recorded a tool run finds it in the database.
RunIsRecorded == \A w \in Workers : pc[w] = "recorded" => made[w] \in runs[job[w]]

\* A step adds tool runs, and announces the completion of a recorded one only.
LEMMA AnnouncementStep ==
    ASSUME LifeInv, RunIsRecorded, [Next]_vars
    PROVE  /\ \A i \in Investigations : runs[i] \subseteq runs'[i]
           /\ \A i \in Investigations :
                 \/ events'[i] = events[i]
                 \/ \E type \in Announced \cup Terminal, ordinal \in Nat :
                       /\ events'[i] = Append(events[i], Event(type, ordinal))
                       /\ type = "tool_completed" => ordinal \in runs'[i]
<1> DEFINE Goal == /\ \A i \in Investigations : runs[i] \subseteq runs'[i]
                   /\ \A i \in Investigations :
                         \/ events'[i] = events[i]
                         \/ \E type \in Announced \cup Terminal, ordinal \in Nat :
                               /\ events'[i] = Append(events[i], Event(type, ordinal))
                               /\ type = "tool_completed" => ordinal \in runs'[i]
<1> SUFFICES Goal
  OBVIOUS
<1> /\ RowsTypeOK /\ ProcessTypeOK /\ JobsExist
    /\ runs \in [Investigations -> SUBSET (1 .. MaxToolRuns)]
    /\ events \in [Investigations -> Seq(Events)]
  BY DEF LifeInv, TypeShape, TypeOK, Shape, RowsTypeOK
<1>0. ASSUME UNCHANGED streamVars PROVE Goal
  BY <1>0 DEF streamVars
<1>1. ASSUME NEW c, NEW win, NewInvestigation(c, win) PROVE Goal
  BY <1>0, <1>1 DEF NewInvestigation
<1>2. ASSUME NEW c, NEW said, OpenTurn(c, said) PROVE Goal
  BY <1>0, <1>1, <1>2, OpenTurnCases
<1>3. ASSUME NEW S, NEW outcome \in Terminal, EndAll(S, outcome) PROVE Goal
  <2>1. outcome # "tool_completed"
    BY DEF Terminal
  <2>2. /\ UNCHANGED runs
        /\ events' = [i \in Investigations |-> IF i \in S THEN Append(events[i], Event(outcome, 0))
                                                          ELSE events[i]]
    BY <1>3 DEF EndAll
  <2> QED
    BY <2>1, <2>2
<1>4. ASSUME NEW w \in Workers, NEW type \in Announced, NEW ordinal \in Nat, UNCHANGED runs,
             Announce(w, type, ordinal),
             type = "tool_completed" => job[w] \in Investigations /\ ordinal \in runs[job[w]]
      PROVE  Goal
  <2>1. CASE UNCHANGED events
    BY <1>0, <1>4, <2>1 DEF streamVars
  <2>2. CASE events' = [events EXCEPT ![job[w]] = Append(@, Event(type, ordinal))]
    BY <1>4, <2>2
  <2> QED
    BY <1>4, <2>1, <2>2 DEF Announce
<1>5. ASSUME NEW w \in Workers, WorkerStep(w) PROVE Goal
  <2>0. made[w] \in Nat /\ made[w] + 1 \in Nat
    BY DEF ProcessTypeOK
  <2>1. CASE AnnounceProgress(w)
    BY <1>4, <2>1 DEF AnnounceProgress, Announced
  <2>2. CASE StartTool(w)
    BY <1>4, <2>0, <2>2 DEF StartTool, Announced
  <2>3. CASE CompleteTool(w)
    <3>1. job[w] \in Investigations /\ made[w] \in runs[job[w]]
      BY <2>3, SMTT(40) DEF CompleteTool, RunIsRecorded, JobsExist, RowsTypeOK, Investigations
    <3> QED
      BY <1>4, <2>0, <2>3, <3>1 DEF CompleteTool, Announced
  <2>4. CASE RecordToolRun(w)
    BY <2>4 DEF RecordToolRun
  <2>5. CASE Conclude(w) \/ FailRun(w)
    BY <1>3, <2>5 DEF Conclude, FailRun, EndInvestigation, Terminal
  <2>6. CASE FinishRun(w)
    BY <1>0, <1>2, <2>6 DEF FinishRun
  <2>7. CASE \/ ClaimInvestigation(w) \/ EndRefused(w) \/ Crash(w) \/ Heartbeat(w)
             \/ SeeCancelled(w) \/ StopRun(w)
    BY <1>0, <2>7 DEF ClaimInvestigation, EndRefused, Crash, Heartbeat, SeeCancelled, StopRun
  <2> QED
    BY <1>5, <2>1, <2>2, <2>3, <2>4, <2>5, <2>6, <2>7 DEF WorkerStep
<1>6. CASE CreateInvestigation
  BY <1>1, <1>6 DEF CreateInvestigation
<1>7. ASSUME NEW c \in Conversations, AppendMessageAndOpenTurn(c) PROVE Goal
  BY <1>2, <1>7 DEF AppendMessageAndOpenTurn
<1>8. CASE AdmitPick \/ AdmitRefused \/ Tick
  BY <1>0, <1>8 DEF AdmitPick, AdmitRefused, Tick
<1>9. CASE AdmitOpen
  BY <1>2, <1>9 DEF AdmitOpen
<1>10. CASE RecoverStale
  BY <1>3, <1>10 DEF RecoverStale, Terminal
<1>11. ASSUME NEW i \in Investigations, CancelInvestigation(i) PROVE Goal
  BY <1>3, <1>11 DEF CancelInvestigation, Terminal
<1>12. CASE UNCHANGED vars
  BY <1>0, <1>12 DEF vars
<1> HIDE DEF Goal
<1> QED
  BY <1>5, <1>6, <1>7, <1>8, <1>9, <1>10, <1>11, <1>12 DEF Next

LEMMA RecordedNext ==
    ASSUME LifeInv, RunIsRecorded, CompletionsAreRecorded, [Next]_vars
    PROVE  RunIsRecorded' /\ CompletionsAreRecorded'
<1> /\ RowsTypeOK /\ ProcessTypeOK /\ JobsExist
    /\ runs \in [Investigations -> SUBSET (1 .. MaxToolRuns)]
    /\ events \in [Investigations -> Seq(Events)]
  BY DEF LifeInv, TypeShape, TypeOK, Shape, RowsTypeOK
<1>1. CompletionsAreRecorded'
  <2> SUFFICES ASSUME NEW i \in Investigations, NEW k \in DOMAIN events'[i],
                      events'[i][k].type = "tool_completed"
               PROVE  events'[i][k].ordinal \in runs'[i]
    BY DEF CompletionsAreRecorded
  <2>1. runs[i] \subseteq runs'[i] /\ events[i] \in Seq(Events)
    BY AnnouncementStep
  <2>2. CASE events'[i] = events[i]
    BY <2>1, <2>2 DEF CompletionsAreRecorded
  <2>3. CASE events'[i] # events[i]
    <3>1. PICK type \in Announced \cup Terminal, ordinal \in Nat :
             /\ events'[i] = Append(events[i], Event(type, ordinal))
             /\ type = "tool_completed" => ordinal \in runs'[i]
      BY <2>3, AnnouncementStep
    <3>2. CASE k = Len(events[i]) + 1
      <4>1. events'[i][k] = Event(type, ordinal)
        BY <2>1, <3>1, <3>2
      <4> QED
        BY <3>1, <4>1 DEF Event
    <3>3. CASE k # Len(events[i]) + 1
      <4>1. k \in DOMAIN events[i] /\ events'[i][k] = events[i][k]
        BY <2>1, <3>1, <3>3
      <4> QED
        BY <2>1, <4>1 DEF CompletionsAreRecorded
    <3> QED
      BY <3>2, <3>3
  <2> QED
    BY <2>2, <2>3
<1>2. RunIsRecorded'
  <2>1. \A i \in Investigations : runs[i] \subseteq runs'[i]
    BY AnnouncementStep
  <2>2. \A w \in Workers : pc[w] # "idle" => job[w] \in Investigations
    BY DEF JobsExist, RowsTypeOK, Investigations
  <2>3. ASSUME UNCHANGED <<pc, job, made>> PROVE RunIsRecorded'
    BY <2>1, <2>2, <2>3 DEF RunIsRecorded
  <2>4. ASSUME NEW w \in Workers, WorkerStep(w) PROVE RunIsRecorded'
    <3>1. \A v \in Workers \ {w} : pc'[v] = pc[v] /\ job'[v] = job[v] /\ made'[v] = made[v]
      BY <2>4 DEF WorkerStep, ClaimInvestigation, AnnounceProgress, StartTool, RecordToolRun,
         CompleteTool, Conclude, FailRun, EndRefused, FinishRun, Crash, Release, Heartbeat,
         SeeCancelled, StopRun, workerVars, ProcessTypeOK
    <3>2. pc'[w] = "recorded" => made'[w] \in runs'[job'[w]]
      <4>1. CASE RecordToolRun(w)
        BY <2>2, <4>1 DEF RecordToolRun, ProcessTypeOK
      <4>2. CASE AnnounceProgress(w) \/ Heartbeat(w) \/ SeeCancelled(w) \/ StopRun(w)
        BY <2>3, <4>2 DEF AnnounceProgress, Heartbeat, SeeCancelled, StopRun, workerVars, RunIsRecorded
      <4>3. CASE \/ ClaimInvestigation(w) \/ StartTool(w) \/ CompleteTool(w) \/ Conclude(w)
                 \/ FailRun(w) \/ EndRefused(w) \/ FinishRun(w) \/ Crash(w)
        BY <4>3 DEF ClaimInvestigation, StartTool, CompleteTool, Conclude, FailRun, EndRefused,
           FinishRun, Crash, Release, ProcessTypeOK
      <4> QED
        BY <2>4, <4>1, <4>2, <4>3 DEF WorkerStep
    <3> QED
      BY <2>1, <2>2, <3>1, <3>2 DEF RunIsRecorded
  <2> QED
    BY <2>3, <2>4 DEF Next, CreateInvestigation, AppendMessageAndOpenTurn, AdmitPick, AdmitOpen,
       AdmitRefused, RecoverStale, CancelInvestigation, Tick, vars, workerVars
<1> QED
  BY <1>1, <1>2
-----------------------------------------------------------------------------
(* A Conversation is a dialogue, and openings stay within the limit. *)

\* What waits for a turn is about one window: a queued Message fixes it.
OneWindow(said) == \A j, k \in Unassigned(said) : said[j].window = said[k].window

\* A Message is in a turn of its own Conversation.
TurnsAreKnown ==
    \A c \in Conversations : \A k \in DOMAIN messages[c] :
        messages[c][k].inv # None =>
            messages[c][k].inv \in 1 .. opened /\ conv[messages[c][k].inv] = c

DialogueInv ==
    /\ OneTurnAtATime /\ TurnsHaveMessages /\ RepliesFollowTheirTurn
    /\ TurnsAreKnown /\ \A c \in Conversations : OneWindow(messages[c])

\* The Messages of a Conversation as a transaction that may open a turn sees them:
\* as they are, or with one more that waits.
SaidIn(c, said) ==
    \/ said = messages[c]
    \/ \E m \in Messages :
          /\ said = Append(messages[c], m) /\ m.role = "user" /\ m.inv = None
          /\ Unassigned(messages[c]) # {} => m.window = HeadWindow(messages[c])

\* A turn is opened, or a Message only queued, under the Organization's lock.
Admits(c) == Reserve(1) /\ \E said : SaidIn(c, said) /\ OpenTurn(c, said)

Asks == Reserve(1) /\ UNCHANGED messages /\ \E win \in Windows : NewInvestigation(None, win)

Ends ==
    /\ UNCHANGED messages
    /\ \E S \in SUBSET Investigations, outcome \in Terminal :
          EndAll(S, outcome) /\ \A i \in S : status[i] = "running"

Answers(i) ==
    /\ status[i] = "running" /\ conv[i] # None /\ EndAll({i}, "concluded")
    /\ messages' = [messages EXCEPT ![conv[i]] =
           Append(@, [role |-> "assistant", inv |-> i, window |-> window[i]])]

Quiet == UNCHANGED <<opened, status, conv, window, messages>> /\ Waiting' \subseteq Waiting

\* Every step is one of these.
LEMMA DialogueStep ==
    ASSUME LifeInv, [Next]_vars
    PROVE  \/ \E c \in Conversations : Admits(c)
           \/ Asks \/ Ends \/ Quiet
           \/ \E i \in Investigations : Answers(i)
<1> /\ RowsTypeOK /\ ProcessTypeOK /\ JobsExist /\ RowsInOrder
  BY DEF LifeInv, TypeShape, TypeOK, Shape
<1> DEFINE Goal == \/ \E c \in Conversations : Admits(c)
                   \/ Asks \/ Ends \/ Quiet
                   \/ \E i \in Investigations : Answers(i)
<1> SUFFICES Goal
  OBVIOUS
<1>0. ASSUME UNCHANGED <<opened, status, conv, window, messages, token>> PROVE Goal
  BY <1>0 DEF Quiet, Waiting
<1>1. ASSUME NEW w \in Workers, WorkerStep(w) PROVE Goal
  <2>1. CASE ClaimInvestigation(w)
    <3>1. Waiting' \subseteq Waiting
      BY <2>1 DEF ClaimInvestigation, Waiting, RowsTypeOK
    <3> QED
      BY <2>1, <3>1 DEF ClaimInvestigation, Quiet
  <2>2. CASE Conclude(w) \/ FailRun(w)
    <3>1. PICK outcome \in {"concluded", "failed"}, reply \in BOOLEAN : EndInvestigation(w, outcome, reply)
      BY <2>2 DEF Conclude, FailRun
    <3>2. PICK i \in Investigations : i = job[w] /\ status[i] = "running"
      BY <2>2, <3>1 DEF EndInvestigation, Holds, ProcessTypeOK
    <3>3. EndAll({i}, outcome)
      BY <3>1, <3>2 DEF EndInvestigation
    <3>4. CASE conv[i] # None /\ outcome = "concluded" /\ reply
      BY <3>1, <3>2, <3>3, <3>4 DEF EndInvestigation, Answers
    <3>5. CASE ~(conv[i] # None /\ outcome = "concluded" /\ reply)
      BY <3>1, <3>2, <3>3, <3>5 DEF EndInvestigation, Ends, Terminal
    <3> QED
      BY <3>4, <3>5
  <2>3. CASE FinishRun(w)
    <3>1. job[w] \in Investigations /\ conv[job[w]] \in Conversations \cup {None}
      BY <2>3 DEF FinishRun, JobsExist, RowsTypeOK, Investigations
    <3> QED
      BY <1>0, <2>3, <3>1 DEF FinishRun, Admits, SaidIn, investigationVars
  <2>4. CASE \/ AnnounceProgress(w) \/ StartTool(w) \/ RecordToolRun(w) \/ CompleteTool(w)
             \/ EndRefused(w) \/ Crash(w) \/ SeeCancelled(w) \/ StopRun(w) \/ Heartbeat(w)
    BY <1>0, <2>4 DEF AnnounceProgress, StartTool, RecordToolRun, CompleteTool,
       EndRefused, Crash, SeeCancelled, StopRun, Heartbeat, investigationVars
  <2> QED
    BY <1>1, <2>1, <2>2, <2>3, <2>4 DEF WorkerStep
<1>2. CASE CreateInvestigation
  BY <1>2 DEF CreateInvestigation, Asks
<1>3. ASSUME NEW c \in Conversations, AppendMessageAndOpenTurn(c) PROVE Goal
  <2>1. PICK requested \in Windows \cup {None}, default \in Windows :
           /\ Reserve(1)
           /\ OpenTurn(c, Append(messages[c], [role |-> "user", inv |-> None,
                                               window |-> AcceptedWindow(c, requested, default)]))
    BY <1>3 DEF AppendMessageAndOpenTurn
  <2>2. /\ AcceptedWindow(c, requested, default) \in Windows
        /\ Unassigned(messages[c]) # {} => AcceptedWindow(c, requested, default) = HeadWindow(messages[c])
    BY HeadWindowType DEF AcceptedWindow, RowsTypeOK
  <2>3. [role |-> "user", inv |-> None, window |-> AcceptedWindow(c, requested, default)] \in Messages
    BY <2>2 DEF Messages
  <2> DEFINE m == [role |-> "user", inv |-> None, window |-> AcceptedWindow(c, requested, default)]
  <2>5. m.role = "user" /\ m.inv = None /\ m.window = AcceptedWindow(c, requested, default)
    OBVIOUS
  <2>6. OpenTurn(c, Append(messages[c], m))
    BY <2>1
  <2> HIDE DEF m
  <2>4. SaidIn(c, Append(messages[c], m))
    <3>1. m \in Messages
      BY <2>3 DEF m
    <3> QED
      BY <2>2, <2>5, <3>1 DEF SaidIn
  <2> QED
    BY <2>1, <2>4, <2>6 DEF Admits
<1>4. CASE AdmitPick \/ AdmitRefused \/ Tick
  BY <1>0, <1>4 DEF AdmitPick, AdmitRefused, Tick, investigationVars
<1>5. CASE AdmitOpen
  BY <1>5 DEF AdmitOpen, Admits, SaidIn, ProcessTypeOK
<1>6. CASE RecoverStale
  BY <1>6 DEF RecoverStale, Ends, Lapsed, Terminal
<1>7. ASSUME NEW i \in Investigations, CancelInvestigation(i) PROVE Goal
  BY <1>7 DEF CancelInvestigation, Ends, Terminal
<1>8. CASE UNCHANGED vars
  BY <1>0, <1>8 DEF vars, investigationVars
<1> HIDE DEF Goal
<1> QED
  BY <1>1, <1>2, <1>3, <1>4, <1>5, <1>6, <1>7, <1>8 DEF Next

\* The limit on waiting Investigations.
LEMMA WaitingNext ==
    ASSUME LifeInv, WaitingWithinLimit, [Next]_vars PROVE WaitingWithinLimit'
<1> /\ RowsTypeOK /\ RowsInOrder
  BY DEF LifeInv, TypeShape, TypeOK, Shape
<1> SUFFICES ASSUME MaxPending > 0 PROVE Cardinality(Waiting') <= MaxPending
  BY DEF WaitingWithinLimit
<1>1. IsFiniteSet(Waiting) /\ Cardinality(Waiting) \in Nat /\ Cardinality(Waiting) <= MaxPending
  <2>1. IsFiniteSet(Investigations) /\ Waiting \in SUBSET Investigations
    BY FS_Interval DEF Investigations, Waiting
  <2>2. IsFiniteSet(Waiting)
    BY <2>1, FS_Subset
  <2> QED
    BY <2>2, FS_CardinalityType DEF WaitingWithinLimit
<1>2. ASSUME Waiting' \in SUBSET Waiting PROVE Cardinality(Waiting') <= MaxPending
  <2>1. Cardinality(Waiting') <= Cardinality(Waiting) /\ IsFiniteSet(Waiting')
    BY <1>1, <1>2, FS_Subset
  <2>2. Cardinality(Waiting') \in Nat
    BY <2>1, FS_CardinalityType
  <2> QED
    BY <1>1, <2>1, <2>2
<1>3. ASSUME Reserve(1), NEW c, NEW win, NewInvestigation(c, win) PROVE Cardinality(Waiting') <= MaxPending
  <2>1. Waiting' \in SUBSET (Waiting \cup {opened + 1})
    BY <1>3 DEF NewInvestigation, Waiting, RowsTypeOK
  <2>0. /\ IsFiniteSet(Waiting \cup {opened + 1})
        /\ Cardinality(Waiting \cup {opened + 1}) =
              IF opened + 1 \in Waiting THEN Cardinality(Waiting) ELSE Cardinality(Waiting) + 1
    BY <1>1, FS_AddElement, Zenon
  <2>2. IsFiniteSet(Waiting \cup {opened + 1})
        /\ Cardinality(Waiting \cup {opened + 1}) <= Cardinality(Waiting) + 1
    BY <1>1, <2>0
  <2>3. Cardinality(Waiting') <= Cardinality(Waiting \cup {opened + 1}) /\ IsFiniteSet(Waiting')
    BY <2>1, <2>2, FS_Subset
  <2>4. Cardinality(Waiting') \in Nat /\ Cardinality(Waiting \cup {opened + 1}) \in Nat
    BY <2>2, <2>3, FS_CardinalityType
  <2> QED
    BY <1>1, <1>3, <2>2, <2>3, <2>4 DEF Reserve
<1>4. ASSUME NEW c \in Conversations, Admits(c) PROVE Cardinality(Waiting') <= MaxPending
  <2>1. PICK said : OpenTurn(c, said) /\ Reserve(1)
    BY <1>4 DEF Admits
  <2>2. CASE UNCHANGED investigationVars
    BY <1>2, <2>2 DEF investigationVars, Waiting
  <2> QED
    BY <1>3, <2>1, <2>2, OpenTurnCases
<1>5. ASSUME NEW S, NEW outcome \in Terminal, EndAll(S, outcome) PROVE Cardinality(Waiting') <= MaxPending
  <2>1. outcome # "running"
    BY DEF Terminal
  <2>2. Waiting' \in SUBSET Waiting
    BY <1>5, <2>1 DEF EndAll, Waiting
  <2> QED
    BY <1>2, <2>2
<1>6. CASE Asks
  BY <1>3, <1>6 DEF Asks
<1>7. CASE Ends \/ \E i \in Investigations : Answers(i)
  BY <1>5, <1>7 DEF Ends, Answers, Terminal
<1>8. CASE Quiet
  BY <1>2, <1>8 DEF Quiet
<1> QED
  BY <1>4, <1>6, <1>7, <1>8, DialogueStep

\* Investigations are consistent for every number of workers, every limit and every
\* lease: rows and processes are well formed, openings stay within the waiting limit
\* (reserveWaitingInvestigations) and every announced completion is of a recorded tool
\* run (RecordToolRun before announce), whatever crashes, lapses or is lost.
THEOREM InvestigationsAreConsistent == Spec => []Consistent
<1> DEFINE Inv == LifeInv /\ RunIsRecorded /\ CompletionsAreRecorded /\ WaitingWithinLimit
<1>1. Init => Inv
  <2> SUFFICES ASSUME Init PROVE Inv
    OBVIOUS
  <2>1. RunIsRecorded /\ CompletionsAreRecorded
    BY DEF Init, RunIsRecorded, CompletionsAreRecorded
  <2>2. Waiting = {}
    BY DEF Init, Waiting
  <2>3. WaitingWithinLimit
    BY <2>2, FS_EmptySet DEF WaitingWithinLimit
  <2> QED
    BY <2>1, <2>3, LifeInvInit
<1>2. Inv /\ [Next]_vars => Inv'
  BY LifeInvNext, RecordedNext, WaitingNext
<1>3. Inv => Consistent
  BY DEF LifeInv, TypeShape, Consistent
<1> QED
  BY <1>1, <1>2, <1>3, PTL DEF Spec
-----------------------------------------------------------------------------
(* A Conversation reads as a dialogue. *)

\* The Messages of a Conversation after a step that opened turn i, or none (None):
\* nothing is lost, and only Messages that waited are taken.
Grown(old, new, i) ==
    /\ DOMAIN old \subseteq DOMAIN new
    /\ \A k \in DOMAIN old :
          /\ new[k].role = old[k].role /\ new[k].window = old[k].window
          /\ new[k].inv = old[k].inv \/ (old[k].inv = None /\ new[k].inv = i)
    /\ \A k \in DOMAIN new \ DOMAIN old : new[k].role = "user" /\ new[k].inv \in {None, i}

\* Turn i has a user Message, and only Messages of its window.
Takes(new, i, win) ==
    /\ \E k \in DOMAIN new : new[k].inv = i /\ new[k].role = "user"
    /\ \A k \in DOMAIN new : new[k].inv = i => new[k].window = win

\* A Message that is appended waits behind those of its window.
LEMMA SaidFacts ==
    ASSUME RowsTypeOK, NEW c \in Conversations, OneWindow(messages[c]), NEW said, SaidIn(c, said)
    PROVE  said \in Seq(Messages) /\ Grown(messages[c], said, None) /\ OneWindow(said)
<1> DEFINE old == messages[c]
<1>0. old \in Seq(Messages)
  BY DEF RowsTypeOK
<1>1. CASE said = old
  BY <1>0, <1>1 DEF Grown
<1>2. CASE said # old
  <2>1. PICK m \in Messages :
           /\ said = Append(old, m) /\ m.role = "user" /\ m.inv = None
           /\ Unassigned(old) # {} => m.window = HeadWindow(old)
    BY <1>2 DEF SaidIn
  <2>2. /\ said \in Seq(Messages) /\ DOMAIN said = DOMAIN old \cup {Len(old) + 1}
        /\ said[Len(old) + 1] = m /\ \A k \in DOMAIN old : said[k] = old[k]
    BY <1>0, <2>1
  <2>3. Grown(old, said, None)
    BY <2>1, <2>2 DEF Grown
  <2>4. OneWindow(said)
    <3>1. \A k \in Unassigned(said) : k \in Unassigned(old) \/ said[k] = m
      BY <2>2 DEF Unassigned
    <3>2. \A k \in Unassigned(old) : said[k].window = m.window
      <4> SUFFICES ASSUME NEW k \in Unassigned(old) PROVE said[k].window = m.window
        OBVIOUS
      <4>1. PICK n \in Unassigned(old) : HeadWindow(old) = old[n].window
        BY <1>0, HeadIsFirst
      <4>2. old[k].window = old[n].window
        BY DEF OneWindow
      <4>3. said[k] = old[k]
        BY <2>2 DEF Unassigned
      <4> QED
        BY <2>1, <4>1, <4>2, <4>3
    <3> QED
      BY <3>1, <3>2 DEF OneWindow
  <2> QED
    BY <2>2, <2>3, <2>4
<1> QED
  BY <1>1, <1>2

\* The oldest Message that waits is in the batch.
LEMMA BatchIsTaken ==
    ASSUME NEW said \in Seq(Messages), Unassigned(said) # {}
    PROVE  QueuedBatch(said) # {} /\ QueuedBatch(said) \subseteq Unassigned(said)
<1>1. PICK k \in Unassigned(said) : \A j \in Unassigned(said) : k <= j
  BY HeadIsFirst
<1>2. Unassigned(said) \subseteq Nat
  BY DEF Unassigned
<1>3. {j \in Unassigned(said) : j <= k} = {k}
  BY <1>1, <1>2
<1>4. Cardinality({j \in Unassigned(said) : j <= k}) = 1
  BY <1>3, FS_Singleton
<1>5. k \in QueuedBatch(said)
  BY <1>4 DEF QueuedBatch
<1> QED
  BY <1>5 DEF QueuedBatch

\* openTurn gives a new turn Messages of its window only.
LEMMA AssignedFacts ==
    ASSUME NEW said \in Seq(Messages), OneWindow(said), Unassigned(said) # {},
           NEW i \in Investigations, \A k \in DOMAIN said : said[k].inv # i
    PROVE  LET new == Assigned(said, QueuedBatch(said), i)
           IN  /\ new \in Seq(Messages) /\ Grown(said, new, i)
               /\ OneWindow(new) /\ Takes(new, i, HeadWindow(said))
<1> DEFINE batch == QueuedBatch(said)
           new == Assigned(said, batch, i)
<1>1. batch # {} /\ batch \subseteq Unassigned(said)
  BY BatchIsTaken
<1>2. new \in Seq(Messages) /\ DOMAIN new = DOMAIN said
  BY AssignedType
<1>3. \A k \in DOMAIN said : said[k] \in Messages
  OBVIOUS
<1>4. \A k \in batch : /\ new[k].role = "user" /\ new[k].inv = i /\ k \in DOMAIN said
                       /\ new[k].window = said[k].window /\ said[k].role = "user"
                       /\ said[k].inv = None
  BY <1>1, <1>3 DEF Assigned, Unassigned, Messages
<1>5. \A k \in DOMAIN said \ batch : new[k] = said[k]
  BY DEF Assigned
<1>6. i # None
  BY DEF Investigations
<1> HIDE DEF new, batch
<1>7. Grown(said, new, i)
  BY <1>2, <1>4, <1>5 DEF Grown
<1>8. Unassigned(new) \subseteq Unassigned(said) \ batch
  BY <1>2, <1>4, <1>5, <1>6 DEF Unassigned
<1>9. OneWindow(new)
  BY <1>5, <1>8 DEF OneWindow, Unassigned
<1>10. \A k \in batch : said[k].window = HeadWindow(said)
  <2>1. PICK n \in Unassigned(said) : HeadWindow(said) = said[n].window
    BY HeadIsFirst
  <2> QED
    BY <1>1, <2>1 DEF OneWindow
<1>11. Takes(new, i, HeadWindow(said))
  BY <1>1, <1>2, <1>4, <1>5, <1>10 DEF Takes
<1> QED
  BY <1>2, <1>7, <1>9, <1>11 DEF new, batch
\* The dialogue, with what each turn takes named.
LEMMA DialogueParts ==
    TurnsHaveMessages <=>
        \A i \in Investigations : conv[i] # None => Takes(messages[conv[i]], i, window[i])
BY DEF TurnsHaveMessages, Takes

\* Messages that are said, and the turn that may be opened for them, continue it.
LEMMA GrownDialogue ==
    ASSUME LifeInv, DialogueInv, NEW c \in Conversations, NEW new \in Seq(Messages), NEW i, NEW win,
           messages' = [messages EXCEPT ![c] = new], Grown(messages[c], new, i), OneWindow(new),
           \/ i = None /\ UNCHANGED <<opened, status, conv, window>>
           \/ /\ i = opened + 1 /\ NewInvestigation(c, win)
              /\ RunningTurns(c) = {} /\ Takes(new, i, win)
    PROVE  DialogueInv'
<1> /\ RowsTypeOK /\ RowsInOrder
    /\ OneTurnAtATime /\ TurnsHaveMessages /\ RepliesFollowTheirTurn /\ TurnsAreKnown
  BY DEF LifeInv, TypeShape, TypeOK, Shape, DialogueInv
<1> DEFINE old == messages[c]
<1>1. /\ opened \in Nat /\ opened' \in Nat /\ opened <= opened'
      /\ \A j \in Investigations \ {i} :
            status'[j] = status[j] /\ conv'[j] = conv[j] /\ window'[j] = window[j]
  BY DEF NewInvestigation, RowsTypeOK
<1>2. \/ i = None
      \/ /\ i \in Investigations /\ i = opened + 1 /\ opened' = i /\ Takes(new, i, win)
         /\ status'[i] = "running" /\ conv'[i] = c /\ window'[i] = win /\ RunningTurns(c) = {}
  BY SMTT(40) DEF NewInvestigation, RowsTypeOK, Investigations
<1>3. messages'[c] = new /\ \A d \in Conversations \ {c} : messages'[d] = messages[d]
  BY DEF RowsTypeOK
<1>4. \A j \in 1 .. opened : j # i /\ j # None /\ j \in Investigations /\ j \in 1 .. opened'
  BY <1>1, <1>2 DEF RowsTypeOK, Investigations
<1>5. \A j \in Investigations \ {i} : \A k \in DOMAIN new :
         new[k].inv = j <=> k \in DOMAIN old /\ old[k].inv = j
  BY DEF Grown, Investigations
<1>6. \A k \in DOMAIN old : new[k].role = old[k].role /\ new[k].window = old[k].window /\ k \in DOMAIN new
  BY DEF Grown
<1>7. OneTurnAtATime'
  <2> SUFFICES ASSUME NEW d \in Conversations, NEW x \in Investigations, NEW y \in Investigations,
                      x \in RunningTurns(d)', y \in RunningTurns(d)'
               PROVE  x = y
    BY DEF OneTurnAtATime
  <2>1. status'[x] = "running" /\ conv'[x] = d /\ status'[y] = "running" /\ conv'[y] = d
    BY DEF RunningTurns
  <2>2. CASE x # i /\ y # i
    BY <1>1, <2>1, <2>2 DEF OneTurnAtATime, RunningTurns
  <2>3. CASE x = i \/ y = i
    <3>1. d = c /\ RunningTurns(c) = {}
      BY <1>2, <2>1, <2>3 DEF Investigations
    <3> QED
      BY <1>1, <2>1, <3>1 DEF RunningTurns
  <2> QED
    BY <2>2, <2>3
<1>8. ASSUME NEW j \in Investigations, conv'[j] # None PROVE Takes(messages'[conv'[j]], j, window'[j])
  <2>1. CASE j = i
    BY <1>2, <1>3, <2>1 DEF Investigations
  <2>2. CASE j # i
    <3>1. conv[j] # None /\ conv'[j] = conv[j] /\ window'[j] = window[j] /\ conv[j] \in Conversations
      BY <1>1, <1>8, <2>2 DEF RowsTypeOK
    <3>2. Takes(messages[conv[j]], j, window[j])
      BY <3>1, DialogueParts
    <3>3. CASE conv[j] = c
      BY <1>3, <1>5, <1>6, <2>2, <3>1, <3>2, <3>3 DEF Takes
    <3>4. CASE conv[j] # c
      BY <1>3, <3>1, <3>2, <3>4
    <3> QED
      BY <3>3, <3>4
  <2> QED
    BY <2>1, <2>2
<1>9. TurnsHaveMessages'
  <2>1. \A j \in Investigations : conv'[j] # None => Takes(messages'[conv'[j]], j, window'[j])
    BY <1>8
  <2> QED
    BY <2>1 DEF TurnsHaveMessages, Takes
<1>10. TurnsAreKnown'
  <2> SUFFICES ASSUME NEW d \in Conversations, NEW k \in DOMAIN messages'[d], messages'[d][k].inv # None
               PROVE  messages'[d][k].inv \in 1 .. opened' /\ conv'[messages'[d][k].inv] = d
    BY DEF TurnsAreKnown
  <2>1. CASE d # c
    BY <1>1, <1>3, <1>4, <2>1 DEF TurnsAreKnown
  <2>2. CASE d = c
    <3>1. new[k].inv = i \/ (k \in DOMAIN old /\ new[k].inv = old[k].inv)
      BY <1>3, <2>2 DEF Grown
    <3>2. CASE new[k].inv = i
      BY <1>2, <1>3, <2>2, <3>2 DEF Investigations
    <3>3. CASE k \in DOMAIN old /\ new[k].inv = old[k].inv
      BY <1>1, <1>3, <1>4, <2>2, <3>3 DEF TurnsAreKnown
    <3> QED
      BY <3>1, <3>2, <3>3
  <2> QED
    BY <2>1, <2>2
<1>11. RepliesFollowTheirTurn'
  <2> SUFFICES ASSUME NEW d \in Conversations, NEW k \in DOMAIN messages'[d],
                      messages'[d][k].role = "assistant"
               PROVE  /\ messages'[d][k].inv # None
                      /\ status'[messages'[d][k].inv] = "concluded"
                      /\ \A j \in DOMAIN messages'[d] :
                            messages'[d][j].inv = messages'[d][k].inv => j <= k
    BY DEF RepliesFollowTheirTurn
  <2>1. CASE d # c
    <3>1. messages[d][k].inv \in 1 .. opened
      BY <1>3, <2>1 DEF TurnsAreKnown, RepliesFollowTheirTurn
    <3> QED
      BY <1>1, <1>3, <1>4, <2>1, <3>1 DEF RepliesFollowTheirTurn
  <2>2. CASE d = c
    <3>1. k \in DOMAIN old /\ old[k].role = "assistant" /\ old[k].inv # None /\ new[k].inv = old[k].inv
      BY <1>3, <2>2 DEF Grown, RepliesFollowTheirTurn
    <3>2. old[k].inv \in 1 .. opened
      BY <3>1 DEF TurnsAreKnown
    <3>3. status'[new[k].inv] = "concluded"
      BY <1>1, <1>4, <3>1, <3>2 DEF RepliesFollowTheirTurn
    <3>4. \A j \in DOMAIN new : new[j].inv = new[k].inv => j <= k
      BY <1>4, <1>5, <3>1, <3>2 DEF RepliesFollowTheirTurn
    <3> QED
      BY <1>3, <2>2, <3>1, <3>3, <3>4
  <2> QED
    BY <2>1, <2>2
<1>12. \A d \in Conversations : OneWindow(messages'[d])
  BY <1>3 DEF DialogueInv
<1>13. (\A d \in Conversations : OneWindow(messages[d]))'
  BY <1>12
<1> QED
  BY <1>7, <1>9, <1>10, <1>11, <1>13 DEF DialogueInv
\* An ending, answered or not, and a step that leaves the rows alone, keep it.
LEMMA EndedDialogue ==
    ASSUME LifeInv, DialogueInv, UNCHANGED <<opened, conv, window>>,
           \A i \in Investigations : \/ status'[i] = status[i]
                                     \/ status[i] = "running" /\ status'[i] # "running",
           \/ UNCHANGED messages
           \/ \E i \in Investigations : Answers(i)
    PROVE  DialogueInv'
<1> /\ RowsTypeOK /\ RowsInOrder
    /\ OneTurnAtATime /\ TurnsHaveMessages /\ RepliesFollowTheirTurn /\ TurnsAreKnown
  BY DEF LifeInv, TypeShape, TypeOK, Shape, DialogueInv
<1>1. OneTurnAtATime'
  BY DEF OneTurnAtATime, RunningTurns
<1>2. CASE UNCHANGED messages
  <2>1. TurnsHaveMessages' /\ TurnsAreKnown'
    BY <1>2 DEF TurnsHaveMessages, TurnsAreKnown
  <2>2. \A j \in 1 .. opened : j \in Investigations
    BY DEF RowsTypeOK, Investigations
  <2>3. RepliesFollowTheirTurn'
    BY <1>2, <2>2 DEF RepliesFollowTheirTurn, TurnsAreKnown
  <2>4. (\A d \in Conversations : OneWindow(messages[d]))'
    BY <1>2 DEF DialogueInv
  <2> QED
    BY <1>1, <2>1, <2>3, <2>4 DEF DialogueInv
<1>3. ASSUME NEW i \in Investigations, Answers(i) PROVE DialogueInv'
  <2> DEFINE c == conv[i]
             old == messages[c]
             m == [role |-> "assistant", inv |-> i, window |-> window[i]]
             new == Append(old, m)
  <2>1. c \in Conversations /\ status[i] = "running" /\ status'[i] = "concluded" /\ i # None
        /\ i \in 1 .. opened /\ window[i] \in Windows
    <3>1. /\ conv[i] # None /\ status[i] = "running"
          /\ status' = [j \in Investigations |-> IF j \in {i} THEN "concluded" ELSE status[j]]
      BY <1>3 DEF Answers, EndAll
    <3>2. status[i] # "absent" /\ status'[i] = "concluded" /\ i # None
      BY <3>1 DEF Investigations
    <3>3. window[i] \in Windows /\ i \in 1 .. opened
      BY <3>2 DEF RowsTypeOK, RowsInOrder, Investigations
    <3> QED
      BY <3>1, <3>2, <3>3 DEF RowsTypeOK
  <2>2. m \in Messages
    BY <2>1 DEF Messages
  <2>3. m.role = "assistant" /\ m.inv = i /\ m.window = window[i]
    OBVIOUS
  <2>4. messages'[c] = new /\ \A d \in Conversations \ {c} : messages'[d] = messages[d]
    BY <1>3, <2>1 DEF Answers, RowsTypeOK
  <2>5. old \in Seq(Messages)
    BY <2>1 DEF RowsTypeOK
  <2> HIDE DEF m
  <2>6. /\ DOMAIN new = DOMAIN old \cup {Len(old) + 1} /\ new[Len(old) + 1] = m
        /\ \A k \in DOMAIN old : new[k] = old[k] /\ k <= Len(old) + 1
        /\ Len(old) + 1 \notin DOMAIN old
    BY <2>2, <2>5
  <2>7. \A j \in 1 .. opened : j \in Investigations /\ j # None
    BY DEF RowsTypeOK, Investigations
  <2> HIDE DEF new
  <2>8. \A j \in Investigations : conv'[j] # None => Takes(messages'[conv'[j]], j, window'[j])
    <3> SUFFICES ASSUME NEW j \in Investigations, conv[j] # None
                 PROVE  Takes(messages'[conv[j]], j, window[j])
      OBVIOUS
    <3>1. Takes(messages[conv[j]], j, window[j]) /\ conv[j] \in Conversations
      BY DialogueParts DEF RowsTypeOK
    <3>2. CASE conv[j] = c
      BY <2>3, <2>4, <2>6, <3>1, <3>2 DEF Takes
    <3>3. CASE conv[j] # c
      BY <2>4, <3>1, <3>3
    <3> QED
      BY <3>2, <3>3
  <2>9. TurnsHaveMessages'
    BY <2>8 DEF TurnsHaveMessages, Takes
  <2>10. TurnsAreKnown'
    <3> SUFFICES ASSUME NEW d \in Conversations, NEW k \in DOMAIN messages'[d], messages'[d][k].inv # None
                 PROVE  messages'[d][k].inv \in 1 .. opened /\ conv[messages'[d][k].inv] = d
      BY DEF TurnsAreKnown
    <3> QED
      BY <2>1, <2>3, <2>4, <2>6 DEF TurnsAreKnown
  <2>11. RepliesFollowTheirTurn'
    <3> SUFFICES ASSUME NEW d \in Conversations, NEW k \in DOMAIN messages'[d],
                        messages'[d][k].role = "assistant"
                 PROVE  /\ messages'[d][k].inv # None
                        /\ status'[messages'[d][k].inv] = "concluded"
                        /\ \A j \in DOMAIN messages'[d] :
                              messages'[d][j].inv = messages'[d][k].inv => j <= k
      BY DEF RepliesFollowTheirTurn
    <3>1. ASSUME NEW n \in DOMAIN messages[d], messages[d][n].role = "assistant"
          PROVE  /\ messages[d][n].inv # None /\ status'[messages[d][n].inv] = "concluded"
                 /\ messages[d][n].inv # i
      <4>1. /\ messages[d][n].inv # None /\ messages[d][n].inv \in 1 .. opened
            /\ status[messages[d][n].inv] = "concluded"
        BY <3>1 DEF RepliesFollowTheirTurn, TurnsAreKnown
      <4> QED
        BY <2>1, <2>7, <4>1
    <3>2. CASE d # c
      BY <2>4, <3>1, <3>2 DEF RepliesFollowTheirTurn
    <3>3. CASE d = c /\ k \in DOMAIN old
      <4>1. messages'[d] = new /\ new[k] = old[k] /\ old[k].role = "assistant"
        BY <2>4, <2>6, <3>3
      <4>2. \A j \in DOMAIN new : new[j].inv = new[k].inv => j <= k
        BY <2>3, <2>6, <3>1, <3>3, <4>1 DEF RepliesFollowTheirTurn
      <4> QED
        BY <3>1, <3>3, <4>1, <4>2
    <3>4. CASE d = c /\ k = Len(old) + 1
      <4>1. messages'[d] = new /\ new[k] = m
        BY <2>4, <2>6, <3>4
      <4>2. \A j \in DOMAIN new : j <= k
        BY <2>5, <2>6, <3>4
      <4> QED
        BY <2>1, <2>3, <4>1, <4>2
    <3> QED
      BY <2>4, <2>6, <3>2, <3>3, <3>4
  <2>12. \A d \in Conversations : OneWindow(messages'[d])
    <3>1. Unassigned(new) \subseteq Unassigned(old)
      BY <2>3, <2>6 DEF Unassigned
    <3>2. OneWindow(old)
      BY <2>1 DEF DialogueInv
    <3>3. OneWindow(new)
      BY <2>6, <3>1, <3>2 DEF OneWindow, Unassigned
    <3> QED
      BY <2>4, <3>3 DEF DialogueInv
  <2>13. (\A d \in Conversations : OneWindow(messages[d]))'
    BY <2>12
  <2> QED
    BY <1>1, <2>9, <2>10, <2>11, <2>13 DEF DialogueInv
<1> QED
  BY <1>2, <1>3

LEMMA DialogueNext ==
    ASSUME LifeInv, DialogueInv, [Next]_vars PROVE DialogueInv'
<1> /\ RowsTypeOK /\ RowsInOrder
  BY DEF LifeInv, TypeShape, TypeOK, Shape
<1>1. ASSUME NEW c \in Conversations, Admits(c) PROVE DialogueInv'
  <2>1. PICK said : SaidIn(c, said) /\ OpenTurn(c, said)
    BY <1>1 DEF Admits
  <2>2. said \in Seq(Messages) /\ Grown(messages[c], said, None) /\ OneWindow(said)
    BY <2>1, SaidFacts DEF DialogueInv
  <2>3. CASE UNCHANGED <<investigationVars, streamVars>> /\ messages' = [messages EXCEPT ![c] = said]
    BY <2>2, <2>3, GrownDialogue DEF investigationVars
  <2>4. CASE /\ Unassigned(said) # {} /\ RunningTurns(c) = {}
             /\ NewInvestigation(c, HeadWindow(said))
             /\ messages' = [messages EXCEPT
                     ![c] = Assigned(said, QueuedBatch(said), opened + 1)]
    <3> DEFINE i == opened + 1
               new == Assigned(said, QueuedBatch(said), i)
    <3>1. i \in Investigations /\ i \notin 1 .. opened /\ i # None
      BY <2>4 DEF NewInvestigation, RowsTypeOK, Investigations
    <3>2. \A k \in DOMAIN said : said[k].inv # i
      <4>1. \A k \in DOMAIN messages[c] : messages[c][k].inv # i
        BY <3>1 DEF DialogueInv, TurnsAreKnown
      <4> QED
        BY <2>2, <3>1, <4>1 DEF Grown
    <3>3. /\ new \in Seq(Messages) /\ Grown(said, new, i)
          /\ OneWindow(new) /\ Takes(new, i, HeadWindow(said))
      BY <2>2, <2>4, <3>1, <3>2, AssignedFacts
    <3>4. messages' = [messages EXCEPT ![c] = new]
      BY <2>4
    <3> HIDE DEF new
    <3>5. Grown(messages[c], new, i)
      BY <2>2, <3>3 DEF Grown
    <3> QED
      BY <2>4, <3>3, <3>4, <3>5, GrownDialogue
  <2> QED
    BY <2>1, <2>3, <2>4, OpenTurnCases
<1>2. CASE Asks
  <2>1. PICK win \in Windows : NewInvestigation(None, win)
    BY <1>2 DEF Asks
  <2> DEFINE i == opened + 1
  <2>2. /\ i \in Investigations /\ opened' = i /\ opened \in Nat /\ UNCHANGED messages
        /\ conv'[i] = None
        /\ \A j \in Investigations \ {i} :
              status'[j] = status[j] /\ conv'[j] = conv[j] /\ window'[j] = window[j]
    BY <1>2, <2>1 DEF Asks, NewInvestigation, RowsTypeOK, Investigations
  <2>3. \A j \in 1 .. opened : j \in Investigations /\ j # i /\ j \in 1 .. opened'
    BY <2>2 DEF RowsTypeOK, Investigations
  <2>4. OneTurnAtATime'
    BY <2>2 DEF DialogueInv, OneTurnAtATime, RunningTurns
  <2>5. TurnsHaveMessages'
    BY <2>2 DEF DialogueInv, TurnsHaveMessages
  <2>6. TurnsAreKnown'
    BY <2>2, <2>3 DEF DialogueInv, TurnsAreKnown
  <2>7. RepliesFollowTheirTurn'
    BY <2>2, <2>3 DEF DialogueInv, RepliesFollowTheirTurn, TurnsAreKnown
  <2>8. (\A d \in Conversations : OneWindow(messages[d]))'
    BY <2>2 DEF DialogueInv
  <2> QED
    BY <2>4, <2>5, <2>6, <2>7, <2>8 DEF DialogueInv
<1>3. CASE Ends
  BY <1>3, EndedDialogue DEF Ends, EndAll, RowsTypeOK, Terminal
<1>4. CASE Quiet
  BY <1>4, EndedDialogue DEF Quiet
<1>5. ASSUME NEW i \in Investigations, Answers(i) PROVE DialogueInv'
  BY <1>5, EndedDialogue DEF Answers, EndAll, RowsTypeOK
<1> QED
  BY <1>1, <1>2, <1>3, <1>4, <1>5, DialogueStep

\* A Conversation reads as a dialogue for every number of Conversations, workers and
\* Messages: one turn at a time whoever opens it (a new Message, the finishing worker
\* or the admission loop), each turn with Messages of its one window, each answered
\* after them and at most once (openTurn, OpenQueuedConversationTurn,
\* endInvestigation).
THEOREM TurnsAreAlwaysADialogue == Spec => []TurnsAreADialogue
<1>1. Init => DialogueInv
  BY DEF Init, DialogueInv, OneTurnAtATime, RunningTurns, TurnsHaveMessages,
     RepliesFollowTheirTurn, TurnsAreKnown, OneWindow, Unassigned
<1>2. LifeInv /\ DialogueInv /\ [Next]_vars => DialogueInv'
  BY DialogueNext
<1>3. DialogueInv => TurnsAreADialogue
  BY DEF DialogueInv, TurnsAreADialogue
<1> QED
  BY <1>1, <1>2, <1>3, LifeInvInit, LifeInvNext, PTL DEF Spec

=============================================================================
