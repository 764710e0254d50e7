------------------------------ MODULE AgentRun ------------------------------
(***************************************************************************)
(* One run of the investigation agent (internal/investigation/agent): the  *)
(* loop that asks the model for a move, executes the Tool calls it asks    *)
(* for, records every one of them, and stores the conclusion once the      *)
(* model gives one that cites nothing it was not shown.                    *)
(*                                                                         *)
(* The model's answer is arbitrary.  A Tool call is abstracted to its      *)
(* identity (callIdentityOf), a conclusion to the citations it carries,    *)
(* and evidence of earlier turns to the references it is cited by.  The    *)
(* claim, the row and the event stream are those of Investigation: here a  *)
(* write the claim no longer covers is one of the writes that fail.        *)
(***************************************************************************)
EXTENDS Naturals, FiniteSets, Sequences

CONSTANTS
    ToolReads,    \* identities of reads of a source the model may ask for
    Pages,        \* cursors of the Conversation history it may ask for
    Prior,        \* references to Tool runs of earlier Investigations
    MaxRuns,      \* maxRuns: the read budget
    MaxTurns,     \* maxTurns: the turn budget
    MaxCalls,     \* bound: calls in one completion
    MaxRecorded,  \* bound: Tool runs recorded by one run
    MaxCitations  \* bound: Tool runs cited by the findings, and by the rest

ASSUME AgentAssumption ==
    /\ {MaxRuns, MaxTurns, MaxCalls} \subseteq Nat \ {0}
    /\ MaxRecorded \in Nat /\ MaxCitations \in Nat
    /\ ToolReads \cap Pages = {}
    /\ (ToolReads \cup Pages) \cap {"rejected", "rejectedHistory"} = {}

VARIABLES
    pc,          \* where Run is: "starting", "turn", "asking", "calling", ...
    clock,       \* what is left of the run's context: "ample", "reserve", "over"
    offered,     \* some source offers a Tool
    history,     \* historyBeforeSequence > 1: there is history to read
    kept,        \* the prior references whose Tool run is stored and succeeded
    brief,       \* the references of the brief's findings in the prompt
    reducible,   \* the orientation still holds something reduction removes
    shown,       \* priorEvidence: references of the history pages read
    missing,     \* missingEvidence: something referred to is no longer there
    turn,        \* the turn, counted up to the first past the budget
    attempt,     \* the attempt at this turn's move
    forced,      \* forcedToConclude
    stopped,     \* stoppedBy is set
    asked,       \* how many calls the transcript's last assistant turn has
    answers,     \* the positions of those whose results the transcript holds
    results,     \* the positions answered since, not in the transcript yet
    queue,       \* the calls of that turn still to be made, with their positions
    batch,       \* executedCalls: read identity -> ordinal, in this turn
    pagesRead,   \* executedIdentities: the history pages read successfully
    executed,    \* the reads counted against the budget
    runs,        \* the Tool runs the agent holds: a sequence of outcomes
    stored,      \* the Tool runs the store holds
    conclusion,  \* the accepted conclusion, or NoConclusion
    row          \* the Investigation: "running", "concluded", "failed"

setup == <<offered, history, kept>>
prompt == <<brief, reducible>>
evidence == <<shown, missing>>
move == <<turn, attempt, forced, stopped>>
transcript == <<asked, answers, results>>
work == <<queue, batch, pagesRead, executed, runs, stored>>
ending == <<conclusion, row>>
agentVars == <<pc, clock, setup, prompt, evidence, move, transcript, work, ending>>

NoConclusion == [findings |-> {}, refs |-> {}, mentions |-> {}, marked |-> FALSE]

Outcomes == {"succeeded", "failed"}

(* What one completion may ask for; decodeToolCalls marks a call it cannot *)
(* read, and a call that names the conclusion is no read.                  *)
ReadCalls == ToolReads \cup Pages \cup {"rejected", "rejectedHistory"}

(* A completion as splitCalls takes it apart: the reads in their order, and *)
(* how many conclusions.  Calls are known by their places, reads first.     *)
Completions ==
    {c \in [reads : UNION {[1 .. n -> ReadCalls] : n \in 0 .. MaxCalls}, conclusions : 0 .. MaxCalls] :
        /\ Len(c.reads) + c.conclusions <= MaxCalls
        /\ Len(runs) + Len(c.reads) <= MaxRecorded}

-----------------------------------------------------------------------------
AgentInit ==
    /\ pc = "starting"
    /\ clock = "ample"
    /\ offered \in BOOLEAN
    /\ history = FALSE
    /\ kept \in SUBSET Prior
    /\ brief = {}
    /\ reducible = FALSE
    /\ shown = {}
    /\ missing = FALSE
    /\ turn = 0 /\ attempt = 0
    /\ forced = FALSE /\ stopped = FALSE
    /\ asked = 0 /\ answers = <<>> /\ results = <<>>
    /\ queue = <<>>
    /\ batch = [r \in ToolReads |-> 0]
    /\ pagesRead = {}
    /\ executed = 0
    /\ runs = <<>> /\ stored = <<>>
    /\ conclusion = NoConclusion
    /\ row = "running"

(* The context's deadline comes near, passes, or the run is cancelled.     *)
(* The terminal writes do not read it.                                     *)
ClockMoves ==
    /\ pc \notin {"concluding", "failing", "done"}
    /\ \/ clock = "ample" /\ clock' \in {"reserve", "over"}
       \/ clock = "reserve" /\ clock' = "over"
    /\ UNCHANGED <<pc, setup, prompt, evidence, move, transcript, work, ending>>

(* Run before its loop: the Conversation's origin, its Messages and the    *)
(* connected sources are read, and the run fails where one cannot be; the  *)
(* brief may be missing, the orientation be rendered without it.           *)
Start ==
    /\ pc = "starting"
    /\ \/ /\ pc' = "failing"
          /\ UNCHANGED <<setup, prompt, evidence>>
       \/ /\ pc' = "turn"
          /\ history' \in BOOLEAN
          /\ brief' \in SUBSET Prior
          /\ reducible' \in IF brief' = {} THEN BOOLEAN ELSE {TRUE}
          /\ missing' = ~(brief' \subseteq kept)
          /\ UNCHANGED <<offered, kept, shown>>
    /\ UNCHANGED <<clock, move, transcript, work, ending>>

(* The ceilings on reads, turns and time, examined when a turn begins.     *)
StopReads(t) ==
    \/ executed >= MaxRuns
    \/ t > MaxTurns
    \/ clock = "reserve"

(* The head of the loop: results of the calls join the transcript.         *)
BeginTurn ==
    /\ pc = "turn"
    /\ IF clock = "over"
       THEN /\ pc' = "failing"
            /\ UNCHANGED <<move, transcript>>
       ELSE /\ pc' = "asking"
            /\ turn' = IF turn <= MaxTurns THEN turn + 1 ELSE turn
            /\ stopped' = (stopped \/ StopReads(turn'))
            /\ forced' = (stopped' \/ (~offered /\ ~history))
            /\ attempt' = 0
            /\ answers' = answers \o results
            /\ results' = <<>>
            /\ UNCHANGED asked
    /\ UNCHANGED <<clock, setup, prompt, evidence, work, ending>>

-----------------------------------------------------------------------------
(* The completion failed or was refused, or its call IDs are empty or      *)
(* repeated: the move has an error and the run fails.                      *)
MoveFails ==
    /\ pc = "asking"
    /\ pc' = "failing"
    /\ UNCHANGED <<clock, setup, prompt, evidence, move, transcript, work, ending>>

(* The provider's context window is exceeded: a first attempt is repeated  *)
(* with a reduced orientation, or with the conclusion forced.              *)
ContextExceeded ==
    /\ pc = "asking"
    /\ attempt = 0
    /\ reducible \/ ~forced
    /\ attempt' = 1
    /\ IF reducible
       THEN /\ reducible' = FALSE
            /\ brief' = {}
            /\ UNCHANGED <<forced, stopped>>
       ELSE /\ stopped' = TRUE
            /\ forced' = TRUE
            /\ UNCHANGED prompt
    /\ UNCHANGED <<pc, clock, setup, evidence, turn, transcript, work, ending>>

(* A truncated answer is asked for once more.                              *)
Truncated ==
    /\ pc = "asking"
    /\ IF attempt = 0
       THEN attempt' = 1 /\ UNCHANGED pc
       ELSE pc' = "failing" /\ UNCHANGED attempt
    /\ UNCHANGED <<clock, setup, prompt, evidence, turn, forced, stopped,
                   transcript, work, ending>>

(* Reads are asked for and may be made: a conclusion given beside them is  *)
(* answered with its deferral.                                             *)
AcceptReads(c) ==
    /\ pc' = "calling"
    /\ asked' = Len(c.reads) + c.conclusions
    /\ answers' = [i \in 1 .. c.conclusions |-> Len(c.reads) + i]
    /\ queue' = [i \in DOMAIN c.reads |-> [at |-> i, call |-> c.reads[i]]]
    /\ batch' = [r \in ToolReads |-> 0]
    /\ UNCHANGED <<results, attempt, forced, pagesRead, executed, runs, stored>>

(* Mutant of Reject: the conclusion is demanded as often as it takes.      *)
RejectAgain(calls) ==
    /\ forced' = TRUE
    /\ asked' = calls
    /\ answers' = [i \in 1 .. calls |-> i]
    /\ UNCHANGED <<pc, attempt, results, work>>

(* An answer that is no usable move: every call of it is answered with the *)
(* error and the conclusion is demanded, once.                             *)
Reject(calls) ==
    /\ IF attempt = 1
       THEN /\ pc' = "failing"
            /\ UNCHANGED <<attempt, forced, asked, answers>>
       ELSE /\ attempt' = 1
            /\ forced' = TRUE
            /\ asked' = calls
            /\ answers' = [i \in 1 .. calls |-> i]
            /\ UNCHANGED pc
    /\ UNCHANGED <<results, work>>

AskReads ==
    /\ pc = "asking"
    /\ \E c \in Completions :
          /\ c.reads # <<>>
          /\ IF forced THEN Reject(Len(c.reads) + c.conclusions) ELSE AcceptReads(c)
    /\ UNCHANGED <<clock, setup, prompt, evidence, turn, stopped, ending>>

(* No call at all, or the conclusion called more than once.                *)
AskNothingUsable ==
    /\ pc = "asking"
    /\ \E c \in Completions :
          /\ c.reads = <<>> /\ c.conclusions # 1
          /\ Reject(c.conclusions)
    /\ UNCHANGED <<clock, setup, prompt, evidence, turn, stopped, ending>>

allowed == brief \cup shown

(* Mutant of DecodeConclusion: a finding may cite a read that failed.      *)
DecodeAnyOutcome(doc) ==
    /\ doc.findings \cup doc.mentions \subseteq 1 .. Len(runs)
    /\ doc.refs \subseteq allowed

(* decodeConclusion: every citation is in range, a finding's Tool runs     *)
(* succeeded and its prior references were shown; what else the document   *)
(* is refused for is left to DocumentRefused.                              *)
DecodeConclusion(doc) ==
    /\ doc.findings \cup doc.mentions \subseteq 1 .. Len(runs)
    /\ \A n \in doc.findings : runs[n] = "succeeded"
    /\ doc.refs \subseteq allowed

EvidenceMissing(refs) == ~(refs \subseteq kept)

(* What a conclusion may cite: ordinals recorded and the next one, which   *)
(* is not.                                                                 *)
Citations == {c \in SUBSET (1 .. Len(runs) + 1) : Cardinality(c) <= MaxCitations}

Documents ==
    [findings : Citations,
     mentions : Citations,
     refs : SUBSET Prior,
     marked : {FALSE}]

(* The conclusion called by itself, decoded, its references found in the   *)
(* store, and marked where evidence was found missing on the way.          *)
Conclude ==
    /\ pc = "asking"
    /\ \E doc \in Documents :
          /\ DecodeConclusion(doc)
          /\ ~EvidenceMissing(doc.refs)
          /\ doc.refs = {} \/ clock # "over"
          /\ conclusion' = [doc EXCEPT !.marked = missing]
    /\ pc' = "concluding"
    /\ UNCHANGED <<clock, setup, prompt, evidence, move, transcript, work, row>>

(* A document refused for what it says, cites or lacks.  Verifying prior   *)
(* references may fail as well, and that ends the run (MoveFails).         *)
DocumentRefused ==
    /\ pc = "asking"
    /\ Reject(1)
    /\ UNCHANGED <<clock, setup, prompt, evidence, turn, stopped, ending>>

-----------------------------------------------------------------------------
Call == Head(queue).call

NextCall ==
    /\ queue' = Tail(queue)
    /\ pc' = IF Tail(queue) = <<>> THEN "turn" ELSE "calling"
    /\ results' = Append(results, Head(queue).at)

(* readHistory: a page not read before, within the budget, is read and     *)
(* counted; no Tool run is recorded for it, whatever comes of it.          *)
ReadHistory ==
    /\ pc = "calling"
    /\ Call \in Pages \cup {"rejectedHistory"}
    /\ NextCall
    /\ IF Call \in Pages /\ history /\ Call \notin pagesRead /\ executed < MaxRuns
       THEN /\ executed' = executed + 1
            /\ \/ /\ clock # "over"
                  /\ pagesRead' = pagesRead \cup {Call}
                  /\ \E refs \in SUBSET Prior :
                        /\ shown' = shown \cup refs
                        /\ missing' = (missing \/ EvidenceMissing(refs))
               \/ UNCHANGED <<pagesRead, evidence>>
       ELSE UNCHANGED <<executed, pagesRead, evidence>>
    /\ UNCHANGED <<clock, setup, prompt, move, asked, answers, batch, runs,
                   stored, ending>>

(* recordToolRun: the agent holds the run once the store has it.  A write  *)
(* that fails, after the commit perhaps, fails the run.                    *)
RecordToolRun(outcome) ==
    \/ /\ clock # "over"
       /\ stored' = Append(stored, outcome)
       /\ runs' = Append(runs, outcome)
       /\ NextCall
    \/ /\ stored' \in {stored, Append(stored, outcome)}
       /\ pc' = "failing"
       /\ UNCHANGED <<queue, results, runs>>

(* The calls that are recorded without being made: one that could not be   *)
(* decoded, one identical to a read of this turn, one past the budget.     *)
Unmade(call) ==
    \/ call \in {"rejected"} \cup {r \in ToolReads : batch[r] # 0}
    \/ executed >= MaxRuns

DropCall ==
    /\ pc = "calling"
    /\ Call \in ToolReads \cup {"rejected"}
    /\ Unmade(Call)
    /\ RecordToolRun("failed")
    /\ UNCHANGED <<clock, setup, prompt, evidence, move, asked, answers,
                   batch, pagesRead, executed, ending>>

(* execute: a read of a Tool no source offers fails; one whose credential  *)
(* could not be audited ends the run, before anything is recorded.         *)
ExecuteCall ==
    /\ pc = "calling"
    /\ Call \in ToolReads
    /\ ~Unmade(Call)
    /\ \/ /\ executed' = executed + 1
          /\ batch' = [batch EXCEPT ![Call] = Len(runs) + 1]
          /\ \/ offered /\ RecordToolRun("succeeded")
             \/ RecordToolRun("failed")
       \/ /\ offered
          /\ pc' = "failing"
          /\ UNCHANGED <<queue, results, batch, executed, runs, stored>>
    /\ UNCHANGED <<clock, setup, prompt, evidence, move, asked, answers,
                   pagesRead, ending>>

-----------------------------------------------------------------------------
(* The terminal writes, in a window of their own that outlives the run's   *)
(* context.  One that fails leaves the row to the recovery of its lease.   *)
StoreConclusion ==
    /\ pc = "concluding"
    /\ pc' = "done"
    /\ row' \in {"running", "concluded"}
    /\ UNCHANGED <<clock, setup, prompt, evidence, move, transcript, work, conclusion>>

PersistFailure ==
    /\ pc = "failing"
    /\ pc' = "done"
    /\ row' \in {"running", "failed"}
    /\ UNCHANGED <<clock, setup, prompt, evidence, move, transcript, work, conclusion>>

Finished == pc = "done" /\ UNCHANGED agentVars

RunSteps ==
    \/ Start \/ BeginTurn
    \/ MoveFails \/ ContextExceeded \/ Truncated
    \/ AskReads \/ AskNothingUsable \/ Conclude \/ DocumentRefused
    \/ ReadHistory \/ DropCall \/ ExecuteCall
    \/ StoreConclusion \/ PersistFailure

AgentNext == RunSteps \/ ClockMoves \/ Finished

AgentSpec == AgentInit /\ [][AgentNext]_agentVars

-----------------------------------------------------------------------------
AgentTypeOK ==
    /\ pc \in {"starting", "turn", "asking", "calling", "concluding", "failing", "done"}
    /\ clock \in {"ample", "reserve", "over"}
    /\ {offered, history, reducible, missing, forced, stopped} \subseteq BOOLEAN
    /\ kept \cup brief \cup shown \subseteq Prior
    /\ turn \in 0 .. MaxTurns + 1 /\ attempt \in {0, 1}
    /\ asked \in 0 .. MaxCalls
    /\ {answers, results} \subseteq Seq(1 .. asked)
    /\ queue \in Seq([at : 1 .. asked, call : ReadCalls])
    /\ batch \in [ToolReads -> Nat]
    /\ pagesRead \subseteq Pages
    /\ executed \in Nat
    /\ {runs, stored} \subseteq Seq(Outcomes)
    /\ row \in {"running", "concluded", "failed"}

(* Every call of the last assistant turn has exactly one result in the     *)
(* transcript when the model is asked again: providers refuse a            *)
(* conversation with a call that is unanswered, or answered twice.         *)
CallsAreAnswered ==
    pc = "asking" => /\ {answers[i] : i \in DOMAIN answers} = 1 .. asked
                     /\ \A i, j \in DOMAIN answers : answers[i] = answers[j] => i = j

(* The agent works within its read budget, holds only Tool runs the store  *)
(* has under the same ordinals, and cites the run that an identical call   *)
(* of this turn really made.                                               *)
WorkIsAccounted ==
    /\ executed <= MaxRuns
    /\ Len(runs) <= Len(stored) /\ \A n \in DOMAIN runs : runs[n] = stored[n]
    /\ pc \notin {"failing", "done"} => runs = stored
    /\ pc = "calling" => \A r \in ToolReads : batch[r] \in 0 .. Len(runs)

(* A conclusion the run accepts cites in its findings only Tool runs that  *)
(* are stored and succeeded, and references the model was shown and whose  *)
(* runs are there; and it says so where evidence shown on the way is not.  *)
Grounded ==
    pc = "concluding" \/ row = "concluded" =>
        /\ \A n \in conclusion.findings : n \in DOMAIN stored /\ stored[n] = "succeeded"
        /\ conclusion.mentions \subseteq DOMAIN stored
        /\ conclusion.refs \subseteq (brief \cup shown) \cap kept
        /\ brief \cup shown \subseteq kept \/ conclusion.marked

(* The transcript is well formed and the work accounted for, the loop's    *)
(* obligations towards the provider and the store, and what it concludes is *)
(* grounded (Run, decodeConclusion).                                       *)
AgentIsGrounded == AgentTypeOK /\ CallsAreAnswered /\ WorkIsAccounted /\ Grounded

(* How far the run is at most from its end: the turns that are left, and   *)
(* within one the attempts, then the calls.                                *)
Distance ==
    LET turns == (MaxCalls + 5) * (MaxTurns + 1 - turn)
    IN  CASE pc = "starting" -> turns + 3
          [] pc = "turn" -> turns + 2
          [] pc = "asking" -> turns + MaxCalls + 4 - attempt
          [] pc = "calling" -> turns + 2 + Len(queue)
          [] pc \in {"concluding", "failing"} -> 1
          [] pc = "done" -> 0

(* The loop ends: whatever the model answers, every step of the run takes  *)
(* it nearer to a conclusion or a failure, with no help from its deadline  *)
(* (StopReads and the attempts of a move).  Each of its calls is bounded   *)
(* by a timeout, so it does take its steps.                                *)
RunApproachesItsEnd ==
    [][/\ Distance' \in Nat
       /\ Distance' < Distance \/ (Distance' = Distance /\ clock' # clock)]_agentVars
=============================================================================
