----------------------------- MODULE SlackReply -----------------------------
(***************************************************************************)
(* The answer to one Investigation in its Slack thread: the slack_reply     *)
(* row, the reply workers of every replica that claim it under a lease, and *)
(* the messages they open, write and close at Slack.                        *)
(*                                                                          *)
(* A worker alternates calls to Slack with fenced writes of the row. Either *)
(* may take effect although its answer is lost, and a worker may die        *)
(* between any two of them. Slack itself and the Investigation that         *)
(* produces the events are external.                                        *)
(***************************************************************************)
EXTENDS Integers, Sequences, FiniteSets, FiniteSetsExt

CONSTANTS
    Workers,        \* reply workers
    MaxAttempts,    \* maxAttempts
    LeaseFor,       \* leaseDuration in ticks; the last one is left to settle
    PageSize,       \* events a pass reads after its cursor
    RenderLimit,    \* events a message that is replaced is rendered from
    MaxEvents,      \* bound: events of the Investigation
    MaxStreams,     \* bound: messages opened at Slack
    MaxCrashes      \* bound: workers that die

ASSUME WorkersAssumption == IsFiniteSet(Workers)
ASSUME SlackReplyAssumption ==
    /\ MaxAttempts \in Nat \ {0}
    /\ LeaseFor \in Nat /\ LeaseFor >= 2
    /\ PageSize \in Nat \ {0} /\ RenderLimit \in Nat \ {0}
    /\ MaxEvents \in Nat /\ MaxStreams \in Nat /\ MaxCrashes \in Nat

\* What a rendered event can be: a status, a visible line, the ending.
Kinds == {"status", "line", "end"}
Streams == 1 .. MaxStreams
Tokens == 1 .. Cardinality(Workers) + 1

\* A message: still streaming, a native stream or one that is replaced, whether
\* Slack ever answered that it cannot be stopped, and the events it shows.
NoMessage == [open |-> FALSE, native |-> FALSE, denied |-> FALSE, shown |-> {}]

VARIABLES
    log,        \* the Investigation's events
    reply,      \* the slack_reply row; status "absent" before it is owed
    slack,      \* the messages in the thread
    posted,     \* how many messages have been opened
    pc,         \* where a worker stands in answer
    mine,       \* its Reply: the row as it was claimed, and the batch it read
    refusals,   \* history: attempts that ended in a retry or in giving up
    crashes     \* workers that have died

vars == <<log, reply, slack, posted, pc, mine, refusals, crashes>>
external == <<log, slack, posted>>

NoReply == [token |-> 0, last |-> 0, attempts |-> 0, stream |-> 0, upto |-> 0]

Init ==
    /\ log = <<>>
    /\ reply = [status |-> "absent", token |-> 0, ttl |-> 0, stream |-> 0, last |-> 0,
                attempts |-> 0]
    /\ slack = [s \in Streams |-> NoMessage]
    /\ posted = 0
    /\ pc = [w \in Workers |-> "idle"]
    /\ mine = [w \in Workers |-> NoReply]
    /\ refusals = 0
    /\ crashes = 0

-----------------------------------------------------------------------------
(* The Investigation and its events.                                        *)

Ended == log # <<>> /\ log[Len(log)] = "end"

\* AppendEvent: nothing follows the terminal event.
EventAppears ==
    /\ ~Ended
    /\ Len(log) < MaxEvents
    /\ \E k \in Kinds : /\ Len(log) = MaxEvents - 1 => k = "end"
                        /\ log' = Append(log, k)
    /\ UNCHANGED <<reply, slack, posted, pc, mine, refusals, crashes>>

-----------------------------------------------------------------------------
(* Claims.                                                                  *)

\* The lease_owner a claim draws: one that no worker remembers.
FreshToken == Min(Tokens \ {mine[w].token : w \in Workers})

\* Mutant: who claimed the row is not looked at.
OwnsAny(w) == reply.status = "delivering" /\ reply.ttl > 0

\* withSlackReplyClaim: the row is being delivered under this claim, unexpired.
Owns(w) == reply.status = "delivering" /\ reply.token = mine[w].token /\ reply.ttl > 0

\* The attempt's context ends one tick before the lease does.
InTime(w) == Owns(w) /\ reply.ttl > 1

Goes(w, step) == pc' = [pc EXCEPT ![w] = step]

\* answer returns.
Returns(w) == Goes(w, "idle") /\ mine' = [mine EXCEPT ![w] = NoReply]

\* oweSlackReplies: every turn of a Slack Conversation owes one.
OweSlackReply ==
    /\ reply.status = "absent"
    /\ reply' = [reply EXCEPT !.status = "pending"]
    /\ UNCHANGED <<external, pc, mine, refusals, crashes>>

\* Mutant: only pending replies are claimed.
ClaimPendingOnly(w) ==
    /\ pc[w] = "idle"
    /\ reply.status = "pending"
    /\ reply' = [reply EXCEPT !.status = "delivering", !.token = FreshToken, !.ttl = LeaseFor]
    /\ mine' = [mine EXCEPT ![w] = [token |-> FreshToken, last |-> reply.last, upto |-> reply.last,
                                    attempts |-> reply.attempts, stream |-> reply.stream]]
    /\ Goes(w, "claimed")
    /\ UNCHANGED <<external, refusals, crashes>>

\* ClaimSlackReplies: a reply that is due and not leased. Back-off is a delay.
ClaimSlackReply(w) ==
    /\ pc[w] = "idle"
    /\ reply.status \in {"pending", "delivering"}
    /\ reply.ttl = 0
    /\ reply' = [reply EXCEPT !.status = "delivering", !.token = FreshToken, !.ttl = LeaseFor]
    /\ mine' = [mine EXCEPT ![w] = [token |-> FreshToken, last |-> reply.last, upto |-> reply.last,
                                    attempts |-> reply.attempts, stream |-> reply.stream]]
    /\ Goes(w, "claimed")
    /\ UNCHANGED <<external, refusals, crashes>>

\* One tick of the clock.
Tick ==
    /\ reply.ttl > 0
    /\ reply' = [reply EXCEPT !.ttl = @ - 1]
    /\ UNCHANGED <<external, pc, mine, refusals, crashes>>

-----------------------------------------------------------------------------
(* answer.                                                                  *)

\* Render(events).Done and held: a batch with neither a line nor the ending
\* waits for more.
Done(from, upto) == \E k \in from + 1 .. upto : log[k] = "end"
Held(from, upto) == \A k \in from + 1 .. upto : log[k] = "status"

\* The credential and a page of events are read, and decide what the pass does.
ReadEvents(w) ==
    LET last == mine[w].last
        upto == Min({Len(log), last + PageSize})
        finished == last = upto /\ last > 0 /\ mine[w].stream # 0 /\ log[last] = "end"
        next == CASE finished -> "closing"
                  [] ~finished /\ Held(last, upto) -> "releasing"
                  [] ~Held(last, upto) /\ mine[w].stream = 0 -> "starting"
                  [] ~Held(last, upto) /\ mine[w].stream # 0 -> "sending"
    IN /\ pc[w] = "claimed"
       /\ InTime(w)
       /\ \/ Goes(w, next) /\ mine' = [mine EXCEPT ![w].upto = upto]
          \/ Goes(w, "retrying") /\ UNCHANGED mine
       /\ UNCHANGED <<external, reply, refusals, crashes>>

\* StartStream: Slack may open the message and the answer be lost.
StartStream(w) ==
    /\ pc[w] = "starting"
    /\ InTime(w)
    /\ \/ /\ posted < MaxStreams
          /\ posted' = posted + 1
          /\ \E native \in BOOLEAN :
                slack' = [slack EXCEPT ![posted + 1] =
                             [NoMessage EXCEPT !.open = TRUE, !.native = native]]
          /\ \/ Goes(w, "binding") /\ mine' = [mine EXCEPT ![w].stream = posted + 1]
             \/ Goes(w, "retrying") /\ UNCHANGED mine
       \/ Goes(w, "retrying") /\ UNCHANGED <<slack, posted, mine>>
    /\ UNCHANGED <<log, reply, refusals, crashes>>

\* AdvanceSlackReply: the first message is kept, the cursor never goes back, and
\* the attempts start again. Its caller gives the pass up if it fails, and
\* cannot tell whether it was recorded when the answer is lost.
AdvanceSlackReply(w, upto, next) ==
    \/ /\ InTime(w)
       /\ reply' = [reply EXCEPT !.stream = IF @ = 0 THEN mine[w].stream ELSE @,
                                 !.last = Max({@, upto}),
                                 !.attempts = 0]
       /\ \/ Goes(w, next) /\ UNCHANGED mine
          \/ Returns(w)
    \/ Returns(w) /\ UNCHANGED reply

\* Mutant: the cursor is moved with the message, before the text is sent.
BindStreamEarly(w) ==
    /\ pc[w] = "binding"
    /\ AdvanceSlackReply(w, mine[w].upto, "sending")
    /\ UNCHANGED <<external, refusals, crashes>>

\* Mutant: that the message could not be recorded is not looked at.
BindStreamAnyway(w) ==
    /\ pc[w] = "binding"
    /\ Goes(w, "sending")
    /\ UNCHANGED <<external, reply, mine, refusals, crashes>>

\* The message just opened is recorded with the cursor where it was.
BindStream(w) ==
    /\ pc[w] = "binding"
    /\ AdvanceSlackReply(w, mine[w].last, "sending")
    /\ UNCHANGED <<external, refusals, crashes>>

\* send: a native stream is appended the batch, any other message is replaced by
\* the first RenderLimit events there are. The text may arrive and the answer be
\* lost.
Send(w) ==
    LET s == mine[w].stream
    IN /\ pc[w] = "sending"
       /\ InTime(w)
       /\ \/ /\ slack' = [slack EXCEPT ![s].shown =
                   IF slack[s].native THEN @ \cup (mine[w].last + 1 .. mine[w].upto)
                                      ELSE {k \in 1 .. Len(log) : k <= RenderLimit}]
             /\ Goes(w, "advancing") \/ Goes(w, "retrying")
          \/ Goes(w, "retrying") /\ UNCHANGED slack
       /\ UNCHANGED <<log, reply, posted, mine, refusals, crashes>>

\* What was sent is recorded; the ending closes the message.
AdvanceCursor(w) ==
    /\ pc[w] = "advancing"
    /\ AdvanceSlackReply(w, mine[w].upto,
           IF Done(mine[w].last, mine[w].upto) THEN "closing" ELSE "releasing")
    /\ UNCHANGED <<external, refusals, crashes>>

\* Mutant: whatever Slack answers, the stream is taken for stopped.
StopStreamBlindly(w) ==
    LET s == mine[w].stream
    IN /\ pc[w] = "closing"
       /\ InTime(w)
       /\ \/ slack' = [slack EXCEPT ![s].open = slack[s].open /\ ~slack[s].native]
          \/ UNCHANGED slack
       /\ Goes(w, "completing")
       /\ UNCHANGED <<log, reply, posted, mine, refusals, crashes>>

\* StopStream: only a native stream is stopped, and one that is stopped already is
\* fine. An answer that the method is unavailable to this token is taken for a
\* stop, although the stream stays open (isUnavailable).
StopStream(w) ==
    LET s == mine[w].stream
    IN /\ pc[w] = "closing"
       /\ InTime(w)
       /\ \/ ~slack[s].native /\ Goes(w, "completing") /\ UNCHANGED slack
          \/ /\ slack[s].native
             /\ \/ slack' = [slack EXCEPT ![s].open = FALSE] /\ Goes(w, "completing")
                \/ slack' = [slack EXCEPT ![s].open = FALSE] /\ Goes(w, "retrying")
                \/ slack' = [slack EXCEPT ![s].denied = TRUE] /\ Goes(w, "completing")
                \/ Goes(w, "retrying") /\ UNCHANGED slack
       /\ UNCHANGED <<log, reply, posted, mine, refusals, crashes>>

\* CompleteSlackReply, or its failure, which leaves the row to its lease.
CompleteSlackReply(w) ==
    /\ pc[w] = "completing"
    /\ \/ InTime(w) /\ reply' = [reply EXCEPT !.status = "delivered", !.token = 0, !.ttl = 0]
       \/ UNCHANGED reply
    /\ Returns(w)
    /\ UNCHANGED <<external, refusals, crashes>>

\* ReleaseSlackReply, or its failure.
ReleaseSlackReply(w) ==
    /\ pc[w] = "releasing"
    /\ \/ InTime(w) /\ reply' = [reply EXCEPT !.status = "pending", !.token = 0, !.ttl = 0]
       \/ UNCHANGED reply
    /\ Returns(w)
    /\ UNCHANGED <<external, refusals, crashes>>

\* retry's verdict, from the attempts counted when the reply was claimed.
GiveUp(w) == mine[w].attempts + 1 >= MaxAttempts

\* RetrySlackReply under the claim.
Retried(w) ==
    /\ reply' = [reply EXCEPT !.status = IF GiveUp(w) THEN "failed" ELSE "pending",
                              !.attempts = @ + 1, !.token = 0, !.ttl = 0]
    /\ refusals' = IF refusals < MaxAttempts THEN refusals + 1 ELSE refusals

\* retry after a refused call, or its failure.
RetrySlackReply(w) ==
    /\ pc[w] = "retrying"
    /\ \/ InTime(w) /\ Retried(w)
       \/ UNCHANGED <<reply, refusals>>
    /\ Returns(w)
    /\ UNCHANGED <<external, crashes>>

\* pass: the attempt ran into its deadline, and the rest of the lease settles it
\* as a retry, if the claim is still held and the store answers.
SettleTimeout(w) ==
    /\ pc[w] # "idle"
    /\ ~InTime(w)
    /\ \/ Owns(w) /\ Retried(w)
       \/ UNCHANGED <<reply, refusals>>
    /\ Returns(w)
    /\ UNCHANGED <<external, crashes>>

\* The worker's process dies, at any step: the environment's.
Crash(w) ==
    /\ pc[w] # "idle"
    /\ crashes < MaxCrashes
    /\ crashes' = crashes + 1
    /\ Returns(w)
    /\ UNCHANGED <<external, reply, refusals>>

-----------------------------------------------------------------------------
Answer(w) ==
    \/ ReadEvents(w) \/ StartStream(w) \/ BindStream(w) \/ Send(w) \/ AdvanceCursor(w)
    \/ StopStream(w) \/ CompleteSlackReply(w) \/ ReleaseSlackReply(w) \/ RetrySlackReply(w)
    \/ SettleTimeout(w)

Next ==
    \/ EventAppears
    \/ OweSlackReply
    \/ Tick
    \/ \E w \in Workers : ClaimSlackReply(w) \/ Answer(w) \/ Crash(w)

Spec == Init /\ [][Next]_vars

\* Loops poll, leases run out, and a store that loses a write does not lose it
\* every time it is tried. Slack may refuse for ever.
Fairness ==
    /\ WF_vars(EventAppears)
    /\ WF_vars(OweSlackReply)
    /\ WF_vars(Tick)
    /\ \A w \in Workers :
          /\ WF_vars(ClaimSlackReply(w))
          /\ WF_vars(Answer(w))
    /\ SF_vars(\E w \in Workers : BindStream(w) /\ reply' # reply)
    /\ SF_vars(\E w \in Workers : AdvanceCursor(w) /\ reply' # reply)
    /\ SF_vars(\E w \in Workers : CompleteSlackReply(w) /\ reply' # reply)
    /\ SF_vars(\E w \in Workers : RetrySlackReply(w) /\ reply' # reply)
    /\ SF_vars(\E w \in Workers : SettleTimeout(w) /\ reply' # reply)

FairSpec == Spec /\ Fairness

-----------------------------------------------------------------------------
(* Properties.                                                              *)

TypeOK ==
    /\ log \in UNION {[1 .. n -> Kinds] : n \in 0 .. MaxEvents}
    /\ reply \in [status : {"absent", "pending", "delivering", "delivered", "failed"},
                  token : Tokens \cup {0}, ttl : 0 .. LeaseFor, stream : 0 .. MaxStreams,
                  last : 0 .. MaxEvents, attempts : 0 .. MaxAttempts]
    /\ slack \in [Streams -> [open : BOOLEAN, native : BOOLEAN, denied : BOOLEAN,
                           shown : SUBSET (1 .. MaxEvents)]]
    /\ posted \in 0 .. MaxStreams
    /\ pc \in [Workers -> {"idle", "claimed", "starting", "binding", "sending", "advancing",
                           "closing", "completing", "releasing", "retrying"}]
    /\ mine \in [Workers -> [token : Tokens \cup {0}, last : 0 .. MaxEvents,
                             upto : 0 .. MaxEvents, attempts : 0 .. MaxAttempts,
                             stream : 0 .. MaxStreams]]
    /\ refusals \in 0 .. MaxAttempts
    /\ crashes \in 0 .. MaxCrashes

\* The message shows the events after from, up to upto: all of them if it is a
\* native stream, and those it is rendered from if it is replaced.
Displays(s, from, upto) ==
    \A k \in from + 1 .. upto : slack[s].native \/ k <= RenderLimit => k \in slack[s].shown

\* The cursor never passes what the thread has been shown: whatever is lost or
\* repeated, every event up to last_sequence that the message can render is in the
\* message the row names (StartStream, AdvanceSlackReply, send and
\* AdvanceSlackReply, in that order).
CursorIsShown ==
    reply.last > 0 => reply.stream # 0 /\ Displays(reply.stream, 0, reply.last)

\* A delivered reply is a finished one: the Investigation has ended, the thread
\* shows all of it that the message can render, and a native stream was stopped
\* unless Slack answered that this token cannot stop it (finish, StopStream).
DeliveredIsComplete ==
    reply.status = "delivered" =>
        /\ Ended
        /\ Displays(reply.stream, 0, Len(log))
        /\ slack[reply.stream].native => ~slack[reply.stream].open \/ slack[reply.stream].denied

\* One message speaks in the thread: a message whose opening was lost, and that the
\* row does not name, is never written to, whichever worker opened it and however
\* late it wakes up (StartStream, AdvanceSlackReply, send).
OneMessageSpeaks == \A s \in Streams : slack[s].shown # {} => s = reply.stream

\* Whoever holds the claim works on the row as it is: its copy of the cursor and
\* of the message is not stale. Content the cursor has acknowledged is therefore
\* never sent again, and a pass that outlived its lease sends nothing.
HolderIsCurrent ==
    \A w \in Workers : Owns(w) /\ pc[w] \in {"claimed", "starting", "sending"} =>
        mine[w].last = reply.last /\ mine[w].stream = reply.stream

\* A reply is abandoned only after MaxAttempts attempts were refused or ran out of
\* time; passes that found nothing to say do not count (retry, release).
GivesUpLate == reply.status = "failed" => refusals >= MaxAttempts

\* Rows and workers are well formed, the holder's copy is current, and no reply is
\* given up early (withSlackReplyClaim, retry).
Consistent == TypeOK /\ HolderIsCurrent /\ GivesUpLate

\* A page in which nothing is to be shown: the pass that reads it waits for more
\* and reads it again.
QuietPage == \E from \in 0 .. Len(log) - PageSize : Held(from, from + PageSize)

\* Once the Investigation has ended the thread gets its answer, or the reply is
\* abandoned, although workers die and answers are lost; unless a whole page of
\* its events shows nothing (held, release).
EveryReplySettles == Ended /\ ~QuietPage ~> reply.status \in {"delivered", "failed"}
=============================================================================
