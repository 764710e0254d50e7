-------------------------- MODULE SlackReplyProofs --------------------------
(***************************************************************************)
(* Whatever workers, leases, events and messages there are: the theorems of *)
(* SlackReply and their proofs.                                             *)
(***************************************************************************)
EXTENDS SlackReply, FiniteSetTheorems, SequenceTheorems, WellFoundedInduction, TLAPS

Replies == [status : {"absent", "pending", "delivering", "delivered", "failed"},
            token : Tokens \cup {0}, ttl : 0 .. LeaseFor, stream : 0 .. MaxStreams,
            last : 0 .. MaxEvents, attempts : 0 .. MaxAttempts]
Copies == [token : Tokens \cup {0}, last : 0 .. MaxEvents, upto : 0 .. MaxEvents,
           attempts : 0 .. MaxAttempts, stream : 0 .. MaxStreams]
Message == [open : BOOLEAN, native : BOOLEAN, denied : BOOLEAN, shown : SUBSET (1 .. MaxEvents)]
Shows == [Streams -> Message]
Steps == {"idle", "claimed", "starting", "binding", "sending", "advancing", "closing",
          "completing", "releasing", "retrying"}

\* The reply is being delivered under the claim of w, whether it has run out or not.
Current(w) == reply.status = "delivering" /\ reply.token = mine[w].token

\* The Investigation's events: nothing follows the ending.
LogIsSound ==
    /\ log \in Seq(Kinds) /\ Len(log) <= MaxEvents
    /\ \A k \in 1 .. Len(log) : k < Len(log) => log[k] # "end"

\* The row: it has a token while it is being delivered, the cursor points at an
\* event that was shown, and the attempts it counts were refused.
RowIsSound ==
    /\ reply.status = "delivering" <=> reply.token # 0
    /\ reply.status # "delivering" => reply.ttl = 0
    /\ reply.last <= Len(log)
    /\ reply.status \in {"absent", "pending", "delivering"} => reply.attempts < MaxAttempts
    /\ reply.attempts <= refusals \/ refusals = MaxAttempts
    /\ CursorIsShown /\ DeliveredIsComplete /\ OneMessageSpeaks /\ GivesUpLate

\* What the worker that holds the claim knows at each step of answer.
HolderKnows(w) ==
    /\ reply.attempts <= mine[w].attempts
    /\ pc[w] \in {"claimed", "starting", "binding", "sending", "advancing"} =>
            mine[w].last = reply.last
    /\ pc[w] \in {"claimed", "starting", "sending", "advancing", "closing", "completing"} =>
            mine[w].stream = reply.stream
    /\ pc[w] \in {"starting", "binding"} => reply.stream = 0
    /\ pc[w] \in {"binding", "sending", "advancing", "closing", "completing"} => mine[w].stream # 0
    /\ pc[w] \in {"starting", "binding", "sending", "advancing"} =>
            mine[w].last <= mine[w].upto /\ mine[w].upto <= Len(log)
    /\ pc[w] = "advancing" => Displays(mine[w].stream, mine[w].last, mine[w].upto)
    /\ pc[w] \in {"closing", "completing"} => Ended /\ reply.last = Len(log)
    /\ pc[w] = "completing" /\ slack[mine[w].stream].native =>
            ~slack[mine[w].stream].open \/ slack[mine[w].stream].denied

\* A worker: it has a token of its own while it is busy, and what it knows is
\* good for as long as that token is the row's.
WorkerIsSound(w) ==
    /\ pc[w] = "idle" <=> mine[w].token = 0
    /\ mine[w].attempts <= refusals \/ refusals = MaxAttempts
    /\ Current(w) => HolderKnows(w)

TokensDiffer ==
    \A v, w \in Workers : mine[v].token = mine[w].token /\ mine[v].token # 0 => v = w

ReplyInv ==
    /\ TypeOK /\ LogIsSound /\ RowIsSound /\ TokensDiffer
    /\ \A w \in Workers : WorkerIsSound(w)

-----------------------------------------------------------------------------
(* The operators. *)

\* A set of numbers has a least one.
LEMMA MinFacts ==
    ASSUME NEW S \in SUBSET Nat, S # {}
    PROVE  Min(S) \in S
<1>1. PICK k \in S : \A j \in S : ~(<<j, k>> \in OpToRel(<, Nat))
  BY NatLessThanWellFounded, WFMin
<1>2. \A j \in S : k <= j
  <2> SUFFICES ASSUME NEW j \in S, j < k PROVE FALSE
    OBVIOUS
  <2>1. <<j, k>> \in Nat \X Nat /\ <<j, k>>[1] < <<j, k>>[2]
    OBVIOUS
  <2>2. <<j, k>> \in OpToRel(<, Nat)
    BY <2>1, Zenon DEF OpToRel
  <2> QED
    BY <1>1, <2>2
<1> QED
  BY <1>2 DEF Min

\* The larger of two numbers.
LEMMA MaxFacts ==
    ASSUME NEW a \in Int, NEW b \in Int
    PROVE  Max({a, b}) = IF a >= b THEN a ELSE b
<1>1. \E x \in {a, b} : \A y \in {a, b} : x >= y
  OBVIOUS
<1> QED
  BY <1>1 DEF Max

\* The smaller of two numbers.
LEMMA MinOfTwo ==
    ASSUME NEW a \in Int, NEW b \in Int
    PROVE  Min({a, b}) = IF a <= b THEN a ELSE b
<1>1. \E x \in {a, b} : \A y \in {a, b} : x <= y
  OBVIOUS
<1> QED
  BY <1>1 DEF Min

\* What the constants are.
LEMMA LimitFacts ==
    /\ Cardinality(Workers) \in Nat /\ MaxAttempts \in Nat /\ MaxAttempts >= 1
    /\ LeaseFor \in Nat /\ LeaseFor >= 2
    /\ PageSize \in Nat /\ PageSize >= 1 /\ RenderLimit \in Nat
    /\ MaxEvents \in Nat /\ MaxStreams \in Nat /\ MaxCrashes \in Nat
BY SlackReplyAssumption, WorkersAssumption, FS_CardinalityType

\* There is a token that no worker remembers.
LEMMA TokenFacts ==
    FreshToken \in Tokens /\ FreshToken # 0 /\ \A w \in Workers : mine[w].token # FreshToken
<1> DEFINE E == {mine[w].token : w \in Workers}
           f == [w \in Workers |-> mine[w].token]
<1>1. f \in Surjection(Workers, E)
  BY DEF Surjection
<1>2. IsFiniteSet(E) /\ Cardinality(E) <= Cardinality(Workers)
  BY <1>1, WorkersAssumption, FS_Surjection
<1>3. Cardinality(Workers) \in Nat /\ Cardinality(E) \in Nat
  BY <1>2, LimitFacts, FS_CardinalityType
<1>4. Cardinality(Tokens) = Cardinality(Workers) + 1
  BY <1>3, FS_Interval DEF Tokens
<1>5. Tokens \ E # {}
  <2> SUFFICES ASSUME Tokens \subseteq E PROVE FALSE
    OBVIOUS
  <2>1. Cardinality(Tokens) <= Cardinality(E)
    BY <1>2, FS_Subset
  <2> QED
    BY <1>2, <1>3, <1>4, <2>1
<1>6. Tokens \subseteq Nat /\ 0 \notin Tokens
  BY <1>3 DEF Tokens
<1>7. Min(Tokens \ E) \in Tokens \ E
  BY <1>5, <1>6, MinFacts
<1>8. FreshToken \in Tokens \ E
  BY <1>7 DEF FreshToken
<1> QED
  BY <1>6, <1>8

LEMMA TypeFacts ==
    ASSUME ReplyInv
    PROVE  /\ reply \in Replies /\ slack \in Shows /\ posted \in 0 .. MaxStreams
           /\ pc \in [Workers -> Steps] /\ mine \in [Workers -> Copies]
           /\ refusals \in 0 .. MaxAttempts /\ crashes \in 0 .. MaxCrashes
           /\ log \in Seq(Kinds) /\ Len(log) \in 0 .. MaxEvents
           /\ RowIsSound /\ LogIsSound /\ TokensDiffer
           /\ \A w \in Workers : WorkerIsSound(w)
BY LimitFacts DEF ReplyInv, TypeOK, LogIsSound, Replies, Copies, Shows, Message, Steps

\* A worker that is owed nothing: its copy is gone.
LEMMA NoReplyFacts == NoReply \in Copies /\ NoReply.token = 0 /\ NoReply.attempts = 0
BY LimitFacts DEF NoReply, Copies

\* The cursor and the message of a row, and what they say of the thread.
LEMMA RowSame ==
    ASSUME RowIsSound, UNCHANGED <<log, reply, slack>>, refusals \in 0 .. MaxAttempts,
           refusals' \in 0 .. MaxAttempts, refusals' >= refusals, MaxAttempts \in Nat,
           reply \in Replies
    PROVE  RowIsSound'
BY DEF RowIsSound, CursorIsShown, DeliveredIsComplete, OneMessageSpeaks, Displays,
     GivesUpLate, Ended, Replies

-----------------------------------------------------------------------------
(* The parts of a step. *)

\* One worker moves, and the row and the thread change only under its claim.
LEMMA WorkerMoves ==
    ASSUME ReplyInv, NEW w \in Workers, NEW step \in Steps, NEW copy \in Copies,
           pc' = [pc EXCEPT ![w] = step], mine' = [mine EXCEPT ![w] = copy],
           step = "idle" <=> copy.token = 0,
           copy.token \in {0, mine[w].token} \/ \A v \in Workers : mine[v].token # copy.token,
           copy.attempts <= refusals' \/ refusals' = MaxAttempts,
           reply' \in Replies, slack' \in Shows, posted' \in 0 .. MaxStreams,
           refusals' \in 0 .. MaxAttempts, refusals' >= refusals, crashes' \in 0 .. MaxCrashes,
           log' = log,
           \/ UNCHANGED <<reply, slack>>
           \/ Owns(w) /\ reply'.token \in {reply.token, 0}
           \/ reply'.token = copy.token /\ \A v \in Workers : mine[v].token # copy.token,
           RowIsSound', Current(w)' => HolderKnows(w)'
    PROVE  ReplyInv'
<1>0. /\ reply \in Replies /\ refusals \in 0 .. MaxAttempts /\ MaxAttempts \in Nat
      /\ pc \in [Workers -> Steps] /\ mine \in [Workers -> Copies] /\ LogIsSound /\ TokensDiffer
      /\ log \in Seq(Kinds) /\ RowIsSound /\ \A v \in Workers : WorkerIsSound(v)
  BY TypeFacts, LimitFacts
<1>1. /\ pc' \in [Workers -> Steps] /\ mine' \in [Workers -> Copies]
      /\ pc'[w] = step /\ mine'[w] = copy
      /\ \A v \in Workers \ {w} : pc'[v] = pc[v] /\ mine'[v] = mine[v]
  BY <1>0
<1>2. TypeOK'
  BY <1>1 DEF ReplyInv, TypeOK, Replies, Shows, Message, Copies, Steps
<1>3. LogIsSound'
  BY <1>0 DEF LogIsSound
<1>4. TokensDiffer'
  BY <1>0, <1>1 DEF TokensDiffer
<1>5. WorkerIsSound(w)'
  BY <1>1 DEF WorkerIsSound
<1>6. ASSUME NEW v \in Workers \ {w} PROVE WorkerIsSound(v)'
  <2>1. WorkerIsSound(v) /\ mine[v] \in Copies /\ mine[v].attempts \in Nat
    BY <1>0, LimitFacts DEF Copies
  <2>2. CASE UNCHANGED <<reply, slack>>
    BY <1>0, <1>1, <2>1, <2>2 DEF WorkerIsSound, Current, HolderKnows, Displays, Ended
  <2>3. CASE \/ Owns(w) /\ reply'.token \in {reply.token, 0}
             \/ reply'.token = copy.token /\ \A u \in Workers : mine[u].token # copy.token
    <3>1. ~Current(v)'
      BY <1>0, <1>1, <2>3 DEF Current, Owns, TokensDiffer, RowIsSound
    <3> QED
      BY <1>0, <1>1, <2>1, <3>1 DEF WorkerIsSound
  <2> QED
    BY <2>2, <2>3
<1> QED
  BY <1>2, <1>3, <1>4, <1>5, <1>6 DEF ReplyInv

\* One worker returns, with the row left as it is, settled or given back.
LEMMA WorkerReturns ==
    ASSUME ReplyInv, NEW w \in Workers, Returns(w), UNCHANGED <<log, slack, posted>>,
           refusals' \in 0 .. MaxAttempts, refusals' >= refusals, crashes' \in 0 .. MaxCrashes,
           \/ UNCHANGED reply
           \/ Owns(w) /\ reply' \in Replies /\ reply'.token \in {reply.token, 0} /\ RowIsSound'
    PROVE  ReplyInv'
<1>0. /\ reply \in Replies /\ slack \in Shows /\ posted \in 0 .. MaxStreams
      /\ refusals \in 0 .. MaxAttempts /\ MaxAttempts \in Nat /\ RowIsSound
  BY TypeFacts, LimitFacts
<1>1. /\ NoReply \in Copies /\ NoReply.token = 0 /\ NoReply.attempts <= refusals'
      /\ pc' = [pc EXCEPT ![w] = "idle"] /\ mine' = [mine EXCEPT ![w] = NoReply]
  BY <1>0, NoReplyFacts DEF Returns, Goes
<1>2. RowIsSound'
  BY <1>0, RowSame
<1>3. mine'[w].token = 0
  BY <1>1, TypeFacts
<1>4. ~Current(w)'
  BY <1>2, <1>3 DEF Current, RowIsSound
<1> QED
  BY <1>0, <1>1, <1>2, <1>4, WorkerMoves DEF Steps

-----------------------------------------------------------------------------
(* Each action. *)

LEMMA ReplyInvInit == Init => ReplyInv
<1> SUFFICES ASSUME Init PROVE ReplyInv
  OBVIOUS
<1> USE LimitFacts DEF Init
<1>1. TypeOK
  <2>1. log \in UNION {[1 .. n -> Kinds] : n \in 0 .. MaxEvents}
    <3>1. <<>> \in [1 .. 0 -> Kinds] /\ 0 \in 0 .. MaxEvents
      OBVIOUS
    <3> QED
      BY <3>1
  <2>2. reply \in Replies
    BY DEF Replies
  <2>3. slack \in Shows
    BY DEF Shows, Message, NoMessage
  <2>4. mine \in [Workers -> Copies]
    BY NoReplyFacts
  <2>5. /\ pc \in [Workers -> Steps] /\ posted \in 0 .. MaxStreams /\ refusals \in 0 .. MaxAttempts
        /\ crashes \in 0 .. MaxCrashes
    BY DEF Steps
  <2> HIDE DEF Init
  <2> QED
    BY <2>1, <2>2, <2>3, <2>4, <2>5 DEF TypeOK, Replies, Shows, Message, Copies, Steps
<1>2. LogIsSound
  <2>1. <<>> \in Seq(Kinds) /\ Len(<<>>) = 0
    OBVIOUS
  <2> QED
    BY <2>1 DEF LogIsSound
<1>3. RowIsSound
  BY DEF RowIsSound, CursorIsShown, DeliveredIsComplete, OneMessageSpeaks, GivesUpLate, NoMessage
<1>4. TokensDiffer /\ \A w \in Workers : WorkerIsSound(w)
  BY DEF TokensDiffer, WorkerIsSound, Current, NoReply
<1> QED
  BY <1>1, <1>2, <1>3, <1>4 DEF ReplyInv

\* Events only follow events that are no ending.
LEMMA EventKeepsInv == ReplyInv /\ EventAppears => ReplyInv'
<1> SUFFICES ASSUME ReplyInv, EventAppears PROVE ReplyInv'
  OBVIOUS
<1>1. PICK k \in Kinds : log' = Append(log, k)
  BY DEF EventAppears
<1>2. /\ log \in Seq(Kinds) /\ Len(log) \in Nat /\ Len(log) < MaxEvents /\ MaxEvents \in Nat
      /\ ~Ended /\ LogIsSound /\ RowIsSound
      /\ UNCHANGED <<reply, slack, posted, pc, mine, refusals, crashes>>
      /\ reply \in Replies /\ mine \in [Workers -> Copies]
  BY TypeFacts, LimitFacts DEF EventAppears
<1>3. /\ log' \in Seq(Kinds) /\ Len(log') = Len(log) + 1
      /\ \A n \in 1 .. Len(log) : log'[n] = log[n]
  BY <1>1, <1>2
<1>4. LogIsSound'
  <2>1. \A n \in 1 .. Len(log) : log[n] # "end"
    <3> SUFFICES ASSUME NEW n \in 1 .. Len(log), log[n] = "end" PROVE FALSE
      OBVIOUS
    <3>1. n = Len(log)
      BY <1>2 DEF LogIsSound
    <3> QED
      BY <1>2, <3>1 DEF Ended
  <2> QED
    BY <1>2, <1>3, <2>1 DEF LogIsSound
<1>5. TypeOK'
  <2>1. log' \in [1 .. Len(log') -> Kinds] /\ Len(log') \in 0 .. MaxEvents
    BY <1>2, <1>3
  <2> QED
    BY <1>2, <2>1 DEF ReplyInv, TypeOK
<1>6. RowIsSound'
  BY <1>2, <1>3 DEF RowIsSound, CursorIsShown, DeliveredIsComplete, OneMessageSpeaks, Displays,
     GivesUpLate, Replies
<1>7. \A w \in Workers : WorkerIsSound(w)'
  <2> SUFFICES ASSUME NEW w \in Workers PROVE WorkerIsSound(w)'
    OBVIOUS
  <2>1. WorkerIsSound(w) /\ mine[w].upto \in Nat
    BY <1>2, TypeFacts DEF Copies
  <2> QED
    BY <1>2, <1>3, <2>1 DEF WorkerIsSound, Current, HolderKnows, Displays
<1> QED
  BY <1>2, <1>4, <1>5, <1>6, <1>7 DEF ReplyInv, TokensDiffer

\* The row is owed, or its lease runs out by a tick.
LEMMA RowKeepsInv == ReplyInv /\ (OweSlackReply \/ Tick) => ReplyInv'
<1> SUFFICES ASSUME ReplyInv, OweSlackReply \/ Tick PROVE ReplyInv'
  OBVIOUS
<1>1. /\ reply \in Replies /\ RowIsSound /\ LeaseFor \in Nat
      /\ UNCHANGED <<log, slack, posted, pc, mine, refusals, crashes>>
  BY TypeFacts, LimitFacts DEF OweSlackReply, Tick, external
<1>2. /\ reply' \in Replies /\ reply'.token = reply.token /\ reply'.stream = reply.stream
      /\ reply'.last = reply.last /\ reply'.attempts = reply.attempts
      /\ \/ reply'.status = reply.status /\ (reply.status # "delivering" => reply'.ttl = 0)
         \/ reply.status = "absent" /\ reply'.status = "pending" /\ reply'.ttl = 0
  <2>1. CASE OweSlackReply
    BY <1>1, <2>1 DEF OweSlackReply, Replies, RowIsSound
  <2>2. CASE Tick
    <3>1. reply.ttl - 1 \in 0 .. LeaseFor /\ reply' = [reply EXCEPT !.ttl = reply.ttl - 1]
      BY <1>1, <2>2 DEF Tick, Replies
    <3>2. reply.status = "delivering"
      BY <1>1, <2>2 DEF Tick, RowIsSound, Replies
    <3> QED
      BY <1>1, <3>1, <3>2 DEF Replies
  <2> QED
    BY <2>1, <2>2
<1>3. RowIsSound'
  BY <1>1, <1>2 DEF RowIsSound, CursorIsShown, DeliveredIsComplete, OneMessageSpeaks, Displays,
     GivesUpLate, Ended
<1>4. \A w \in Workers : WorkerIsSound(w)'
  BY <1>1, <1>2 DEF ReplyInv, WorkerIsSound, Current, HolderKnows, Displays, Ended
<1>5. TypeOK'
  BY <1>1, <1>2 DEF ReplyInv, TypeOK, Replies
<1> QED
  BY <1>1, <1>3, <1>4, <1>5 DEF ReplyInv, LogIsSound, TokensDiffer

\* A claim copies the row as it is.
LEMMA ClaimKeepsInv ==
    ASSUME ReplyInv, NEW w \in Workers, ClaimSlackReply(w)
    PROVE  ReplyInv'
<1>0. /\ reply \in Replies /\ RowIsSound /\ slack \in Shows /\ posted \in 0 .. MaxStreams
      /\ refusals \in 0 .. MaxAttempts /\ crashes \in 0 .. MaxCrashes
      /\ MaxAttempts \in Nat /\ LeaseFor \in Nat /\ MaxEvents \in Nat
  BY TypeFacts, LimitFacts
<1> DEFINE row == [reply EXCEPT !.status = "delivering", !.token = FreshToken, !.ttl = LeaseFor]
           copy == [token |-> FreshToken, last |-> reply.last, upto |-> reply.last,
                    attempts |-> reply.attempts, stream |-> reply.stream]
<1>1. /\ reply.status \in {"pending", "delivering"} /\ reply' = row
      /\ mine' = [mine EXCEPT ![w] = copy] /\ pc' = [pc EXCEPT ![w] = "claimed"]
      /\ UNCHANGED <<log, slack, posted, refusals, crashes>>
  BY DEF ClaimSlackReply, Goes, external
<1>2. FreshToken \in Tokens /\ FreshToken # 0 /\ \A v \in Workers : mine[v].token # FreshToken
  BY TokenFacts
<1>3. /\ row \in Replies /\ row.status = "delivering" /\ row.token = FreshToken
      /\ row.last = reply.last /\ row.stream = reply.stream /\ row.attempts = reply.attempts
  <2>1. LeaseFor \in 0 .. LeaseFor /\ FreshToken \in Tokens \cup {0}
    BY <1>0, <1>2
  <2> QED
    BY <1>0, <2>1 DEF Replies
<1>4. /\ copy \in Copies /\ copy.token = FreshToken /\ copy.last = reply.last
      /\ copy.stream = reply.stream /\ copy.attempts = reply.attempts
  BY <1>0, <1>2 DEF Replies, Copies
<1> HIDE DEF row, copy
<1>5. RowIsSound'
  BY <1>0, <1>1, <1>2, <1>3 DEF RowIsSound, CursorIsShown, DeliveredIsComplete, OneMessageSpeaks, Displays,
     GivesUpLate
<1>6. pc'[w] = "claimed" /\ mine'[w] = copy
  BY <1>1, TypeFacts
<1>7. HolderKnows(w)'
  BY <1>0, <1>1, <1>3, <1>4, <1>6 DEF HolderKnows, Replies
<1>9. /\ refusals' \in 0 .. MaxAttempts /\ refusals' >= refusals /\ "claimed" \in Steps
      /\ reply'.token = copy.token /\ copy.token # 0 /\ log' = log
      /\ posted' \in 0 .. MaxStreams /\ crashes' \in 0 .. MaxCrashes
      /\ copy.attempts <= refusals' \/ refusals' = MaxAttempts
  BY <1>0, <1>1, <1>2, <1>3, <1>4 DEF Steps, RowIsSound
<1>10. reply' \in Replies /\ slack' \in Shows
  BY <1>0, <1>1, <1>3
<1> QED
  BY <1>1, <1>2, <1>4, <1>5, <1>7, <1>9, <1>10, WorkerMoves

\* A worker that acts in time holds the claim, and knows the row.
LEMMA InTimeFacts ==
    ASSUME ReplyInv, NEW w \in Workers, Owns(w)
    PROVE  /\ HolderKnows(w) /\ pc[w] # "idle" /\ mine[w].token # 0
           /\ reply.status = "delivering" /\ reply.token # 0 /\ reply.token = mine[w].token
BY DEF Owns, ReplyInv, WorkerIsSound, Current, RowIsSound

\* A worker goes on under its claim, with what it did to the thread.
LEMMA HolderGoesOn ==
    ASSUME ReplyInv, NEW w \in Workers, Owns(w), NEW step \in Steps \ {"idle"}, NEW copy \in Copies,
           pc' = [pc EXCEPT ![w] = step], mine' = [mine EXCEPT ![w] = copy],
           copy.token = mine[w].token, copy.attempts = mine[w].attempts,
           UNCHANGED <<log, reply, refusals, crashes>>, slack' \in Shows, posted' \in 0 .. MaxStreams,
           RowIsSound', HolderKnows(w)'
    PROVE  ReplyInv'
<1>1. /\ reply \in Replies /\ refusals \in 0 .. MaxAttempts /\ crashes \in 0 .. MaxCrashes
      /\ MaxAttempts \in Nat /\ WorkerIsSound(w)
  BY TypeFacts, LimitFacts
<1>2. mine[w].token # 0
  BY InTimeFacts
<1>3. copy.attempts <= refusals' \/ refusals' = MaxAttempts
  BY <1>1 DEF WorkerIsSound
<1>4. /\ step \in Steps /\ step # "idle" /\ copy.token # 0 /\ log' = log
      /\ reply' = reply /\ reply'.token \in {reply.token, 0}
      /\ reply' \in Replies /\ refusals' \in 0 .. MaxAttempts /\ refusals' >= refusals
      /\ crashes' \in 0 .. MaxCrashes
  BY <1>1, <1>2
<1> QED
  BY <1>3, <1>4, WorkerMoves

LEMMA ReadKeepsInv ==
    ASSUME ReplyInv, NEW w \in Workers, ReadEvents(w)
    PROVE  ReplyInv'
<1> DEFINE last == mine[w].last
           upto == Min({Len(log), last + PageSize})
           finished == last = upto /\ last > 0 /\ mine[w].stream # 0 /\ log[last] = "end"
           next == CASE finished -> "closing"
                     [] ~finished /\ Held(last, upto) -> "releasing"
                     [] ~Held(last, upto) /\ mine[w].stream = 0 -> "starting"
                     [] ~Held(last, upto) /\ mine[w].stream # 0 -> "sending"
           read == [mine[w] EXCEPT !.upto = upto]
<1>0. /\ reply \in Replies /\ slack \in Shows /\ posted \in 0 .. MaxStreams
      /\ refusals \in 0 .. MaxAttempts /\ MaxAttempts \in Nat
      /\ pc \in [Workers -> Steps] /\ mine \in [Workers -> Copies] /\ mine[w] \in Copies
      /\ RowIsSound /\ log \in Seq(Kinds) /\ Len(log) \in 0 .. MaxEvents /\ MaxEvents \in Nat
      /\ PageSize \in Nat /\ PageSize >= 1 /\ last \in Nat
  BY TypeFacts, LimitFacts DEF Copies
<1>1. /\ pc[w] = "claimed" /\ Owns(w) /\ HolderKnows(w)
      /\ UNCHANGED <<log, slack, posted, reply, refusals, crashes>>
  BY InTimeFacts DEF ReadEvents, InTime, external
<1>2. RowIsSound'
  BY <1>0, <1>1, RowSame
<1>5. last = reply.last /\ mine[w].stream = reply.stream /\ last <= Len(log)
  BY <1>0, <1>1 DEF HolderKnows, RowIsSound
<1>6. upto = IF Len(log) <= last + PageSize THEN Len(log) ELSE last + PageSize
  BY <1>0, MinOfTwo
<1>7. upto \in 0 .. MaxEvents /\ last <= upto /\ upto <= Len(log) /\ (last = upto => last = Len(log))
  BY <1>0, <1>5, <1>6
<1>3. /\ read \in Copies /\ read.token = mine[w].token /\ read.attempts = mine[w].attempts
      /\ read.last = mine[w].last /\ read.stream = mine[w].stream /\ read.upto = upto
  BY <1>0, <1>7 DEF Copies
<1>4. CASE Goes(w, "retrying") /\ UNCHANGED mine
  <2>1. pc'[w] = "retrying" /\ mine' = [mine EXCEPT ![w] = mine[w]]
    BY <1>0, <1>4 DEF Goes
  <2>2. HolderKnows(w)'
    BY <1>1, <1>4, <2>1 DEF HolderKnows
  <2> QED
    BY <1>0, <1>1, <1>2, <1>4, <2>1, <2>2, HolderGoesOn DEF Goes, Steps
<1>8. CASE Goes(w, next) /\ mine' = [mine EXCEPT ![w].upto = upto]
  <2>1. mine' = [mine EXCEPT ![w] = read] /\ mine'[w] = read
    BY <1>0, <1>8
  <2>2. finished => Held(last, upto)
    BY <1>0 DEF Held
  <2>3. /\ next \in {"closing", "releasing", "starting", "sending"}
        /\ next = "closing" => finished
        /\ next = "starting" => mine[w].stream = 0
        /\ next = "sending" => mine[w].stream # 0
    BY <2>2
  <2>4. finished => Ended /\ last = Len(log)
    BY <1>0, <1>7 DEF Ended
  <2>9. finished => mine[w].stream # 0
    OBVIOUS
  <2> HIDE DEF next, finished, read, upto
  <2>7. pc'[w] = next /\ pc' = [pc EXCEPT ![w] = next]
    BY <1>0, <1>8 DEF Goes
  <2>8. HolderKnows(w)'
    <3>1. /\ mine'[w].last = reply'.last /\ mine'[w].stream = reply'.stream
          /\ mine'[w].last <= mine'[w].upto /\ mine'[w].upto <= Len(log')
          /\ reply'.attempts <= mine'[w].attempts
      BY <1>1, <1>3, <1>5, <1>7, <2>1 DEF HolderKnows
    <3>2. /\ next = "starting" => reply'.stream = 0
          /\ next \in {"sending", "closing"} => mine'[w].stream # 0
      BY <1>1, <1>3, <1>5, <2>1, <2>3, <2>9
    <3>3. next = "closing" => Ended' /\ reply'.last = Len(log')
      BY <1>1, <1>5, <2>3, <2>4 DEF Ended
    <3> QED
      BY <1>0, <2>3, <2>7, <3>1, <3>2, <3>3 DEF HolderKnows
  <2> QED
    BY <1>0, <1>1, <1>2, <1>3, <2>1, <2>3, <2>7, <2>8, HolderGoesOn DEF Steps
<1> QED
  BY <1>4, <1>8 DEF ReadEvents

\* A message is opened before the row has one, so the cursor is where it was.
LEMMA StartKeepsInv ==
    ASSUME ReplyInv, NEW w \in Workers, StartStream(w)
    PROVE  ReplyInv'
<1>0. /\ reply \in Replies /\ slack \in Shows /\ posted \in 0 .. MaxStreams
      /\ refusals \in 0 .. MaxAttempts /\ MaxAttempts \in Nat /\ MaxStreams \in Nat
      /\ pc \in [Workers -> Steps] /\ mine \in [Workers -> Copies] /\ mine[w] \in Copies
      /\ RowIsSound
  BY TypeFacts, LimitFacts
<1>1. /\ pc[w] = "starting" /\ Owns(w) /\ HolderKnows(w) /\ reply.status = "delivering"
      /\ UNCHANGED <<log, reply, refusals, crashes>>
  BY InTimeFacts DEF StartStream, InTime
<1>2. reply.stream = 0 /\ reply.last = 0 /\ \A s \in Streams : slack[s].shown = {}
  <2>1. reply.stream = 0 /\ reply.last = 0
    BY <1>0, <1>1 DEF HolderKnows, RowIsSound, CursorIsShown, Replies
  <2> QED
    BY <1>0, <2>1 DEF RowIsSound, OneMessageSpeaks, Streams
<1>4. PICK next \in {"binding", "retrying"} : /\ pc' = [pc EXCEPT ![w] = next]
                                              /\ next = "binding" => posted < MaxStreams
                                              /\ mine' = IF next = "binding"
                                                         THEN [mine EXCEPT ![w].stream = posted + 1] ELSE mine
  BY DEF StartStream, Goes
<1>5. slack' \in Shows /\ posted' \in 0 .. MaxStreams /\ \A s \in Streams : slack'[s].shown = {}
  <2>1. CASE UNCHANGED <<slack, posted>>
    BY <1>0, <1>2, <2>1
  <2>2. ASSUME NEW native \in BOOLEAN, posted < MaxStreams, posted' = posted + 1,
               slack' = [slack EXCEPT ![posted + 1] =
                             [NoMessage EXCEPT !.open = TRUE, !.native = native]]
        PROVE  slack' \in Shows /\ posted' \in 0 .. MaxStreams
               /\ \A s \in Streams : slack'[s].shown = {}
    <3>1. posted + 1 \in Streams /\ posted + 1 \in 0 .. MaxStreams
      BY <1>0, <2>2 DEF Streams
    <3> DEFINE m == [NoMessage EXCEPT !.open = TRUE, !.native = native]
    <3>2. m \in Message /\ m.shown = {}
      BY DEF NoMessage, Message
    <3> HIDE DEF m
    <3>3. slack' \in Shows
      BY <1>0, <2>2, <3>1, <3>2, Zenon DEF Shows, m
    <3>4. slack' = [slack EXCEPT ![posted + 1] = m]
      BY <2>2 DEF m
    <3>5. \A s \in Streams : slack'[s].shown = {}
      BY <1>0, <1>2, <3>1, <3>2, <3>4 DEF Shows
    <3> QED
      BY <2>2, <3>1, <3>3, <3>5
  <2> QED
    BY <2>1, <2>2 DEF StartStream
<1>3. RowIsSound'
  BY <1>0, <1>1, <1>2, <1>5 DEF RowIsSound, CursorIsShown, DeliveredIsComplete, OneMessageSpeaks,
     GivesUpLate
<1> DEFINE copy == IF next = "binding" THEN [mine[w] EXCEPT !.stream = posted + 1] ELSE mine[w]
<1>6. /\ copy \in Copies /\ copy.token = mine[w].token /\ copy.attempts = mine[w].attempts
      /\ copy.last = mine[w].last /\ copy.upto = mine[w].upto
      /\ next = "binding" => copy.stream # 0
  BY <1>0, <1>4 DEF Copies
<1>7. mine' = [mine EXCEPT ![w] = copy] /\ mine'[w] = copy /\ pc'[w] = next
  BY <1>0, <1>4
<1> HIDE DEF copy
<1>8. HolderKnows(w)'
  BY <1>1, <1>2, <1>4, <1>6, <1>7 DEF HolderKnows
<1> QED
  BY <1>1, <1>3, <1>4, <1>5, <1>6, <1>7, <1>8, HolderGoesOn DEF Steps

\* The row takes the worker's message, and the cursor what the thread shows of it.
LEMMA AdvanceKeepsInv ==
    ASSUME ReplyInv, NEW w \in Workers, pc[w] \in {"binding", "advancing"},
           NEW upto \in 0 .. MaxEvents, NEW next \in {"sending", "closing", "releasing"},
           AdvanceSlackReply(w, upto, next), UNCHANGED <<log, slack, posted, refusals, crashes>>,
           Owns(w) => /\ mine[w].last <= upto /\ upto <= Len(log)
                      /\ upto > 0 => Displays(mine[w].stream, 0, upto),
           next = "sending" => upto = mine[w].last,
           Owns(w) /\ next = "closing" => Ended /\ upto = Len(log)
    PROVE  ReplyInv'
<1>0. /\ reply \in Replies /\ slack \in Shows /\ posted \in 0 .. MaxStreams
      /\ refusals \in 0 .. MaxAttempts /\ crashes \in 0 .. MaxCrashes
      /\ MaxAttempts \in Nat /\ MaxAttempts >= 1
      /\ pc \in [Workers -> Steps] /\ mine \in [Workers -> Copies] /\ mine[w] \in Copies
      /\ RowIsSound /\ Len(log) \in 0 .. MaxEvents /\ MaxEvents \in Nat /\ MaxStreams \in Nat
  BY TypeFacts, LimitFacts
<1>1. ASSUME Returns(w), UNCHANGED reply PROVE ReplyInv'
  BY <1>0, <1>1, WorkerReturns
<1>2. ASSUME InTime(w),
             reply' = [reply EXCEPT !.stream = IF @ = 0 THEN mine[w].stream ELSE @,
                                    !.last = Max({@, upto}),
                                    !.attempts = 0],
             (Goes(w, next) /\ UNCHANGED mine) \/ Returns(w)
      PROVE  ReplyInv'
  <2>1. Owns(w) /\ HolderKnows(w) /\ mine[w].token # 0 /\ reply.status = "delivering"
    BY <1>2, InTimeFacts DEF InTime
  <2>2. /\ mine[w].last = reply.last /\ mine[w].stream # 0
        /\ reply.stream = 0 \/ reply.stream = mine[w].stream
        /\ mine[w].stream \in 0 .. MaxStreams /\ reply.last \in Nat
    BY <1>0, <2>1 DEF HolderKnows, Replies, Copies
  <2>3. Max({reply.last, upto}) = upto
    BY <1>0, <2>1, <2>2, MaxFacts
  <2>4. reply' = [reply EXCEPT !.stream = mine[w].stream, !.last = upto, !.attempts = 0]
    BY <1>2, <2>2, <2>3
  <2>5. /\ reply' \in Replies /\ reply'.stream = mine[w].stream /\ reply'.last = upto
        /\ reply'.attempts = 0 /\ reply'.status = "delivering" /\ reply'.token = reply.token
    <3>1. 0 \in 0 .. MaxAttempts
      BY <1>0
    <3> QED
      BY <1>0, <2>1, <2>2, <2>4, <3>1 DEF Replies
  <2>6. RowIsSound'
    <3>1. CursorIsShown'
      BY <1>0, <2>1, <2>2, <2>5 DEF CursorIsShown, Displays
    <3>2. OneMessageSpeaks'
      BY <1>0, <2>2, <2>5 DEF RowIsSound, OneMessageSpeaks, Streams
    <3> QED
      BY <1>0, <2>1, <2>5, <3>1, <3>2 DEF RowIsSound, DeliveredIsComplete, GivesUpLate
  <2>7. CASE Returns(w)
    BY <1>0, <2>1, <2>5, <2>6, <2>7, WorkerReturns
  <2>8. CASE Goes(w, next) /\ UNCHANGED mine
    <3>1. /\ pc' = [pc EXCEPT ![w] = next] /\ pc'[w] = next /\ mine' = [mine EXCEPT ![w] = mine[w]]
          /\ next # "idle" /\ next \in Steps
      BY <1>0, <2>8 DEF Goes, Steps
    <3>2. HolderKnows(w)'
      <4>1. /\ reply'.attempts <= mine'[w].attempts /\ mine'[w].stream = reply'.stream
            /\ mine'[w].stream # 0
            /\ next = "sending" => mine'[w].last = reply'.last
        BY <1>0, <2>2, <2>5, <2>8 DEF Copies
      <4>2. next = "sending" => mine'[w].last <= mine'[w].upto /\ mine'[w].upto <= Len(log')
        BY <2>1, <2>8 DEF HolderKnows
      <4>3. next = "closing" => Ended' /\ reply'.last = Len(log')
        BY <2>1, <2>5 DEF Ended
      <4>4. pc'[w] \in {"sending", "closing", "releasing"}
        BY <3>1
      <4> QED
        BY <3>1, <4>1, <4>2, <4>3, <4>4 DEF HolderKnows
    <3>3. mine[w].attempts <= refusals' \/ refusals' = MaxAttempts
      BY TypeFacts DEF WorkerIsSound
    <3>4. /\ mine[w].token # 0 /\ reply'.token \in {reply.token, 0} /\ refusals' \in 0 .. MaxAttempts
          /\ refusals' >= refusals /\ posted' \in 0 .. MaxStreams /\ crashes' \in 0 .. MaxCrashes
          /\ slack' \in Shows /\ log' = log
      BY <1>0, <2>1, <2>5
    <3> QED
      BY <1>0, <2>1, <2>5, <2>6, <3>1, <3>2, <3>3, <3>4, WorkerMoves
  <2> QED
    BY <1>2, <2>7, <2>8
<1> QED
  BY <1>1, <1>2 DEF AdvanceSlackReply

\* The row is given the message with the cursor where it was.
LEMMA BindKeepsInv ==
    ASSUME ReplyInv, NEW w \in Workers, BindStream(w)
    PROVE  ReplyInv'
<1>0. /\ reply \in Replies /\ mine[w] \in Copies /\ RowIsSound /\ Len(log) \in Nat
      /\ MaxEvents \in Nat
  BY TypeFacts, LimitFacts
<1>1. /\ pc[w] = "binding" /\ AdvanceSlackReply(w, mine[w].last, "sending")
      /\ UNCHANGED <<log, slack, posted, refusals, crashes>>
  BY DEF BindStream, external
<1>2. ASSUME Owns(w)
      PROVE  mine[w].last <= Len(log) /\ mine[w].last = 0
  BY <1>0, <1>1, <1>2, InTimeFacts DEF HolderKnows, RowIsSound, CursorIsShown, Replies
<1>3. mine[w].last \in 0 .. MaxEvents /\ mine[w].last <= mine[w].last
  BY <1>0 DEF Copies
<1> QED
  BY <1>1, <1>2, <1>3, AdvanceKeepsInv

\* What was sent is shown, and the ending is the last event there is.
LEMMA CursorKeepsInv ==
    ASSUME ReplyInv, NEW w \in Workers, AdvanceCursor(w)
    PROVE  ReplyInv'
<1>0. /\ reply \in Replies /\ mine[w] \in Copies /\ RowIsSound /\ Len(log) \in Nat /\ LogIsSound
      /\ MaxEvents \in Nat
  BY TypeFacts, LimitFacts
<1> DEFINE next == IF Done(mine[w].last, mine[w].upto) THEN "closing" ELSE "releasing"
<1>1. /\ pc[w] = "advancing" /\ AdvanceSlackReply(w, mine[w].upto, next)
      /\ UNCHANGED <<log, slack, posted, refusals, crashes>>
  BY DEF AdvanceCursor, external
<1>2. mine[w].upto \in 0 .. MaxEvents /\ mine[w].upto \in Nat /\ mine[w].last \in Nat
  BY <1>0 DEF Copies
<1>3. ASSUME Owns(w)
      PROVE  /\ mine[w].last <= mine[w].upto /\ mine[w].upto <= Len(log)
             /\ Displays(mine[w].stream, 0, mine[w].upto)
             /\ next = "closing" => Ended /\ mine[w].upto = Len(log)
  <2>1. HolderKnows(w)
    BY <1>3, InTimeFacts
  <2>2. /\ mine[w].last <= mine[w].upto /\ mine[w].upto <= Len(log)
        /\ mine[w].last = reply.last /\ mine[w].stream = reply.stream
        /\ Displays(mine[w].stream, mine[w].last, mine[w].upto)
    BY <1>1, <2>1 DEF HolderKnows
  <2>3. reply.last > 0 => Displays(mine[w].stream, 0, mine[w].last)
    BY <1>0, <2>2 DEF RowIsSound, CursorIsShown
  <2>4. Displays(mine[w].stream, 0, mine[w].upto)
    <3> SUFFICES ASSUME NEW k \in 0 + 1 .. mine[w].upto,
                        slack[mine[w].stream].native \/ k <= RenderLimit
                 PROVE  k \in slack[mine[w].stream].shown
      BY DEF Displays
    <3>1. CASE k <= mine[w].last
      BY <1>2, <2>2, <2>3, <3>1 DEF Displays
    <3>2. CASE k > mine[w].last
      BY <1>2, <2>2, <3>2 DEF Displays
    <3> QED
      BY <1>2, <3>1, <3>2
  <2>5. ASSUME Done(mine[w].last, mine[w].upto) PROVE Ended /\ mine[w].upto = Len(log)
    <3>1. PICK k \in mine[w].last + 1 .. mine[w].upto : log[k] = "end"
      BY <2>5 DEF Done
    <3>2. k = Len(log) /\ k >= 1
      BY <1>0, <1>2, <2>2, <3>1 DEF LogIsSound
    <3> QED
      BY <1>0, <1>2, <2>2, <3>1, <3>2 DEF Ended, LogIsSound
  <2> QED
    BY <2>2, <2>4, <2>5
<1>4. next \in {"sending", "closing", "releasing"} /\ next # "sending"
  OBVIOUS
<1> HIDE DEF next
<1> QED
  BY <1>1, <1>2, <1>3, <1>4, AdvanceKeepsInv

\* Whatever is sent, the thread shows as much of the log as it did, and the batch.
LEMMA SendKeepsInv ==
    ASSUME ReplyInv, NEW w \in Workers, Send(w)
    PROVE  ReplyInv'
<1> DEFINE s == mine[w].stream
           text == IF slack[s].native THEN slack[s].shown \cup (mine[w].last + 1 .. mine[w].upto)
                                      ELSE {k \in 1 .. Len(log) : k <= RenderLimit}
<1>0. /\ reply \in Replies /\ slack \in Shows /\ posted \in 0 .. MaxStreams
      /\ pc \in [Workers -> Steps] /\ mine \in [Workers -> Copies] /\ mine[w] \in Copies
      /\ RowIsSound /\ Len(log) \in 0 .. MaxEvents /\ MaxEvents \in Nat /\ MaxStreams \in Nat
  BY TypeFacts, LimitFacts
<1>1. /\ pc[w] = "sending" /\ Owns(w) /\ HolderKnows(w) /\ reply.status = "delivering"
      /\ UNCHANGED <<log, reply, posted, mine, refusals, crashes>>
  BY InTimeFacts DEF Send, InTime
<1>2. PICK next \in {"advancing", "retrying"} :
         /\ pc' = [pc EXCEPT ![w] = next]
         /\ \/ slack' = [slack EXCEPT ![s].shown = text]
            \/ next = "retrying" /\ slack' = slack
  BY DEF Send, Goes
<1>3. /\ s = reply.stream /\ s \in Streams /\ mine[w].last = reply.last /\ s # 0
      /\ mine[w].last <= mine[w].upto /\ mine[w].upto <= Len(log) /\ reply.last <= Len(log)
      /\ mine[w].last \in Nat /\ mine[w].upto \in Nat
  BY <1>0, <1>1 DEF HolderKnows, Streams, Copies, RowIsSound
<1>4. /\ text \in SUBSET (1 .. MaxEvents)
      /\ \A k \in mine[w].last + 1 .. mine[w].upto : slack[s].native \/ k <= RenderLimit => k \in text
      /\ reply.last > 0 =>
            \A k \in 0 + 1 .. reply.last : slack[s].native \/ k <= RenderLimit => k \in text
  <2>1. slack[s].shown \in SUBSET (1 .. MaxEvents)
    BY <1>0, <1>3 DEF Shows, Message
  <2>2. reply.last > 0 =>
           \A k \in 0 + 1 .. reply.last : slack[s].native \/ k <= RenderLimit => k \in slack[s].shown
    BY <1>0, <1>3 DEF RowIsSound, CursorIsShown, Displays
  <2>3. CASE slack[s].native
    BY <1>0, <1>3, <2>1, <2>2, <2>3
  <2>4. CASE ~slack[s].native
    BY <1>0, <1>3, <2>4
  <2> QED
    BY <2>3, <2>4
<1> HIDE DEF s, text
<1>5. /\ slack' \in Shows /\ slack'[s].native = slack[s].native
      /\ slack' = slack \/ slack'[s].shown = text
      /\ \A t \in Streams \ {s} : slack'[t] = slack[t]
  <2>1. CASE slack' = slack
    BY <1>0, <2>1
  <2>2. CASE slack' = [slack EXCEPT ![s].shown = text]
    <3>1. slack[s] \in Message /\ [slack[s] EXCEPT !.shown = text] \in Message
      BY <1>0, <1>3, <1>4 DEF Shows, Message
    <3>2. slack' = [slack EXCEPT ![s] = [slack[s] EXCEPT !.shown = text]]
      BY <2>2
    <3>3. /\ slack'[s] = [slack[s] EXCEPT !.shown = text]
          /\ \A t \in Streams \ {s} : slack'[t] = slack[t]
      BY <1>0, <1>3, <3>2 DEF Shows
    <3>4. slack' \in Shows
      BY <1>0, <3>1, <3>2, Zenon DEF Shows
    <3> QED
      BY <3>1, <3>3, <3>4 DEF Message
  <2> QED
    BY <1>2, <2>1, <2>2
<1>6. RowIsSound'
  <2>1. CursorIsShown'
    BY <1>0, <1>1, <1>3, <1>4, <1>5 DEF RowIsSound, CursorIsShown, Displays
  <2>2. OneMessageSpeaks'
    BY <1>0, <1>1, <1>3, <1>5 DEF RowIsSound, OneMessageSpeaks
  <2> QED
    BY <1>0, <1>1, <2>1, <2>2 DEF RowIsSound, DeliveredIsComplete, GivesUpLate
<1>7. pc'[w] = next /\ mine' = [mine EXCEPT ![w] = mine[w]]
  BY <1>0, <1>1, <1>2
<1>8. HolderKnows(w)'
  <2>1. CASE next = "retrying"
    BY <1>1, <1>7, <2>1 DEF HolderKnows
  <2>2. CASE next = "advancing"
    <3>1. slack'[s].shown = text
      BY <1>0, <1>2, <1>3, <2>2 DEF Shows, Message
    <3>2. Displays(s, mine[w].last, mine[w].upto)'
      BY <1>1, <1>4, <1>5, <3>1 DEF Displays, s
    <3> QED
      BY <1>1, <1>3, <1>7, <2>2, <3>2 DEF HolderKnows, s
  <2> QED
    BY <2>1, <2>2
<1>9. next \in Steps \ {"idle"} /\ posted' \in 0 .. MaxStreams
  BY <1>0, <1>1 DEF Steps
<1>10. pc' = [pc EXCEPT ![w] = next] /\ UNCHANGED <<log, reply, refusals, crashes>> /\ slack' \in Shows
  BY <1>1, <1>2, <1>5
<1> QED
  BY <1>0, <1>1, <1>6, <1>7, <1>8, <1>9, <1>10, HolderGoesOn

\* A message that is closed shows what it showed.
LEMMA StopKeepsInv ==
    ASSUME ReplyInv, NEW w \in Workers, StopStream(w)
    PROVE  ReplyInv'
<1> DEFINE s == mine[w].stream
<1>0. /\ reply \in Replies /\ slack \in Shows /\ posted \in 0 .. MaxStreams
      /\ pc \in [Workers -> Steps] /\ mine \in [Workers -> Copies] /\ mine[w] \in Copies
      /\ RowIsSound /\ MaxStreams \in Nat
  BY TypeFacts, LimitFacts
<1>1. /\ pc[w] = "closing" /\ Owns(w) /\ HolderKnows(w) /\ reply.status = "delivering"
      /\ UNCHANGED <<log, reply, posted, mine, refusals, crashes>>
  BY InTimeFacts DEF StopStream, InTime
<1>2. s = reply.stream /\ s \in Streams /\ s # 0 /\ Ended /\ reply.last = Len(log)
  BY <1>0, <1>1 DEF HolderKnows, Streams, Copies
<1>3. PICK next \in {"completing", "retrying"} :
         /\ pc' = [pc EXCEPT ![w] = next]
         /\ \/ slack' = slack /\ (next = "retrying" \/ ~slack[s].native)
            \/ slack' = [slack EXCEPT ![s].open = FALSE]
            \/ slack' = [slack EXCEPT ![s].denied = TRUE]
  BY DEF StopStream, Goes
<1> HIDE DEF s
<1>4. /\ slack' \in Shows /\ \A t \in Streams : slack'[t].shown = slack[t].shown
      /\ slack'[s].native = slack[s].native
      /\ next = "completing" /\ slack'[s].native => ~slack'[s].open \/ slack'[s].denied
  <2>1. CASE slack' = slack /\ (next = "retrying" \/ ~slack[s].native)
    BY <1>0, <2>1
  <2>2. ASSUME NEW m \in Message, slack' = [slack EXCEPT ![s] = m], m.shown = slack[s].shown,
               m.native = slack[s].native, ~m.open \/ m.denied
        PROVE  /\ slack' \in Shows /\ \A t \in Streams : slack'[t].shown = slack[t].shown
               /\ slack'[s].native = slack[s].native /\ (~slack'[s].open \/ slack'[s].denied)
    <3>1. slack' \in Shows
      BY <1>0, <2>2, Zenon DEF Shows
    <3>2. /\ slack'[s] = m
          /\ \A t \in Streams \ {s} : slack'[t] = slack[t]
      BY <1>0, <1>2, <2>2 DEF Shows
    <3> QED
      BY <2>2, <3>1, <3>2
  <2>3. CASE slack' = [slack EXCEPT ![s].open = FALSE]
    <3>1. /\ [slack[s] EXCEPT !.open = FALSE] \in Message
          /\ [slack[s] EXCEPT !.open = FALSE].shown = slack[s].shown
          /\ [slack[s] EXCEPT !.open = FALSE].native = slack[s].native
          /\ ~[slack[s] EXCEPT !.open = FALSE].open
      BY <1>0, <1>2 DEF Shows, Message
    <3>2. slack' = [slack EXCEPT ![s] = [slack[s] EXCEPT !.open = FALSE]]
      BY <2>3
    <3> QED
      BY <2>2, <3>1, <3>2
  <2>4. CASE slack' = [slack EXCEPT ![s].denied = TRUE]
    <3>1. /\ [slack[s] EXCEPT !.denied = TRUE] \in Message
          /\ [slack[s] EXCEPT !.denied = TRUE].shown = slack[s].shown
          /\ [slack[s] EXCEPT !.denied = TRUE].native = slack[s].native
          /\ [slack[s] EXCEPT !.denied = TRUE].denied
      BY <1>0, <1>2 DEF Shows, Message
    <3>2. slack' = [slack EXCEPT ![s] = [slack[s] EXCEPT !.denied = TRUE]]
      BY <2>4
    <3> QED
      BY <2>2, <3>1, <3>2
  <2> QED
    BY <1>3, <2>1, <2>3, <2>4
<1>5. RowIsSound'
  BY <1>0, <1>1, <1>2, <1>4 DEF RowIsSound, CursorIsShown, DeliveredIsComplete, OneMessageSpeaks, Displays,
     GivesUpLate
<1>6. pc'[w] = next /\ mine' = [mine EXCEPT ![w] = mine[w]]
  BY <1>0, <1>1, <1>3
<1>7. HolderKnows(w)'
  BY <1>1, <1>2, <1>4, <1>6 DEF HolderKnows, Ended, s
<1>8. next \in Steps \ {"idle"} /\ posted' \in 0 .. MaxStreams
  BY <1>0, <1>1 DEF Steps
<1>9. pc' = [pc EXCEPT ![w] = next] /\ UNCHANGED <<log, reply, refusals, crashes>> /\ slack' \in Shows
  BY <1>1, <1>3, <1>4
<1> QED
  BY <1>0, <1>1, <1>5, <1>6, <1>7, <1>8, <1>9, HolderGoesOn

\* The worker lets go of the row, or of its claim only.
LEMMA SettleKeepsInv ==
    ASSUME ReplyInv, NEW w \in Workers,
           CompleteSlackReply(w) \/ ReleaseSlackReply(w) \/ Crash(w)
    PROVE  ReplyInv'
<1>0. /\ reply \in Replies /\ slack \in Shows /\ refusals \in 0 .. MaxAttempts
      /\ crashes \in 0 .. MaxCrashes /\ MaxCrashes \in Nat
      /\ RowIsSound /\ Len(log) \in Nat /\ LeaseFor \in Nat
  BY TypeFacts, LimitFacts
<1>1. /\ Returns(w) /\ UNCHANGED <<log, slack, posted, refusals>> /\ crashes' \in 0 .. MaxCrashes
      /\ refusals' \in 0 .. MaxAttempts /\ refusals' >= refusals
  BY <1>0 DEF CompleteSlackReply, ReleaseSlackReply, Crash, external
<1>2. ASSUME NEW status \in {"delivered", "pending"}, InTime(w),
             reply' = [reply EXCEPT !.status = status, !.token = 0, !.ttl = 0],
             status = "delivered" => pc[w] = "completing"
      PROVE  ReplyInv'
  <2>1. Owns(w) /\ HolderKnows(w) /\ reply.status = "delivering"
    BY <1>2, InTimeFacts DEF InTime
  <2>2. /\ reply' \in Replies /\ reply'.status = status /\ reply'.token = 0 /\ reply'.ttl = 0
        /\ reply'.stream = reply.stream /\ reply'.last = reply.last
        /\ reply'.attempts = reply.attempts
    <3>1. 0 \in 0 .. LeaseFor
      BY <1>0
    <3> QED
      BY <1>0, <1>2, <3>1 DEF Replies
  <2>3. DeliveredIsComplete'
    <3> SUFFICES ASSUME status = "delivered" PROVE DeliveredIsComplete'
      BY <2>2 DEF DeliveredIsComplete
    <3>1. /\ Ended /\ reply.last = Len(log) /\ mine[w].stream = reply.stream
          /\ slack[mine[w].stream].native =>
                ~slack[mine[w].stream].open \/ slack[mine[w].stream].denied
      BY <1>2, <2>1 DEF HolderKnows
    <3>2. Len(log) > 0
      BY <1>0, <3>1, TypeFacts DEF Ended
    <3>3. Displays(reply.stream, 0, Len(log))
      BY <1>0, <3>1, <3>2 DEF RowIsSound, CursorIsShown
    <3> QED
      BY <1>1, <2>2, <3>1, <3>3 DEF DeliveredIsComplete, Displays, Ended
  <2>4. RowIsSound'
    BY <1>0, <1>1, <2>1, <2>2, <2>3 DEF RowIsSound, CursorIsShown, OneMessageSpeaks, Displays, GivesUpLate
  <2> QED
    BY <1>1, <2>1, <2>2, <2>4, WorkerReturns
<1>3. ASSUME UNCHANGED reply PROVE ReplyInv'
  BY <1>1, <1>3, WorkerReturns
<1> QED
  BY <1>2, <1>3 DEF CompleteSlackReply, ReleaseSlackReply, Crash

\* An attempt that was refused or ran out of time is counted, and gives the reply
\* up only if as many have been counted as may be.
LEMMA RetryKeepsInv ==
    ASSUME ReplyInv, NEW w \in Workers, RetrySlackReply(w) \/ SettleTimeout(w)
    PROVE  ReplyInv'
<1>0. /\ reply \in Replies /\ refusals \in 0 .. MaxAttempts /\ mine[w] \in Copies
      /\ crashes \in 0 .. MaxCrashes /\ MaxAttempts \in Nat /\ LeaseFor \in Nat
      /\ RowIsSound /\ WorkerIsSound(w)
  BY TypeFacts, LimitFacts
<1>1. /\ Returns(w) /\ UNCHANGED <<log, slack, posted, crashes>>
      /\ (Owns(w) /\ Retried(w)) \/ UNCHANGED <<reply, refusals>>
  BY DEF RetrySlackReply, SettleTimeout, external, InTime
<1>2. CASE UNCHANGED <<reply, refusals>>
  BY <1>0, <1>1, <1>2, WorkerReturns
<1>3. CASE Owns(w) /\ Retried(w)
  <2> DEFINE status == IF GiveUp(w) THEN "failed" ELSE "pending"
  <2>1. /\ reply' = [reply EXCEPT !.status = status, !.attempts = reply.attempts + 1,
                                  !.token = 0, !.ttl = 0]
        /\ refusals' = IF refusals < MaxAttempts THEN refusals + 1 ELSE refusals
    BY <1>3 DEF Retried
  <2>2. /\ reply.attempts <= mine[w].attempts /\ reply.attempts < MaxAttempts
        /\ reply.attempts \in Nat /\ mine[w].attempts \in Nat /\ reply.status = "delivering"
    BY <1>0, <1>3, InTimeFacts DEF HolderKnows, RowIsSound, Replies, Copies
  <2>3. /\ status \in {"failed", "pending"}
        /\ status = "failed" <=> mine[w].attempts + 1 >= MaxAttempts
    BY DEF GiveUp
  <2> HIDE DEF status
  <2>4. /\ reply' \in Replies /\ reply'.status = status /\ reply'.token = 0 /\ reply'.ttl = 0
        /\ reply'.stream = reply.stream /\ reply'.last = reply.last
        /\ reply'.attempts = reply.attempts + 1
    <3>1. 0 \in 0 .. LeaseFor /\ reply.attempts + 1 \in 0 .. MaxAttempts
      BY <1>0, <2>2
    <3> QED
      BY <1>0, <2>1, <2>3, <3>1 DEF Replies
  <2>5. refusals' \in 0 .. MaxAttempts /\ refusals' >= refusals
    BY <1>0, <2>1
  <2>6. reply'.attempts <= refusals' \/ refusals' = MaxAttempts
    BY <1>0, <2>1, <2>2, <2>4 DEF RowIsSound
  <2>7. GivesUpLate'
    BY <1>0, <2>1, <2>2, <2>3, <2>4 DEF GivesUpLate, WorkerIsSound
  <2>8. status = "pending" => reply'.attempts < MaxAttempts
    BY <1>0, <2>2, <2>3, <2>4
  <2>9. RowIsSound'
    BY <1>0, <1>1, <2>2, <2>3, <2>4, <2>6, <2>7, <2>8
       DEF RowIsSound, CursorIsShown, DeliveredIsComplete, OneMessageSpeaks, Displays, Ended
  <2> QED
    BY <1>0, <1>1, <1>3, <2>4, <2>5, <2>9, WorkerReturns
<1> QED
  BY <1>1, <1>2, <1>3

LEMMA ReplyInvNext == ReplyInv /\ [Next]_vars => ReplyInv'
<1> SUFFICES ASSUME ReplyInv, [Next]_vars PROVE ReplyInv'
  OBVIOUS
<1>1. CASE EventAppears
  BY <1>1, EventKeepsInv
<1>2. CASE OweSlackReply \/ Tick
  BY <1>2, RowKeepsInv
<1>3. ASSUME NEW w \in Workers, ClaimSlackReply(w) \/ Answer(w) \/ Crash(w) PROVE ReplyInv'
  BY <1>3, ClaimKeepsInv, ReadKeepsInv, StartKeepsInv, BindKeepsInv, SendKeepsInv, CursorKeepsInv,
     StopKeepsInv, SettleKeepsInv, RetryKeepsInv, Zenon DEF Answer
<1>4. CASE UNCHANGED vars
  BY <1>4 DEF vars, ReplyInv, TypeOK, LogIsSound, RowIsSound, TokensDiffer, WorkerIsSound, Current,
     HolderKnows, CursorIsShown, DeliveredIsComplete, OneMessageSpeaks, Displays,
     GivesUpLate, Ended
<1> QED
  BY <1>1, <1>2, <1>3, <1>4 DEF Next

-----------------------------------------------------------------------------
(* The theorems. *)

\* The invariant holds: claims are exclusive while they last, and a worker that
\* holds one knows the row as it is (ClaimSlackReplies, withSlackReplyClaim).
THEOREM ReplyInvHolds == Spec => []ReplyInv
BY ReplyInvInit, ReplyInvNext, PTL DEF Spec

\* The cursor never acknowledges an event that the thread was not shown, however
\* many workers, leases and lost answers there are (StartStream, send,
\* AdvanceSlackReply).
THEOREM CursorIsAlwaysShown == Spec => []CursorIsShown
<1>1. ReplyInv => CursorIsShown
  BY DEF ReplyInv, RowIsSound
<1> QED
  BY <1>1, ReplyInvHolds, PTL

\* A reply is recorded as delivered only when the Investigation has ended, its
\* thread shows every event that the message can render, and a native stream was
\* stopped, or Slack answered that it cannot be (finish, StopStream,
\* CompleteSlackReply).
THEOREM DeliveredIsAlwaysComplete == Spec => []DeliveredIsComplete
<1>1. ReplyInv => DeliveredIsComplete
  BY DEF ReplyInv, RowIsSound
<1> QED
  BY <1>1, ReplyInvHolds, PTL

\* Two workers never speak in the thread through two messages: whatever a worker
\* opened that the row does not name stays empty (StartStream, AdvanceSlackReply,
\* send).
THEOREM OneMessageAlwaysSpeaks == Spec => []OneMessageSpeaks
<1>1. ReplyInv => OneMessageSpeaks
  BY DEF ReplyInv, RowIsSound
<1> QED
  BY <1>1, ReplyInvHolds, PTL

\* Rows and workers stay well formed, no worker writes from a stale copy, and no
\* reply is given up before its attempts are used (withSlackReplyClaim, retry).
THEOREM RepliesAreAlwaysConsistent == Spec => []Consistent
<1>1. ReplyInv => Consistent
  <2> SUFFICES ASSUME ReplyInv PROVE Consistent
    OBVIOUS
  <2>1. HolderIsCurrent
    BY DEF ReplyInv, HolderIsCurrent, WorkerIsSound, HolderKnows, Current, Owns
  <2> QED
    BY <2>1 DEF ReplyInv, RowIsSound, Consistent
<1> QED
  BY <1>1, ReplyInvHolds, PTL

=============================================================================
