---------------------------- MODULE EventFollower ----------------------------
(***************************************************************************)
(* The event stream of one Investigation and the clients that follow it.   *)
(* The run appends events, the transaction that ends the Investigation     *)
(* appends the last one.  A client opens a stream after the last event it  *)
(* received; the handler reads pages of events, polls while the            *)
(* Investigation is running and closes the stream once it has ended.       *)
(* Connections break, streams outlive their time and the process is        *)
(* stopped; the client opens another one.                                  *)
(***************************************************************************)
EXTENDS Naturals, Sequences, FiniteSets

CONSTANTS
    Clients,        \* API clients following the Investigation
    PageSize,       \* maxEventsPerRead, maxEventPage
    MaxEvents,      \* bound: events appended
    MaxBreaks       \* bound: streams that end before the Investigation's

ASSUME FollowerAssumption == PageSize \in Nat \ {0} /\ MaxEvents \in Nat /\ MaxBreaks \in Nat

VARIABLES
    log,            \* investigation_event rows by sequence
    followed,       \* the Investigation's status
    follower,       \* the handler that serves each client
    wire,           \* events written to the connection and not yet received
    seen,           \* events each client has received
    breaks          \* streams broken so far

followerVars == <<log, followed, follower, wire, seen, breaks>>

\* Types an earlier version wrote, and this one leaves out of the stream.
Retired == "retired"
TerminalTypes == {"concluded", "failed", "cancelled"}
EventTypes == {"progress", Retired} \cup TerminalTypes

Terminal(n) == log[n] \in TerminalTypes

NoStream ==
    [pc |-> "closed", after |-> 0, found |-> "running", page |-> <<>>, full |-> FALSE]

\* The Investigation may have events of an earlier version.
FollowerInit ==
    /\ log \in {<<>>, <<Retired, Retired>>, <<"progress", Retired>>}
    /\ followed = "running"
    /\ follower = [c \in Clients |-> NoStream]
    /\ wire = [c \in Clients |-> <<>>]
    /\ seen = [c \in Clients |-> <<>>]
    /\ breaks = 0

-----------------------------------------------------------------------------
(* The run. *)

\* Emit: AppendEvent takes the next sequence, while the Investigation runs.
AppendEvent ==
    /\ followed = "running"
    /\ Len(log) < MaxEvents
    /\ log' = Append(log, "progress")
    /\ UNCHANGED <<followed, follower, wire, seen, breaks>>

\* The Investigation ends in one transaction with its last event.
EndInvestigation ==
    /\ followed = "running"
    /\ followed' = "ended"
    /\ \E type \in TerminalTypes : log' = Append(log, type)
    /\ UNCHANGED <<follower, wire, seen, breaks>>

-----------------------------------------------------------------------------
(* The handler. *)

\* The sequences of the events the stream shows.
Visible == {n \in DOMAIN log : log[n] # Retired}

Last(s) == IF s = <<>> THEN 0 ELSE s[Len(s)]

\* ORDER BY sequence LIMIT.
FirstOf(rows, limit) ==
    LET Place(n) == Cardinality({m \in rows : m <= n})
    IN  [k \in 1 .. (IF Cardinality(rows) < limit THEN Cardinality(rows) ELSE limit) |->
            CHOOSE n \in rows : Place(n) = k]

\* Mutant: the types are left out of the page that was read.
EventsAfterLimit(after) == FirstOf({n \in Visible : after < n /\ n <= after + PageSize}, PageSize)

\* Events: the first page of what comes after a sequence.
Events(after) == FirstOf({n \in Visible : after < n}, PageSize)

\* afterSequence: the client names the last event it received.
AfterSequence(c) == Last(seen[c])

\* streamEvents: the handler reads the row and starts to follow.
StreamEvents(c) ==
    /\ follower[c].pc = "closed" /\ wire[c] = <<>>
    /\ follower' = [follower EXCEPT ![c] =
            [NoStream EXCEPT !.pc = "read", !.after = AfterSequence(c), !.found = followed]]
    /\ UNCHANGED <<log, followed, wire, seen, breaks>>

\* follow reads a page.  None, of an Investigation known to have ended: done.
ReadEvents(c) ==
    LET s == follower[c]
        events == Events(s.after)
        pc == CASE events # <<>> -> "write"
                [] events = <<>> /\ s.found # "running" -> "closed"
                [] OTHER -> "status"
    IN  /\ s.pc = "read"
        /\ follower' = [follower EXCEPT ![c].pc = pc, ![c].page = events,
                                        ![c].full = Len(events) = PageSize]
        /\ UNCHANGED <<log, followed, wire, seen, breaks>>

\* Mutant: an Investigation that has ended closes the stream at once.
CloseOnEnded(c) ==
    /\ follower[c].pc = "status"
    /\ follower' = [follower EXCEPT ![c].found = followed,
                                    ![c].pc = IF followed # "running" THEN "closed" ELSE "wait"]
    /\ UNCHANGED <<log, followed, wire, seen, breaks>>

\* No event: is it still running?  If not, events are read once more.
ReadStatus(c) ==
    /\ follower[c].pc = "status"
    /\ follower' = [follower EXCEPT ![c].found = followed,
                                    ![c].pc = IF followed # "running" THEN "read" ELSE "wait"]
    /\ UNCHANGED <<log, followed, wire, seen, breaks>>

\* writeEvent: the next event of the page; the last event of all closes the
\* stream, and a full page is followed by another at once.
WriteEvent(c) ==
    LET s == follower[c]
        n == Head(s.page)
        pc == CASE Terminal(n) -> "closed"
                [] ~Terminal(n) /\ Tail(s.page) # <<>> -> "write"
                [] OTHER -> IF s.full THEN "read" ELSE "wait"
    IN  /\ s.pc = "write"
        /\ wire' = [wire EXCEPT ![c] = Append(@, n)]
        /\ follower' = [follower EXCEPT ![c].pc = pc, ![c].after = n, ![c].page = Tail(s.page)]
        /\ UNCHANGED <<log, followed, seen, breaks>>

\* eventPollInterval.
Poll(c) ==
    /\ follower[c].pc = "wait"
    /\ follower' = [follower EXCEPT ![c].pc = "read"]
    /\ UNCHANGED <<log, followed, wire, seen, breaks>>

\* The stream's lifetime, a stop of the process, an error of the store.
StopFollowing(c) ==
    /\ follower[c].pc \in {"read", "status", "wait"}
    /\ breaks < MaxBreaks /\ breaks' = breaks + 1
    /\ follower' = [follower EXCEPT ![c] = NoStream]
    /\ UNCHANGED <<log, followed, wire, seen>>

-----------------------------------------------------------------------------
(* The connection. *)

\* The client receives what was written, in order.
Receive(c) ==
    /\ wire[c] # <<>>
    /\ seen' = [seen EXCEPT ![c] = Append(@, Head(wire[c]))]
    /\ wire' = [wire EXCEPT ![c] = Tail(@)]
    /\ UNCHANGED <<log, followed, follower, breaks>>

\* The connection breaks, and what was written on it is lost.
Break(c) ==
    /\ follower[c].pc # "closed" \/ wire[c] # <<>>
    /\ breaks < MaxBreaks /\ breaks' = breaks + 1
    /\ follower' = [follower EXCEPT ![c] = NoStream]
    /\ wire' = [wire EXCEPT ![c] = <<>>]
    /\ UNCHANGED <<log, followed, seen>>

HandlerStep(c) ==
    StreamEvents(c) \/ ReadEvents(c) \/ ReadStatus(c) \/ WriteEvent(c) \/ Poll(c)

FollowerNext ==
    \/ AppendEvent \/ EndInvestigation
    \/ \E c \in Clients : HandlerStep(c) \/ StopFollowing(c) \/ Receive(c) \/ Break(c)

FollowerSpec == FollowerInit /\ [][FollowerNext]_followerVars

\* The loop goes on, the network delivers, the client opens another stream, and
\* every Investigation ends (EveryInvestigationEnds of module Investigation).
FollowerFairness ==
    /\ \A c \in Clients : WF_followerVars(HandlerStep(c)) /\ WF_followerVars(Receive(c))
    /\ WF_followerVars(EndInvestigation)

-----------------------------------------------------------------------------
(* Properties. *)

FollowerTypeOK ==
    /\ log \in Seq(EventTypes)
    /\ followed \in {"running", "ended"}
    /\ \A c \in Clients :
        /\ follower[c].pc \in {"closed", "read", "status", "write", "wait"}
        /\ follower[c].after \in 0 .. Len(log)
        /\ follower[c].found \in {"running", "ended"}
        /\ \A s \in {wire[c], seen[c], follower[c].page} : s \in Seq(DOMAIN log)
    /\ breaks \in 0 .. MaxBreaks

\* Over any number of streams a client receives every event it may see, once and
\* in order, and nothing it is waiting for is lost while a stream is open; a
\* handler that found the Investigation ended, and so closes the stream for good,
\* has written all of them, the last one too (follow, afterSequence, Events).
FollowersMissNothing ==
    /\ FollowerTypeOK
    /\ \A c \in Clients :
        LET received == seen[c] \o wire[c]
        IN  /\ \A i, j \in DOMAIN received : i < j => received[i] < received[j]
            /\ {received[i] : i \in DOMAIN received} = {n \in Visible : n <= Last(received)}
            /\ follower[c].found = "ended" /\ follower[c].pc = "closed"
                => received # <<>> /\ Terminal(Last(received))

\* A client that opens a stream whenever the last one ended sees the end of the
\* Investigation (follow, streamEvents).
FollowersReachTheEnd ==
    \A c \in Clients : <>(seen[c] # <<>> /\ Terminal(Last(seen[c])))

=============================================================================
