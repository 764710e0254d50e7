---------------------------- MODULE RelayPresence ----------------------------
(***************************************************************************)
(* The sessions of one Relay registration in one control-plane process: the *)
(* table of live sessions, and what the registration's row says of the      *)
(* Relay's presence.                                                        *)
(*                                                                          *)
(* Connect runs in a goroutine of its own, so a session is at one step      *)
(* while its successor is at another.  The process may die between any two  *)
(* steps, which loses the table and leaves the row.  A write of the row that *)
(* is given up at presenceTimeout may still be committed by the database.   *)
(***************************************************************************)
EXTENDS Naturals

CONSTANTS
    MaxConnects,    \* bound: sessions ever opened
    MaxRestarts,    \* bound: deaths of the process
    Nobody          \* nil, NULL

ASSUME PresenceAssumption == {MaxConnects, MaxRestarts} \subseteq Nat /\ Nobody \notin Nat

VARIABLES
    at,             \* the step each session has reached
    ended,          \* sessions whose context is done
    replaced,       \* the session each one displaced and has not ended yet
    installed,      \* liveSessions.byRegistration
    presence,       \* session_id, session_ended_at IS NOT NULL, last_seen_at
    doubtful,       \* writes given up, which the database may commit yet
    restarts        \* deaths so far

presenceVars == <<at, ended, replaced, installed, presence, doubtful, restarts>>

\* uuid.New: a session is numbered by when it was opened.
Connects == 1 .. MaxConnects

Steps == {"unused", "supersede", "accept", "record", "run", "remove", "release", "closed", "lost"}
Over == {"unused", "closed", "lost"}

NeverSeen == [session |-> Nobody, ended |-> FALSE, seen |-> "never"]

PresenceInit ==
    /\ at = [s \in Connects |-> "unused"]
    /\ ended = {}
    /\ replaced = [s \in Connects |-> Nobody]
    /\ installed = Nobody
    /\ presence = NeverSeen
    /\ doubtful = {}
    /\ restarts = 0

Goes(s, step) == at' = [at EXCEPT ![s] = step]

-----------------------------------------------------------------------------
(* Opening a session. *)

\* open: install puts the session in the table and returns the one it displaces.
Install(s) ==
    /\ at[s] = "unused" /\ \A t \in 1 .. s - 1 : at[t] # "unused"
    /\ installed' = s
    /\ replaced' = [replaced EXCEPT ![s] = installed]
    /\ Goes(s, IF installed = Nobody THEN "accept" ELSE "supersede")
    /\ UNCHANGED <<ended, presence, doubtful, restarts>>

\* supersede: after the takeover is counted (module RelayChurn) the displaced
\* session is told to reconnect, and ends.
Supersede(s) ==
    /\ at[s] = "supersede"
    /\ ended' = ended \cup {replaced[s]}
    /\ replaced' = [replaced EXCEPT ![s] = Nobody]
    /\ Goes(s, "accept")
    /\ UNCHANGED <<installed, presence, doubtful, restarts>>

\* send: of a session whose context is done, because it was ended or its stream
\* is gone already, either branch of the select may be taken.
Accept(s) ==
    /\ at[s] = "accept"
    /\ \/ Goes(s, "record") /\ UNCHANGED ended
       \/ Goes(s, "remove") /\ ended' = ended \cup {s}
    /\ UNCHANGED <<replaced, installed, presence, doubtful, restarts>>

-----------------------------------------------------------------------------
(* The row. *)

\* RelaySessionOpened: the row is this session's, whoever came after it.
RelaySessionOpened(s) == [session |-> s, ended |-> FALSE, seen |-> "fresh"]

\* RelaySessionClosed: ends the session the row names if it is this one.
RelaySessionClosed(s) ==
    IF presence.session = s THEN [presence EXCEPT !.ended = TRUE] ELSE presence

Writes == Connects \X {"opening", "closing"}

\* A write fails, and the row stays as it is: refused, or given up and in doubt.
WriteFails(s, write) ==
    /\ UNCHANGED presence
    /\ UNCHANGED doubtful \/ doubtful' = doubtful \cup {<<s, write>>}

\* recordPresence, or the write fails.
RecordPresence(s) ==
    /\ at[s] = "record"
    /\ \/ presence' = RelaySessionOpened(s) /\ UNCHANGED doubtful
       \/ WriteFails(s, "opening")
    /\ Goes(s, "run")
    /\ UNCHANGED <<ended, replaced, installed, restarts>>

\* The database commits a write that was given up.
CommitLate(s, write) ==
    /\ <<s, write>> \in doubtful
    /\ presence' = IF write = "opening" THEN RelaySessionOpened(s) ELSE RelaySessionClosed(s)
    /\ doubtful' = doubtful \ {<<s, write>>}
    /\ UNCHANGED <<at, ended, replaced, installed, restarts>>

\* RelaySessionHeard: the row is refreshed if it is still this session's.
RelaySessionHeard(s) == [presence EXCEPT !.seen = IF presence.session = s THEN "fresh" ELSE @]

\* watchPresence: the Relay was heard.
WatchPresence(s) ==
    /\ at[s] = "run" /\ s \notin ended
    /\ presence' = RelaySessionHeard(s)
    /\ UNCHANGED <<at, ended, replaced, installed, doubtful, restarts>>

\* last_seen_at falls out of the liveness window.
LastSeenLapses ==
    /\ presence.seen = "fresh"
    /\ presence' = [presence EXCEPT !.seen = "stale"]
    /\ UNCHANGED <<at, ended, replaced, installed, doubtful, restarts>>

\* releasePresence, or the write fails.  It does not wait for an opening in doubt.
ReleasePresence(s) ==
    /\ at[s] = "release"
    /\ \/ /\ presence' = RelaySessionClosed(s) /\ UNCHANGED doubtful
          /\ Goes(s, IF <<s, "opening">> \in doubtful THEN "lost" ELSE "closed")
       \/ WriteFails(s, "closing") /\ Goes(s, "lost")
    /\ UNCHANGED <<ended, replaced, installed, restarts>>

\* relayConnectedExpression, of a registration that is not revoked.
ShownConnected == ~presence.ended /\ presence.seen = "fresh"

-----------------------------------------------------------------------------
(* The end of a session, and of the process. *)

\* watchLiveness ends a session whose Relay went silent.
EndIdle(s) ==
    /\ at[s] = "run" /\ s \notin ended
    /\ ended' = ended \cup {s}
    /\ UNCHANGED <<at, replaced, installed, presence, doubtful, restarts>>

\* run returns: the context is done, a stream fails or a message is refused.
\* close stops the session.
EndRun(s) ==
    /\ at[s] = "run"
    /\ Goes(s, "remove")
    /\ ended' = ended \cup {s}
    /\ UNCHANGED <<replaced, installed, presence, doubtful, restarts>>

\* Mutant: whoever is in the table is taken out of it.
RemoveAny(s) ==
    /\ at[s] = "remove"
    /\ installed' = Nobody
    /\ Goes(s, "release")
    /\ UNCHANGED <<ended, replaced, presence, doubtful, restarts>>

\* remove: out of the table, unless it is a successor's by now.
Remove(s) ==
    /\ at[s] = "remove"
    /\ installed' = IF installed = s THEN Nobody ELSE installed
    /\ Goes(s, "release")
    /\ UNCHANGED <<ended, replaced, presence, doubtful, restarts>>

\* The process dies, and another starts with an empty table.
Restart ==
    LET open == {s \in Connects : at[s] \notin Over}
    IN  /\ restarts < MaxRestarts
        /\ restarts' = restarts + 1
        /\ at' = [s \in Connects |-> IF s \in open THEN "lost" ELSE at[s]]
        /\ ended' = ended \cup open
        /\ replaced' = [s \in Connects |-> Nobody]
        /\ installed' = Nobody
        /\ UNCHANGED <<presence, doubtful>>

PresenceNext ==
    \/ \E s \in Connects :
        \/ Install(s) \/ Supersede(s) \/ Accept(s) \/ RecordPresence(s)
        \/ WatchPresence(s) \/ EndIdle(s) \/ EndRun(s) \/ Remove(s) \/ ReleasePresence(s)
        \/ \E write \in {"opening", "closing"} : CommitLate(s, write)
    \/ LastSeenLapses \/ Restart

PresenceSpec == PresenceInit /\ [][PresenceNext]_presenceVars

-----------------------------------------------------------------------------
(* Properties. *)

PresenceTypeOK ==
    /\ at \in [Connects -> Steps]
    /\ ended \subseteq Connects
    /\ replaced \in [Connects -> Connects \cup {Nobody}]
    /\ installed \in Connects \cup {Nobody}
    /\ presence \in [session : Connects \cup {Nobody}, ended : BOOLEAN,
                     seen : {"never", "fresh", "stale"}]
    /\ doubtful \subseteq Writes

\* One session at a time goes on as the Relay's: any other that has not ended is
\* about to be ended by the one that displaced it, so two Relays with one
\* identity cannot both keep a session in this process (install, supersede,
\* remove).  And a session that is over does not show the Relay as connected,
\* unless its release was lost with the write or the process, or its opening was
\* still in doubt by then (recordPresence, releasePresence, RelaySessionClosed).
OneSessionGoesOn ==
    /\ PresenceTypeOK
    /\ \A t \in Connects : at[t] \notin Over /\ t \notin ended
        => installed = t \/ \E s \in Connects : replaced[s] = t
    /\ ShownConnected => at[presence.session] \in {"run", "remove", "release", "lost"}

=============================================================================
