----------------------------- MODULE RelayChurn -----------------------------
(***************************************************************************)
(* churnWatch and the mark of a contested identity.  Every session that     *)
(* takes a Relay's place is counted; takeovers that are too many, or from   *)
(* two hosts, within a window are a conflict, which is written to the       *)
(* registration's row and stands until an operator withdraws it.            *)
(*                                                                          *)
(* The watch is locked while it counts, the write follows without the lock, *)
(* so conflicts may be written in any order.  The watch dies with its       *)
(* process.                                                                 *)
(***************************************************************************)
EXTENDS Naturals, Sequences, FiniteSets

CONSTANTS
    Registrations,      \* registration_id
    Hosts,              \* addresses Relays connect from
    ChurnWindow,        \* churnWindow, churnSweepInterval, in clock ticks
    ChurnThreshold,     \* churnThreshold
    ContendingHosts,    \* contendingHosts
    ChurnMemory,        \* churnMemory
    MaxTracked,         \* maxTrackedRegistrations
    MaxTakeovers,       \* bound: takeovers counted
    MaxActing,          \* bound: successors acting on a verdict at a time
    MaxTime             \* bound: clock ticks

ASSUME ChurnAssumption ==
    /\ {ChurnWindow, ChurnThreshold, ContendingHosts, ChurnMemory, MaxTracked} \subseteq Nat \ {0}
    /\ IsFiniteSet(Hosts) /\ {MaxTakeovers, MaxActing, MaxTime} \subseteq Nat
    /\ ContendingHosts <= ChurnThreshold /\ ChurnThreshold <= ChurnMemory

VARIABLES
    recent,         \* churnWatch.byRegistration: takeovers, oldest first
    sweepDue,       \* an interval after churnWatch.lastSwept
    clock,          \* now
    takeovers,      \* every takeover the watch has counted
    verdicts,       \* what it found, until the successor has acted on it
    conflict,       \* session_conflict_hosts, 0 while session_conflict_at IS NULL
    marked          \* hosts of the conflicts recorded and not withdrawn since

churnVars == <<recent, sweepDue, clock, takeovers, verdicts, conflict, marked>>

\* A takeover has the time at which it leaves the window.
Takeover == [until : ChurnWindow .. ChurnWindow + MaxTime, host : Hosts]

ChurnInit ==
    /\ recent = [r \in Registrations |-> <<>>]
    /\ sweepDue = 0
    /\ clock = 0
    /\ takeovers = [r \in Registrations |-> <<>>]
    /\ verdicts = [r \in Registrations |-> {}]
    /\ conflict = [r \in Registrations |-> 0]
    /\ marked = [r \in Registrations |-> {}]

-----------------------------------------------------------------------------
(* The watch. *)

\* forgetBefore drops takeovers from the front up to the first in the window.
ForgetBefore(history) ==
    LET keep == {n \in DOMAIN history : \E m \in 1 .. n : history[m].until > clock}
    IN  SubSeq(history, Len(history) - Cardinality(keep) + 1, Len(history))

\* sweep, once in an interval; a registration with no takeover left is deleted.
Sweep ==
    IF clock < sweepDue THEN recent ELSE [r \in Registrations |-> ForgetBefore(recent[r])]

\* add: what is out of the window goes, then the oldest if there are too many.
AddTakeover(history, takeover) ==
    LET inWindow == ForgetBefore(history)
    IN  Append(IF Len(inWindow) = ChurnMemory THEN Tail(inWindow) ELSE inWindow, takeover)

Counted == {c \in Registrations \X (1 .. MaxTakeovers) : c[2] \in DOMAIN takeovers[c[1]]}

HostsOf(history) == {history[n].host : n \in DOMAIN history}

\* verdict: of the nth takeover.
Verdict(history, nth) ==
    LET hosts == Cardinality(HostsOf(history))
    IN  [nth |-> nth, hosts |-> hosts,
         contested |-> \/ Len(history) >= ChurnThreshold
                       \/ hosts >= ContendingHosts /\ Len(history) >= ContendingHosts]

\* record, for the session that took over from a host.  A registration the watch
\* does not know goes uncounted while it is full.
RecordTakeover(r, host) ==
    LET known == Sweep
        full == /\ known[r] = <<>>
                /\ Cardinality({q \in Registrations : known[q] # <<>>}) >= MaxTracked
        takeover == [until |-> clock + ChurnWindow, host |-> host]
        history == AddTakeover(known[r], takeover)
        nth == Len(takeovers[r]) + 1
    IN  /\ Cardinality(Counted) < MaxTakeovers
        /\ Cardinality(verdicts[r]) < MaxActing
        /\ sweepDue' = IF clock < sweepDue THEN sweepDue ELSE clock + ChurnWindow
        /\ IF full
           THEN recent' = known /\ UNCHANGED <<takeovers, verdicts>>
           ELSE /\ recent' = [known EXCEPT ![r] = history]
                /\ takeovers' = [takeovers EXCEPT ![r] = Append(@, takeover)]
                /\ verdicts' = [verdicts EXCEPT ![r] = @ \cup {Verdict(history, nth)}]
        /\ UNCHANGED <<clock, conflict, marked>>

-----------------------------------------------------------------------------
(* The mark. *)

\* Mutant: the latest reading.
LatestReading(r, hosts) == hosts

\* GREATEST(session_conflict_hosts, $3)
HighWaterMark(r, hosts) == IF conflict[r] > hosts THEN conflict[r] ELSE hosts

\* supersede acts on a verdict.  escalate: RecordSessionConflict commits with its
\* audit event, or fails and is logged.
Escalate(r, verdict) ==
    /\ verdict \in verdicts[r]
    /\ verdicts' = [verdicts EXCEPT ![r] = @ \ {verdict}]
    /\ \/ /\ verdict.contested
          /\ conflict' = [conflict EXCEPT ![r] = HighWaterMark(r, verdict.hosts)]
          /\ marked' = [marked EXCEPT ![r] = @ \cup {verdict.hosts}]
       \/ UNCHANGED <<conflict, marked>>
    /\ UNCHANGED <<recent, sweepDue, clock, takeovers>>

\* ClearSessionConflict, by an operator, where something is marked.
ClearSessionConflict(r) ==
    /\ conflict[r] # 0
    /\ conflict' = [conflict EXCEPT ![r] = 0]
    /\ marked' = [marked EXCEPT ![r] = {}]
    /\ UNCHANGED <<recent, sweepDue, clock, takeovers, verdicts>>

ChurnTick ==
    /\ clock < MaxTime
    /\ clock' = clock + 1
    /\ UNCHANGED <<recent, sweepDue, takeovers, verdicts, conflict, marked>>

ChurnNext ==
    \/ \E r \in Registrations, host \in Hosts : RecordTakeover(r, host)
    \/ \E r \in Registrations : \E verdict \in verdicts[r] : Escalate(r, verdict)
    \/ \E r \in Registrations : ClearSessionConflict(r)
    \/ ChurnTick

ChurnSpec == ChurnInit /\ [][ChurnNext]_churnVars

-----------------------------------------------------------------------------
(* Properties. *)

ChurnTypeOK ==
    /\ \A r \in Registrations :
        /\ recent[r] \in Seq(Takeover) /\ Len(recent[r]) <= ChurnMemory
        /\ takeovers[r] \in Seq(Takeover)
    /\ conflict \in [Registrations -> 0 .. Cardinality(Hosts)]

\* What is contested, by every takeover that was in the window at the last one.
Contested(history) ==
    LET last == history[Len(history)]
        inWindow == {n \in DOMAIN history : history[n].until + ChurnWindow > last.until}
    IN  \/ Cardinality(inWindow) >= ChurnThreshold
        \/ Cardinality({history[n].host : n \in inWindow}) >= ContendingHosts

\* Sweeping, forgetting and the bounded memory never hide a contested identity,
\* nor invent one: a takeover is judged as every takeover in the window says.
\* Once written, the mark stands until an operator withdraws it and never says
\* fewer hosts than a conflict it stands for, in whatever order they are written
\* (record, sweep, add, verdict, RecordSessionConflict, ClearSessionConflict).
ContestsAreMarked ==
    /\ ChurnTypeOK
    /\ \A r \in Registrations :
        /\ \A v \in verdicts[r] : v.contested = Contested(SubSeq(takeovers[r], 1, v.nth))
        /\ \A hosts \in marked[r] : conflict[r] >= hosts

=============================================================================
