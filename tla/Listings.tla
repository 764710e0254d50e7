------------------------------ MODULE Listings ------------------------------
(***************************************************************************)
(* Every collection of the API is read page by page: rows in an order, the  *)
(* position of the last row shown as the cursor, and the next page from     *)
(* what comes after it.  Pages are separate statements, so rows are added,  *)
(* removed and moved between them.                                          *)
(*                                                                          *)
(* A row has a column that is set when it is made (created_at, occurred_at, *)
(* started_at, turn) and one that later events may move and that may never  *)
(* have been set (last_seen_at, last_activity_at, title).  Each listing     *)
(* says which it is ordered by and what may happen to its rows meanwhile.   *)
(***************************************************************************)
EXTENDS Integers, Sequences, FiniteSets

CONSTANTS
    Ids,            \* rows of a collection, in the order of their identifiers
    Values,         \* values of the columns rows are ordered by
    Offered,        \* the listings that are explored
    PageLimit       \* limit of a page

ASSUME ListingAssumption ==
    /\ Ids \subseteq Nat /\ IsFiniteSet(Ids)
    /\ Values \subseteq Nat \ {0} /\ \E v \in Values : \A w \in Values : w <= v
    /\ PageLimit \in Nat \ {0}

\* SQL NULL, in the column that may never have been set.
Never == -1
Columns == {"made", "moved"}

Orders == [column : Columns, descending : BOOLEAN]
Order(column, descending) == [column |-> column, descending |-> descending]
Both(column) == {Order(column, d) : d \in BOOLEAN}

\* What the reader may ask for, and what happens to the rows.
Fixed(orders) == [orders |-> orders, moves |-> FALSE, removes |-> FALSE, unset |-> FALSE]

AuditEvents == [Fixed({Order("made", TRUE)}) EXCEPT !.removes = TRUE]
RelayFailures == Fixed({Order("made", TRUE)})
QueryInvestigations == Fixed({Order("made", TRUE)})
ConversationTurns == Fixed({Order("made", FALSE)})
IncidentAlertEvents == Fixed({Order("made", FALSE)})
ListMembers == [Fixed({Order("made", FALSE)}) EXCEPT !.removes = TRUE]
QueryIntegrations == [Fixed(Both("made")) EXCEPT !.removes = TRUE]
QueryConversations == [Fixed(Both("moved")) EXCEPT !.moves = TRUE]
QueryIncidents == [Fixed(Both("made") \cup Both("moved")) EXCEPT !.moves = TRUE]
ListRelays == [Fixed(Both("made") \cup Both("moved")) EXCEPT !.moves = TRUE, !.unset = TRUE]

Listing(name) ==
    CASE name = "audit" -> AuditEvents
      [] name = "failures" -> RelayFailures
      [] name = "investigations" -> QueryInvestigations
      [] name = "turns" -> ConversationTurns
      [] name = "alerts" -> IncidentAlertEvents
      [] name = "members" -> ListMembers
      [] name = "integrations" -> QueryIntegrations
      [] name = "conversations" -> QueryConversations
      [] name = "incidents" -> QueryIncidents
      [] name = "relays" -> ListRelays

VARIABLES
    listing,        \* the listing that is read
    table,          \* the rows of the collection
    walk            \* a reader who follows the cursor

listingVars == <<listing, table, walk>>

\* org: the row is of the reader's Organization, and passes the filter.
Row == [org : BOOLEAN, made : Values, moved : Values \cup {Never}]
Absent == [org |-> FALSE, made |-> 0, moved |-> 0]

\* A cursor: the scope it was issued for, and the position.
Start == [scope |-> Order("made", FALSE), value |-> 0, id |-> 0]
NoWalk == [pc |-> "idle", cursor |-> Start, shown |-> <<>>, settled |-> {}]

ListingInit ==
    /\ listing \in Offered
    /\ table = [i \in Ids |-> Absent]
    /\ walk = NoWalk

Present == {i \in Ids : table[i] # Absent}

-----------------------------------------------------------------------------
(* The collection changes.  A row that changes is no longer settled. *)

\* A row is committed, with a time of its transaction or its process: not
\* necessarily the latest.  The other column starts with it, or without a value.
InsertRow(i) ==
    /\ table[i] = Absent
    /\ \E row \in Row :
        /\ row.moved = IF Listing(listing).unset THEN Never ELSE row.made
        /\ table' = [table EXCEPT ![i] = row]
    /\ UNCHANGED <<listing, walk>>

\* A heartbeat, an answer, a new alert, another title.
MoveRow(i) ==
    /\ table[i] # Absent /\ Listing(listing).moves
    /\ \E value \in Values : table' = [table EXCEPT ![i].moved = value]
    /\ walk' = [walk EXCEPT !.settled = @ \ {i}]
    /\ UNCHANGED listing

\* Retention, a member or an Integration removed.
DeleteRow(i) ==
    /\ table[i] # Absent /\ Listing(listing).removes
    /\ table' = [table EXCEPT ![i] = Absent]
    /\ walk' = [walk EXCEPT !.settled = @ \ {i}]
    /\ UNCHANGED listing

-----------------------------------------------------------------------------
(* A page. *)

\* '-infinity' and 'infinity'.
Least == 0
Greatest == 1 + CHOOSE v \in Values : \A w \in Values : w <= v

\* Mutant: a row that has no value has no place.
UncoalescedValue(i, order) == table[i][order.column]

\* coalesce: a row without a value comes last, in either direction.
Value(i, order) ==
    LET value == table[i][order.column]
    IN  IF value # Never THEN value ELSE IF order.descending THEN Least ELSE Greatest

\* (a, i) comes before (b, j) in the order of the listing.
Before(a, i, b, j, order) ==
    IF order.descending THEN a > b \/ (a = b /\ i > j) ELSE a < b \/ (a = b /\ i < j)

\* WHERE: the Organization's, after the cursor.  To compare with NULL is not true.
RowsAfter(order, cursor) ==
    {i \in Present : /\ table[i].org
                     /\ cursor # Start =>
                            /\ Never \notin {cursor.value, Value(i, order)}
                            /\ Before(cursor.value, cursor.id, Value(i, order), i, order)}

\* ORDER BY ... LIMIT.
Page(rows, order, limit) ==
    LET Place(i) == 1 + Cardinality({j \in rows : Before(Value(j, order), j, Value(i, order), i, order)})
    IN  [n \in 1 .. (IF Cardinality(rows) < limit THEN Cardinality(rows) ELSE limit) |->
            CHOOSE i \in rows : Place(i) = n]

\* encodeCursor, encodeSortCursor: the position of the last row shown.
NextCursor(ids, order) ==
    [scope |-> order, value |-> Value(ids[PageLimit], order), id |-> ids[PageLimit]]

\* decodeCursor, decodeSortCursor: of the order it was issued for.
InScope(cursor, order) == cursor # Start => cursor.scope = order

\* listing.Parse, and the query: one row more than is shown says whether there is
\* a next page.  A cursor of another order is refused.
ReadPage(order) ==
    LET rows == Page(RowsAfter(order, walk.cursor), order, PageLimit + 1)
        more == Len(rows) > PageLimit
        shown == IF more THEN SubSeq(rows, 1, PageLimit) ELSE rows
    IN  /\ walk.pc \in {"idle", "reading"}
        /\ order \in Listing(listing).orders
        /\ IF ~InScope(walk.cursor, order) THEN UNCHANGED walk
           ELSE walk' = [pc |-> IF more THEN "reading" ELSE "done",
                         cursor |-> IF more THEN NextCursor(rows, order) ELSE walk.cursor,
                         shown |-> walk.shown \o shown,
                         settled |-> IF walk.pc = "idle" THEN Present ELSE walk.settled]
        /\ UNCHANGED <<listing, table>>

ListingNext ==
    \/ \E i \in Ids : InsertRow(i) \/ MoveRow(i) \/ DeleteRow(i)
    \/ \E order \in Orders : ReadPage(order)

ListingSpec == ListingInit /\ [][ListingNext]_listingVars

-----------------------------------------------------------------------------
(* Properties. *)

ListingTypeOK ==
    /\ table \in [Ids -> Row \cup {Absent}]
    /\ walk.pc \in {"idle", "reading", "done"}
    /\ walk.shown \in Seq(Ids)
    /\ walk.settled \subseteq Ids

\* A reader who follows the cursor to the end has seen every row that was there
\* from the first page to the last and was not moved, once, and no such row of
\* another Organization; rows with equal values, rows without a value and rows
\* added or removed meanwhile do not hide or repeat one, whichever orders the
\* reader asks for (AuditEvents, ListRelays and the other listings, decodeCursor,
\* decodeSortCursor).
ListingsAreComplete ==
    LET Shown(i) == Cardinality({n \in DOMAIN walk.shown : walk.shown[n] = i})
    IN  /\ ListingTypeOK
        /\ \A i \in walk.settled :
            /\ Shown(i) <= IF table[i].org THEN 1 ELSE 0
            /\ walk.pc = "done" /\ table[i].org => Shown(i) = 1

=============================================================================
