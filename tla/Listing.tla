------------------------------- MODULE Listing -------------------------------
(***************************************************************************)
(* A listing of a table that others write: a count in one statement, the   *)
(* rows of a page in another (FetchServices, FetchServiceVersionsInverted, *)
(* FetchUsersWithPagination).                                              *)
(*                                                                         *)
(* The queries name no order, so rows come in the order in which Postgres  *)
(* stores them.  A new row is stored after the others, or where a deleted  *)
(* row or the old state of an updated one has left room; an UPDATE stores  *)
(* the new state of its row like a new row.  The rows are numbered in the  *)
(* order of their creation.                                                *)
(***************************************************************************)
EXTENDS Paging

CONSTANTS Writes,   \* what is done to the table while it is listed
          MaxRows,  \* bound: rows ever created
          Pages,    \* page numbers asked for
          Sizes     \* page sizes asked for

ASSUME WritesAssumption == Writes \subseteq {"insert", "update", "delete"}
\* The table is small for an int, and pages and sizes are ints that are not negative.
ASSUME MaxRowsAssumption == MaxRows \in Nat /\ 2 * MaxRows <= MaxInt
ASSUME PagesAssumption == Pages \subseteq 0..MaxInt
ASSUME SizesAssumption == Sizes \subseteq 0..MaxInt

VARIABLES table,    \* the rows, in the order in which they are stored
          created,  \* how many rows were ever created
          room,     \* a row was deleted or moved, and left room
          list      \* the request: its next step, what it asks, counted and got

vars == <<table, created, room, list>>

Idle == [pc |-> "idle", page |-> 0, size |-> 0, inverted |-> FALSE,
         counted |-> <<>>, result |-> <<>>]

Init == /\ table = <<>>
        /\ created = 0
        /\ room = FALSE
        /\ list = Idle

Stored == {table[k] : k \in 1..Len(table)}

----------------------------------------------------------------------------
(* The writers.                                                            *)

\* The tables that row may be stored in.
StoredIn(rows, row) ==
  {InsertAt(rows, k, row) : k \in IF room THEN 1..(Len(rows) + 1) ELSE {Len(rows) + 1}}

Insert ==
  /\ "insert" \in Writes
  /\ created < MaxRows
  /\ created' = created + 1
  /\ table' \in StoredIn(table, created + 1)
  /\ UNCHANGED <<room, list>>

Update ==
  /\ "update" \in Writes
  /\ \E k \in 1..Len(table) : table' \in StoredIn(RemoveAt(table, k), table[k])
  /\ room' = TRUE
  /\ UNCHANGED <<created, list>>

Delete ==
  /\ "delete" \in Writes
  /\ \E k \in 1..Len(table) : table' = RemoveAt(table, k)
  /\ room' = TRUE
  /\ UNCHANGED <<created, list>>

Write == Insert \/ Update \/ Delete

----------------------------------------------------------------------------
(* The request.                                                            *)

\* What the handler passes on; the count is the first statement.
Count(page, size, inverted) ==
  /\ list.pc \in {"idle", "answered"}
  /\ list' = [pc |-> "find", page |-> Asked(page), size |-> size, inverted |-> inverted,
              counted |-> table, result |-> <<>>]
  /\ UNCHANGED <<table, created, room>>

Find ==
  /\ list.pc = "find"
  /\ list' = [pc |-> "answered", page |-> list.page, size |-> list.size,
              inverted |-> list.inverted, counted |-> list.counted,
              result |-> Fetched(table, Len(list.counted), list.page, list.size,
                                 list.inverted)]
  /\ UNCHANGED <<table, created, room>>

Next == \/ Write
        \/ \E page \in Pages, size \in Sizes, inverted \in BOOLEAN :
             Count(page, size, inverted)
        \/ Find

Spec == Init /\ [][Next]_vars

----------------------------------------------------------------------------
(* Properties.                                                             *)

\* As long as what is written between the two statements only adds rows at the end,
\* an answer is a page of the definition: counted from the end, a page of the table
\* as it was counted, and otherwise of the table as it is now.  That goes for the
\* short last page, a table that its page size divides, pages beyond the end, an
\* empty table and pages of size zero, up to the page that ends at the largest int.
PageExact ==
  [][Find /\ IsPrefix(list.counted, table) /\ list.page * list.size <= MaxInt
       => list'.result = PageOf(IF list.inverted THEN Reverse(list.counted) ELSE table,
                                list.page, list.size)]_vars

=============================================================================
