------------------------------- MODULE Paging -------------------------------
(***************************************************************************)
(* The arithmetic of the listings: which rows of a table make a page, as   *)
(* FetchServices, FetchServiceVersionsInverted and FetchUsersWithPagination*)
(* compute it, and the definition it is meant to agree with.               *)
(*                                                                         *)
(* Page numbers and sizes are ints: products and differences wrap.         *)
(***************************************************************************)
EXTENDS Integers, Sequences, SequencesExt

CONSTANT MaxInt  \* the largest int

ASSUME MaxIntAssumption == MaxInt \in Nat \ {0}

\* An int of the width of MaxInt, in two's complement.
Wrap(n) == ((n + MaxInt + 1) % (2 * (MaxInt + 1))) - (MaxInt + 1)

\* Page 0, or none asked for, is the first page.
Asked(page) == IF page = 0 THEN 1 ELSE page

----------------------------------------------------------------------------

Window(page, size) == [offset |-> Wrap((page - 1) * size), limit |-> size]

NoWindow == [offset |-> 0, limit |-> 0]

\* (A faulty variant that is off by one at the page which holds the oldest rows.)
FaultyInvertedWindow(total, page, size) ==
  LET offset == Wrap(total - Wrap(page * size))
      rest == total % size
  IN  IF offset >= 0 THEN [offset |-> offset, limit |-> size]
      ELSE IF offset > rest - size THEN [offset |-> 0, limit |-> rest]
      ELSE NoWindow

\* Pages counted from the end of the table, the last one of which may be short.
\* A page beyond it is not looked up at all.
InvertedWindow(total, page, size) ==
  LET offset == Wrap(total - Wrap(page * size))
      rest == total % size
  IN  IF offset >= 0 THEN [offset |-> offset, limit |-> size]
      ELSE IF offset >= rest - size THEN [offset |-> 0, limit |-> rest]
      ELSE NoWindow

\* LIMIT and OFFSET; a negative offset is left out of the statement.
Select(rows, window) ==
  LET from == IF window.offset < 0 THEN 0 ELSE window.offset
      to == from + window.limit
  IN  SubSeq(rows, from + 1, IF to < Len(rows) THEN to ELSE Len(rows))

\* (A faulty variant that leaves the rows in the order of the table.)
FaultyFetched(rows, total, page, size, inverted) ==
  IF inverted THEN Select(rows, InvertedWindow(total, page, size))
              ELSE Select(rows, Window(page, size))

\* The rows answered, when the count has found total rows and the query finds rows.
Fetched(rows, total, page, size, inverted) ==
  IF inverted THEN Reverse(Select(rows, InvertedWindow(total, page, size)))
              ELSE Select(rows, Window(page, size))

----------------------------------------------------------------------------
(* The definition.                                                         *)

\* Page p has the rows at the places from (p - 1) * size + 1 to p * size that exist.
PageOf(rows, page, size) ==
  LET first == (page - 1) * size
      length == IF Len(rows) <= first THEN 0
                ELSE IF Len(rows) < first + size THEN Len(rows) - first
                ELSE size
  IN  [k \in 1..length |-> rows[first + k]]

=============================================================================
