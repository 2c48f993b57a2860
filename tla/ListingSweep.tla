---------------------------- MODULE ListingSweep ----------------------------
(***************************************************************************)
(* A client of a listing, which asks for a page now and then, and which    *)
(* may read the listing page after page, in one direction and with one     *)
(* page size, until the total of the last answer says that there is no     *)
(* further page.  Every page is counted and read anew.                     *)
(***************************************************************************)
EXTENDS Listing, FiniteSets

CONSTANT MaxMoved  \* bound: writes in a sweep that move rows

ASSUME MaxMovedAssumption == MaxMoved \in Nat

VARIABLES sweep,     \* "none", "under way", or "over"
          start,     \* the rows there were when the sweep began
          seen,      \* the rows that the sweep was answered so far
          moved      \* how many writes since did other than add a row at the end

sweepVars == <<vars, sweep, start, seen, moved>>

ResultRows(answer) == {answer.result[k] : k \in 1..Len(answer.result)}

SweepInit == /\ Init
             /\ sweep = "none"
             /\ start = {}
             /\ seen = {}
             /\ moved = 0

----------------------------------------------------------------------------

\* A page of its own.
SinglePage ==
  /\ sweep # "under way"
  /\ \E page \in Pages, size \in Sizes, inverted \in BOOLEAN :
       Count(page, size, inverted)
  /\ sweep' = "none"
  /\ start' = {}
  /\ seen' = {}
  /\ moved' = 0

SweepBegins ==
  /\ sweep # "under way"
  /\ \E size \in Sizes \ {0}, inverted \in BOOLEAN : Count(1, size, inverted)
  /\ sweep' = "under way"
  /\ start' = Stored
  /\ seen' = {}
  /\ moved' = 0

\* An answer with the total on this page or before it is the last.
LastPage == list.page * list.size >= Len(list.counted)

NextPage ==
  /\ sweep = "under way"
  /\ list.pc = "answered"
  /\ ~LastPage
  /\ Count(list.page + 1, list.size, list.inverted)
  /\ UNCHANGED <<sweep, start, seen, moved>>

PageFound ==
  /\ Find
  /\ seen' = IF sweep = "under way" THEN seen \cup ResultRows(list') ELSE seen
  /\ UNCHANGED <<sweep, start, moved>>

SweepEnds ==
  /\ sweep = "under way"
  /\ list.pc = "answered"
  /\ LastPage
  /\ sweep' = "over"
  /\ UNCHANGED <<vars, start, seen, moved>>

Written ==
  /\ Write
  /\ IF sweep = "under way" /\ ~IsPrefix(table, table')
       THEN moved < MaxMoved /\ moved' = moved + 1
       ELSE UNCHANGED moved
  /\ UNCHANGED <<sweep, start, seen>>

SweepNext == SinglePage \/ SweepBegins \/ NextPage \/ PageFound \/ SweepEnds \/ Written

SweepSpec == SweepInit /\ [][SweepNext]_sweepVars

----------------------------------------------------------------------------
(* Properties.                                                             *)

\* A row that stays is missed only because a write has moved rows across the border
\* between the pages read and those to be read, and each such write, an UPDATE that stores
\* its row elsewhere, a deletion, or a row in the room of another, costs a sweep one row
\* at most.  With rows only added at its end, none: although the pages counted from the end
\* shift with every row, between the requests or the two statements of one.
SweepMissesFew == sweep = "over" => Cardinality((start \cap Stored) \ seen) <= moved

=============================================================================
