---------------------------- MODULE ListingProofs ----------------------------
(* Theorems about Paging and Listing, for every table, page, size and width of an int. *)
EXTENDS ListingSweep, SequenceTheorems, FiniteSetTheorems, TLAPS

----------------------------------------------------------------------------
(* Arithmetic.                                                             *)

\* An int that is in range is as it is.
LEMMA WrapInRange ==
  ASSUME NEW n \in Int, -MaxInt <= n, n <= MaxInt
  PROVE  Wrap(n) = n
<1> DEFINE M == 2 * (MaxInt + 1)
           k == n + MaxInt + 1
<1>1. M \in Nat \ {0} /\ k \in Nat /\ k < M
  BY MaxIntAssumption
<1> HIDE DEF M
<1>2. k % M = k
  <2> HIDE DEF k
  <2> QED BY <1>1
<1> QED
  BY <1>2, MaxIntAssumption DEF Wrap, M

LEMMA TimesNat ==
  ASSUME NEW a \in Nat, NEW b \in Nat
  PROVE  a * b \in Nat
OBVIOUS

LEMMA TimesMonotone ==
  ASSUME NEW a \in Nat, NEW b \in Nat, NEW c \in Nat, a <= b
  PROVE  a * c <= b * c
OBVIOUS

LEMMA TimesPredecessor ==
  ASSUME NEW a \in Nat \ {0}, NEW b \in Nat
  PROVE  /\ (a - 1) * b = a * b - b
         /\ (a - 1) * b \in Nat
         /\ a * b \in Nat
         /\ b <= a * b
<1>1. (a - 1) * b = a * b - b
  OBVIOUS
<1>2. a - 1 \in Nat
  OBVIOUS
<1>3. (a - 1) * b \in Nat
  BY <1>2, TimesNat
<1>4. a * b \in Nat
  BY TimesNat
<1> QED
  BY <1>1, <1>3, <1>4

\* Pages counted from the end: where the last one is, and how long.
LEMMA LastPageRest ==
  ASSUME NEW total \in Nat, NEW page \in Nat \ {0}, NEW size \in Nat,
         total < page * size
  PROVE  /\ total % size \in 0..total
         /\ total - page * size >= (total % size) - size
              => total % size = total - (page - 1) * size
         /\ ~(total - page * size >= (total % size) - size)
              => total <= (page - 1) * size
<1>1. size # 0
  <2> SUFFICES ASSUME size = 0 PROVE FALSE
    OBVIOUS
  <2> page * size = 0
    OBVIOUS
  <2> QED OBVIOUS
<1> DEFINE q == total \div size
           rest == total % size
<1>2. q \in Nat /\ rest \in Nat /\ rest < size /\ total = q * size + rest
  BY <1>1
<1> HIDE DEF q, rest
<1>3. q * size \in Nat
  BY <1>2, TimesNat
<1>4. rest \in 0..total
  BY <1>2, <1>3
<1>5. q + 1 \in Nat /\ (q + 1) * size = q * size + size
  BY <1>2
<1>6. q < page
  <2> SUFFICES ASSUME page <= q PROVE FALSE
    BY <1>2
  <2> page * size <= q * size
    BY <1>2, TimesMonotone
  <2> QED
    BY <1>2, <1>3, TimesNat
<1>7. ASSUME total - page * size >= rest - size
      PROVE  rest = total - (page - 1) * size
  <2>1. page * size <= (q + 1) * size
    BY <1>7, <1>2, <1>3, <1>5, TimesNat
  <2>2. page <= q + 1
    <3> SUFFICES ASSUME q + 2 <= page PROVE FALSE
      BY <1>2
    <3>1. (q + 2) * size <= page * size
      BY <1>2, TimesMonotone
    <3>2. (q + 2) * size = q * size + size + size
      BY <1>2
    <3> QED
      BY <3>1, <3>2, <2>1, <1>1, <1>2, <1>3, <1>5, TimesNat
  <2>3. page - 1 = q
    BY <2>2, <1>6, <1>2
  <2> QED
    BY <2>3, <1>2, <1>3
<1>8. ASSUME ~(total - page * size >= rest - size)
      PROVE  total <= (page - 1) * size
  <2>1. q * size + size < page * size
    BY <1>8, <1>2, <1>3, TimesNat
  <2>2. q + 1 < page
    <3> SUFFICES ASSUME page <= q + 1 PROVE FALSE
      BY <1>2
    <3>1. page * size <= (q + 1) * size
      BY <1>5, TimesMonotone
    <3> QED
      BY <3>1, <2>1, <1>3, <1>5, TimesNat
  <2>3. (q + 1) * size <= (page - 1) * size
    BY <2>2, <1>2, <1>5, TimesMonotone
  <2> QED
    BY <2>3, <1>2, <1>3, <1>5, TimesPredecessor
<1> QED
  BY <1>4, <1>7, <1>8 DEF rest

----------------------------------------------------------------------------
(* Windows of rows, place by place.                                        *)

\* How many of the rows are in a window.
Length(total, from, limit) ==
  IF total <= from THEN 0 ELSE IF total < from + limit THEN total - from ELSE limit

\* The rows before a page, and those up to its end.
First(page, size) == (page - 1) * size
UpTo(page, size) == page * size

LEMMA FirstNat ==
  ASSUME NEW page \in Nat \ {0}, NEW size \in Nat
  PROVE  /\ First(page, size) \in Nat
         /\ UpTo(page, size) \in Nat
         /\ First(page, size) = UpTo(page, size) - size
         /\ size <= UpTo(page, size)
BY TimesPredecessor DEF First, UpTo

LEMMA LengthNat ==
  ASSUME NEW total \in Nat, NEW from \in Nat, NEW limit \in Nat
  PROVE  /\ Length(total, from, limit) \in Nat
         /\ \A k \in 1..Length(total, from, limit) : from + k \in 1..total
BY DEF Length

\* These are the rows from one on, at most so many.
Cut(S, found, rows, from, limit) ==
  /\ found \in Seq(S)
  /\ Len(found) = Length(Len(rows), from, limit)
  /\ \A k \in 1..Length(Len(rows), from, limit) : found[k] = rows[from + k]

LEMMA SelectRows ==
  ASSUME NEW S, NEW rows \in Seq(S), NEW window,
         window.offset \in Nat, window.limit \in Nat
  PROVE  Cut(S, Select(rows, window), rows, window.offset, window.limit)
<1> DEFINE from == window.offset
           limit == window.limit
           length == Length(Len(rows), from, limit)
           to == IF from + limit < Len(rows) THEN from + limit ELSE Len(rows)
           part == SubSeq(rows, from + 1, to)
<1>0. from \in Nat /\ limit \in Nat /\ Len(rows) \in Nat
  OBVIOUS
<1>1. Select(rows, window) = part
  <2>1. (IF window.offset < 0 THEN 0 ELSE window.offset) = from
    BY <1>0
  <2> QED
    BY <2>1 DEF Select
<1> HIDE DEF from, limit
<1>2. to \in Nat /\ to <= Len(rows)
  BY <1>0
<1>3. \A i \in (from + 1)..to : rows[i] \in S
  BY <1>0, <1>2, ElementOfSeq
<1>4. length = IF from + 1 <= to THEN to - from ELSE 0
  BY <1>0 DEF Length
<1> HIDE DEF to
<1>5. /\ part \in Seq(S)
      /\ Len(part) = IF from + 1 <= to THEN to - (from + 1) + 1 ELSE 0
      /\ \A i \in 1..(to - (from + 1) + 1) : part[i] = rows[from + 1 + i - 1]
  BY <1>0, <1>2, <1>3, SubSeqProperties
<1> HIDE DEF part, length
<1>6. /\ Len(part) = length
      /\ \A k \in 1..length : part[k] = rows[from + k]
  BY <1>0, <1>2, <1>4, <1>5
<1> QED
  BY <1>1, <1>5, <1>6 DEF Cut, length, from, limit

LEMMA PageRows ==
  ASSUME NEW S, NEW rows \in Seq(S), NEW page \in Nat \ {0}, NEW size \in Nat
  PROVE  /\ PageOf(rows, page, size) \in Seq(S)
         /\ Len(PageOf(rows, page, size)) = Length(Len(rows), First(page, size), size)
         /\ \A k \in 1..Length(Len(rows), First(page, size), size) :
              PageOf(rows, page, size)[k] = rows[First(page, size) + k]
<1> DEFINE first == First(page, size)
           length == Length(Len(rows), first, size)
<1>0. Len(rows) \in Nat
  OBVIOUS
<1>1. first \in Nat /\ Len(rows) \in Nat
  BY <1>0, FirstNat
<1>2. PageOf(rows, page, size) = [k \in 1..length |-> rows[first + k]]
  BY DEF PageOf, Length, First
<1> HIDE DEF first
<1>3. length \in Nat /\ \A k \in 1..length : rows[first + k] \in S
  BY <1>1, LengthNat, ElementOfSeq
<1> HIDE DEF length
<1>4. [k \in 1..length |-> rows[first + k]] \in Seq(S)
  BY <1>3, IsASeq
<1> QED
  BY <1>2, <1>3, <1>4 DEF length, first

LEMMA ReverseRows ==
  ASSUME NEW S, NEW rows \in Seq(S)
  PROVE  /\ Reverse(rows) \in Seq(S)
         /\ Len(Reverse(rows)) = Len(rows)
         /\ \A k \in 1..Len(rows) : Reverse(rows)[k] = rows[Len(rows) - k + 1]
<1>1. Len(rows) \in Nat
  OBVIOUS
<1>2. \A k \in 1..Len(rows) : rows[(Len(rows) - k) + 1] \in S
  BY <1>1, ElementOfSeq
<1>3. [k \in 1..Len(rows) |-> rows[(Len(rows) - k) + 1]] \in Seq(S)
  BY <1>1, <1>2, IsASeq
<1> QED
  BY <1>1, <1>3 DEF Reverse

----------------------------------------------------------------------------
(* The code's pages are those of the definition.                           *)

LEMMA PageForward ==
  ASSUME NEW S, NEW rows \in Seq(S), NEW page \in Nat \ {0}, NEW size \in Nat,
         UpTo(page, size) <= MaxInt
  PROVE  Select(rows, Window(page, size)) = PageOf(rows, page, size)
<1> DEFINE first == First(page, size)
           product == UpTo(page, size)
           window == Window(page, size)
<1>1. first \in Nat /\ product \in Nat /\ first <= product /\ product <= MaxInt
  BY FirstNat
<1>2. window = [offset |-> Wrap(first), limit |-> size]
  BY DEF Window, First
<1>3. PageOf(rows, page, size) \in Seq(S)
  BY PageRows
<1>4. /\ Len(PageOf(rows, page, size)) = Length(Len(rows), first, size)
      /\ \A k \in 1..Length(Len(rows), first, size) :
           PageOf(rows, page, size)[k] = rows[first + k]
  BY PageRows
<1> HIDE DEF first, product, window
<1>5. window.offset = first /\ window.limit = size
  BY <1>1, <1>2, WrapInRange, MaxIntAssumption
<1>6. /\ Select(rows, window) \in Seq(S)
      /\ Len(Select(rows, window)) = Length(Len(rows), first, size)
      /\ \A k \in 1..Length(Len(rows), first, size) :
           Select(rows, window)[k] = rows[first + k]
  <2>1. Cut(S, Select(rows, window), rows, window.offset, window.limit)
    BY <1>1, <1>5, SelectRows
  <2> QED
    BY <1>5, <2>1 DEF Cut
<1>7. Select(rows, window) = PageOf(rows, page, size)
  BY <1>3, <1>4, <1>6, SeqEqual
<1> QED
  BY <1>7 DEF window

\* The window counted from the end has the rows of the page, in the other order.
LEMMA InvertedRows ==
  ASSUME NEW total \in Nat, NEW page \in Nat \ {0}, NEW size \in Nat,
         UpTo(page, size) <= MaxInt, total <= MaxInt
  PROVE  LET window == InvertedWindow(total, page, size)
             first == First(page, size)
             length == Length(total, first, size)
         IN  /\ window.offset \in Nat /\ window.limit \in Nat
             /\ \A n \in Nat : total <= n => Length(n, window.offset, window.limit) = length
             /\ length # 0 => window.offset = total - first - length
<1> DEFINE first == First(page, size)
           product == UpTo(page, size)
           offset == total - product
           rest == total % size
           length == Length(total, first, size)
           window == InvertedWindow(total, page, size)
<1>1. /\ product \in Nat /\ first \in Nat /\ first = product - size
      /\ size <= product /\ product <= MaxInt
  BY FirstNat
<1>2. window = IF Wrap(total - Wrap(product)) >= 0
                 THEN [offset |-> Wrap(total - Wrap(product)), limit |-> size]
               ELSE IF Wrap(total - Wrap(product)) >= rest - size
                 THEN [offset |-> 0, limit |-> rest]
               ELSE NoWindow
  BY DEF InvertedWindow, UpTo
<1>3. ASSUME offset < 0
      PROVE  /\ rest \in 0..total
             /\ offset >= rest - size => rest = total - first
             /\ ~(offset >= rest - size) => total <= first
  <2>1. total < page * size
    BY <1>1, <1>3 DEF UpTo
  <2> QED BY <2>1, LastPageRest DEF First, UpTo
<1> HIDE DEF first, product, rest, window
<1>4. Wrap(total - Wrap(product)) = offset
  <2>1. Wrap(product) = product
    BY <1>1, WrapInRange, MaxIntAssumption
  <2>2. offset \in Int /\ -MaxInt <= offset /\ offset <= MaxInt
    BY <1>1, MaxIntAssumption
  <2> HIDE DEF offset
  <2>3. Wrap(offset) = offset
    BY <2>2, WrapInRange
  <2> QED
    BY <2>1, <2>3 DEF offset
<1>5. /\ window.offset \in Nat /\ window.limit \in Nat
      /\ \A n \in Nat : total <= n => Length(n, window.offset, window.limit) = length
      /\ length # 0 => window.offset = total - first - length
  <2>1. CASE offset >= 0
    <3>1. window.offset = offset /\ window.limit = size
      BY <2>1, <1>2, <1>4
    <3>2. length = size
      BY <2>1, <1>1 DEF Length
    <3> QED
      BY <3>1, <3>2, <2>1, <1>1 DEF Length
  <2>2. CASE offset < 0 /\ offset >= rest - size
    <3>0. ~(offset >= 0)
      BY <2>2, <1>1
    <3>1. window.offset = 0 /\ window.limit = rest
      BY <3>0, <2>2, <1>2, <1>4
    <3>2. rest \in 0..total /\ rest = total - first
      BY <2>2, <1>3
    <3>3. length = rest
      BY <3>2, <2>2, <1>1 DEF Length
    <3> QED
      BY <3>1, <3>2, <3>3, <1>1 DEF Length
  <2>3. CASE offset < 0 /\ ~(offset >= rest - size)
    <3>0. ~(offset >= 0)
      BY <2>3, <1>1
    <3>1. window.offset = 0 /\ window.limit = 0
      BY <3>0, <2>3, <1>2, <1>4 DEF NoWindow
    <3>2. length = 0
      BY <2>3, <1>1, <1>3 DEF Length
    <3> QED
      BY <3>1, <3>2, <1>1 DEF Length
  <2>4. offset >= 0 \/ offset < 0
    BY <1>1
  <2> QED
    BY <2>1, <2>2, <2>3, <2>4
<1> QED
  BY <1>5 DEF window, first

LEMMA PageInverted ==
  ASSUME NEW S, NEW rows \in Seq(S), NEW counted \in Seq(S),
         NEW page \in Nat \ {0}, NEW size \in Nat,
         UpTo(page, size) <= MaxInt, Len(counted) <= MaxInt,
         Len(counted) <= Len(rows),
         \A k \in 1..Len(counted) : counted[k] = rows[k]
  PROVE  Reverse(Select(rows, InvertedWindow(Len(counted), page, size)))
           = PageOf(Reverse(counted), page, size)
<1> DEFINE total == Len(counted)
           first == First(page, size)
           window == InvertedWindow(total, page, size)
           length == Length(total, first, size)
           found == Select(rows, window)
           newest == Reverse(counted)
           pageRows == PageOf(newest, page, size)
<1>0. total \in Nat /\ Len(rows) \in Nat
  OBVIOUS
<1>1. total \in Nat /\ Len(rows) \in Nat /\ first \in Nat
  BY <1>0, FirstNat
<1>2. /\ newest \in Seq(S) /\ Len(newest) = total
      /\ \A k \in 1..total : newest[k] = counted[total - k + 1]
  BY ReverseRows
<1>3. /\ pageRows \in Seq(S)
      /\ Len(pageRows) = Length(Len(newest), first, size)
      /\ \A k \in 1..Length(Len(newest), first, size) : pageRows[k] = newest[first + k]
  <2> HIDE DEF newest
  <2> QED BY <1>2, PageRows
<1>4. /\ window.offset \in Nat /\ window.limit \in Nat
      /\ \A n \in Nat : total <= n => Length(n, window.offset, window.limit) = length
      /\ length # 0 => window.offset = total - first - length
  <2> HIDE DEF total
  <2> QED BY <1>1, InvertedRows DEF total
<1>5. length \in Nat /\ \A k \in 1..length : first + k \in 1..total
  <2> HIDE DEF total, first
  <2> QED BY <1>1, LengthNat
<1> HIDE DEF window, newest, first
<1>6. /\ found \in Seq(S)
      /\ Len(found) = Length(Len(rows), window.offset, window.limit)
      /\ \A k \in 1..Length(Len(rows), window.offset, window.limit) :
           found[k] = rows[window.offset + k]
  <2>1. window.offset \in Nat /\ window.limit \in Nat
    BY <1>4
  <2>2. Cut(S, found, rows, window.offset, window.limit)
    BY <2>1, SelectRows
  <2> QED
    BY <2>2 DEF Cut
<1>7. Length(Len(rows), window.offset, window.limit) = length
  BY <1>1, <1>4
<1> HIDE DEF found, pageRows
<1>8. /\ Reverse(found) \in Seq(S) /\ Len(Reverse(found)) = length
      /\ \A k \in 1..length : Reverse(found)[k] = found[length - k + 1]
  BY <1>6, <1>7, ReverseRows
<1>9. Len(pageRows) = length
  BY <1>2, <1>3
<1>10. ASSUME NEW k \in 1..length
       PROVE  Reverse(found)[k] = pageRows[k]
  <2> HIDE DEF length, total
  <2>1. length # 0 /\ window.offset = total - first - length
    BY <1>4, <1>5
  <2>2. /\ length - k + 1 \in 1..length
        /\ window.offset + (length - k + 1) = total - (first + k) + 1
    BY <2>1, <1>1, <1>5
  <2>3. first + k \in 1..total /\ total - (first + k) + 1 \in 1..total
    BY <1>1, <1>5
  <2>4. Reverse(found)[k] = rows[total - (first + k) + 1]
    BY <2>2, <1>6, <1>7, <1>8
  <2>5. counted[total - (first + k) + 1] = rows[total - (first + k) + 1]
    BY <2>3 DEF total
  <2>6. pageRows[k] = newest[first + k]
    BY <1>2, <1>3, <1>9
  <2> QED
    BY <2>3, <2>4, <2>5, <2>6, <1>2
<1> HIDE DEF length
<1>11. Reverse(found) = pageRows
  BY <1>3, <1>8, <1>9, <1>10, SeqEqual
<1> QED
  BY <1>11 DEF found, pageRows, window, newest

\* What a prefix means, place by place.
Begins(rows, longer) == /\ Len(rows) <= Len(longer)
                        /\ \A k \in 1..Len(rows) : rows[k] = longer[k]

LEMMA PrefixBegins ==
  ASSUME NEW S, NEW rows \in Seq(S), NEW longer \in Seq(S), IsPrefix(rows, longer)
  PROVE  Begins(rows, longer)
<1>1. /\ Len(rows) \in Nat /\ Len(longer) \in Nat /\ Len(rows) <= Len(longer)
      /\ SubSeq(rows, 1, Len(rows)) = SubSeq(longer, 1, Len(rows))
  BY DEF IsPrefix
<1>2. /\ \A k \in 1..Len(rows) : rows[k] \in S
      /\ \A k \in 1..Len(rows) : longer[k] \in S
  BY <1>1, ElementOfSeq
<1>3. \A k \in 1..(Len(rows) - 1 + 1) : SubSeq(rows, 1, Len(rows))[k] = rows[1 + k - 1]
  BY <1>1, <1>2, SubSeqProperties
<1>4. \A k \in 1..(Len(rows) - 1 + 1) : SubSeq(longer, 1, Len(rows))[k] = longer[1 + k - 1]
  BY <1>1, <1>2, SubSeqProperties
<1> QED
  BY <1>1, <1>3, <1>4 DEF Begins

LEMMA FetchedIsPage ==
  ASSUME NEW S, NEW rows \in Seq(S), NEW counted \in Seq(S),
         NEW page \in Nat \ {0}, NEW size \in Nat, NEW inverted \in BOOLEAN,
         UpTo(page, size) <= MaxInt, Len(counted) <= MaxInt, Begins(counted, rows)
  PROVE  Fetched(rows, Len(counted), page, size, inverted)
           = PageOf(IF inverted THEN Reverse(counted) ELSE rows, page, size)
<1>1. CASE inverted
  BY <1>1, PageInverted DEF Fetched, Begins
<1>2. CASE ~inverted
  BY <1>2, PageForward DEF Fetched
<1> QED
  BY <1>1, <1>2

----------------------------------------------------------------------------
(* The pages of a table that nobody writes.                                *)

LEMMA PageEnds ==
  ASSUME NEW page \in Nat \ {0}, NEW size \in Nat
  PROVE  First(page, size) \in Nat /\ UpTo(page, size) = First(page, size) + size
<1>1. /\ First(page, size) \in Nat /\ UpTo(page, size) \in Nat
      /\ First(page, size) = UpTo(page, size) - size
  BY FirstNat
<1> QED
  BY <1>1

LEMMA PlaceHasPage ==
  ASSUME NEW k \in Nat \ {0}, NEW size \in Nat \ {0}
  PROVE  \E page \in Nat \ {0} : First(page, size) < k /\ k <= UpTo(page, size)
<1> DEFINE before == (k - 1) \div size
           rest == (k - 1) % size
<1>1. before \in Nat /\ rest \in Nat /\ rest < size /\ k - 1 = before * size + rest
  OBVIOUS
<1> HIDE DEF before, rest
<1>2. before + 1 \in Nat \ {0} /\ (before + 1) - 1 = before
  BY <1>1
<1>3. First(before + 1, size) = before * size
  BY <1>2 DEF First
<1>4. First(before + 1, size) \in Nat
  BY <1>1, <1>3, TimesNat
<1>5. UpTo(before + 1, size) = First(before + 1, size) + size
  BY <1>2, PageEnds
<1>6. First(before + 1, size) < k /\ k <= UpTo(before + 1, size)
  BY <1>1, <1>3, <1>4, <1>5
<1> QED
  BY <1>2, <1>6

LEMMA PagesFollow ==
  ASSUME NEW page \in Nat \ {0}, NEW later \in Nat \ {0}, NEW size \in Nat, page < later
  PROVE  UpTo(page, size) <= First(later, size)
<1>1. page \in Nat /\ later - 1 \in Nat /\ page <= later - 1
  OBVIOUS
<1> QED
  BY <1>1, TimesMonotone DEF UpTo, First

\* What the code answers, when the count and the query see the same rows.
Page(rows, page, size, inverted) == Fetched(rows, Len(rows), page, size, inverted)

\* The rows in the order of the listing.
Listed(rows, inverted) == IF inverted THEN Reverse(rows) ELSE rows

LEMMA PagePlaces ==
  ASSUME NEW S, NEW rows \in Seq(S), NEW page \in Nat \ {0}, NEW size \in Nat,
         NEW inverted \in BOOLEAN, UpTo(page, size) <= MaxInt, Len(rows) <= MaxInt
  PROVE  LET first == First(page, size)
             found == Page(rows, page, size, inverted)
         IN  /\ Len(found) = Length(Len(rows), first, size)
             /\ \A k \in 1..Len(found) : found[k] = Listed(rows, inverted)[first + k]
<1>1. Begins(rows, rows)
  BY DEF Begins
<1>2. Page(rows, page, size, inverted) = PageOf(Listed(rows, inverted), page, size)
  BY <1>1, FetchedIsPage DEF Page, Listed
<1> DEFINE listed == Listed(rows, inverted)
           length == Length(Len(rows), First(page, size), size)
<1>3. listed \in Seq(S) /\ Len(listed) = Len(rows)
  BY ReverseRows DEF Listed
<1> HIDE DEF listed
<1>4. /\ Len(PageOf(listed, page, size)) = length
      /\ \A k \in 1..length : PageOf(listed, page, size)[k] = listed[First(page, size) + k]
  BY <1>3, PageRows
<1> QED
  BY <1>2, <1>4 DEF listed

\* Every row of a table is on a page.
LEMMA EveryRowOnPage ==
  ASSUME NEW S, NEW rows \in Seq(S), NEW size \in Nat \ {0}, NEW inverted \in BOOLEAN,
         Len(rows) + size <= MaxInt, NEW k \in 1..Len(rows)
  PROVE  \E page \in Nat \ {0} :
           /\ UpTo(page, size) <= MaxInt
           /\ \E j \in 1..Len(Page(rows, page, size, inverted)) :
                Page(rows, page, size, inverted)[j] = Listed(rows, inverted)[k]
<1>0. Len(rows) \in Nat /\ MaxInt \in Nat
  BY MaxIntAssumption
<1>1. PICK page \in Nat \ {0} : First(page, size) < k /\ k <= UpTo(page, size)
  <2>1. k \in Nat \ {0}
    BY <1>0
  <2> QED
    BY <2>1, PlaceHasPage
<1> DEFINE first == First(page, size)
           j == k - first
<1>2. first \in Nat /\ UpTo(page, size) = first + size
  BY PageEnds
<1>3. UpTo(page, size) <= MaxInt /\ Len(rows) <= MaxInt
  BY <1>0, <1>1, <1>2
<1>4. j \in 1..Length(Len(rows), first, size) /\ first + j = k
  BY <1>0, <1>1, <1>2 DEF Length
<1> HIDE DEF j
<1> QED
  BY <1>3, <1>4, PagePlaces

\* The rows of two pages are at different places of the listing.
LEMMA PagesDisjoint ==
  ASSUME NEW S, NEW rows \in Seq(S), NEW size \in Nat, NEW inverted \in BOOLEAN,
         Len(rows) <= MaxInt, NEW page \in Nat \ {0}, NEW later \in Nat \ {0},
         page < later, UpTo(later, size) <= MaxInt,
         \A k, l \in 1..Len(rows) : rows[k] = rows[l] => k = l,
         NEW i \in 1..Len(Page(rows, page, size, inverted)),
         NEW j \in 1..Len(Page(rows, later, size, inverted))
  PROVE  Page(rows, page, size, inverted)[i] # Page(rows, later, size, inverted)[j]
<1> DEFINE first == First(page, size)
           next == First(later, size)
<1>0. Len(rows) \in Nat /\ MaxInt \in Nat
  BY MaxIntAssumption
<1>1. /\ first \in Nat /\ UpTo(page, size) = first + size
      /\ next \in Nat /\ UpTo(later, size) = next + size
      /\ UpTo(page, size) <= next
  BY PageEnds, PagesFollow
<1>2. UpTo(page, size) <= MaxInt
  BY <1>0, <1>1
<1>3. /\ i \in 1..Length(Len(rows), first, size)
      /\ Page(rows, page, size, inverted)[i] = Listed(rows, inverted)[first + i]
      /\ j \in 1..Length(Len(rows), next, size)
      /\ Page(rows, later, size, inverted)[j] = Listed(rows, inverted)[next + j]
  BY <1>2, PagePlaces
<1> HIDE DEF first, next
<1>4. first + i \in 1..Len(rows) /\ next + j \in 1..Len(rows)
  BY <1>0, <1>1, <1>3, LengthNat
<1>5. first + i < next + j
  <2>1. i \in Nat /\ i <= size /\ j \in Nat \ {0}
    BY SMTT(30), <1>0, <1>1, <1>3 DEF Length
  <2>2. first + size <= next
    BY <1>1
  <2> HIDE DEF first, next
  <2> QED
    BY <2>1, <2>2, <1>1
<1>6. CASE inverted
  <2>1. /\ Listed(rows, inverted)[first + i] = rows[Len(rows) - (first + i) + 1]
        /\ Listed(rows, inverted)[next + j] = rows[Len(rows) - (next + j) + 1]
    BY <1>4, <1>6, ReverseRows DEF Listed
  <2>2. /\ Len(rows) - (first + i) + 1 \in 1..Len(rows)
        /\ Len(rows) - (next + j) + 1 \in 1..Len(rows)
        /\ Len(rows) - (first + i) + 1 # Len(rows) - (next + j) + 1
    BY SMTT(30), <1>0, <1>4, <1>5
  <2> QED
    BY <1>3, <2>1, <2>2
<1>7. CASE ~inverted
  <2>1. first + i # next + j
    BY <1>4, <1>5
  <2> QED
    BY <1>3, <1>4, <1>7, <2>1 DEF Listed
<1> QED
  BY <1>6, <1>7

\* The pages that the code makes of a table, of any size and in either direction, are a
\* partition of its rows: each is on a page, and on no other one.
THEOREM PagesPartition ==
  ASSUME NEW S, NEW rows \in Seq(S), NEW size \in Nat \ {0}, NEW inverted \in BOOLEAN,
         Len(rows) + size <= MaxInt,
         \A k, l \in 1..Len(rows) : rows[k] = rows[l] => k = l
  PROVE  LET Asking == {page \in Nat \ {0} : page * size <= MaxInt}
             On(row, page) == \E j \in 1..Len(Page(rows, page, size, inverted)) :
                                Page(rows, page, size, inverted)[j] = row
         IN  \A k \in 1..Len(rows) :
               /\ \E page \in Asking : On(rows[k], page)
               /\ \A page, other \in Asking :
                    On(rows[k], page) /\ On(rows[k], other) => page = other
<1> DEFINE Asking == {page \in Nat \ {0} : page * size <= MaxInt}
           On(row, page) == \E j \in 1..Len(Page(rows, page, size, inverted)) :
                              Page(rows, page, size, inverted)[j] = row
<1> SUFFICES ASSUME NEW k \in 1..Len(rows)
             PROVE  /\ \E page \in Asking : On(rows[k], page)
                    /\ \A page, other \in Asking :
                         On(rows[k], page) /\ On(rows[k], other) => page = other
  OBVIOUS
<1>0. Len(rows) \in Nat /\ MaxInt \in Nat /\ Len(rows) <= MaxInt
  BY MaxIntAssumption
<1>1. \E place \in 1..Len(rows) : Listed(rows, inverted)[place] = rows[k]
  <2>1. CASE inverted
    <3>1. Len(rows) - k + 1 \in 1..Len(rows) /\ Len(rows) - (Len(rows) - k + 1) + 1 = k
      BY <1>0
    <3> QED
      BY SMTT(30), <2>1, <3>1, ReverseRows DEF Listed
  <2>2. CASE ~inverted
    BY <2>2 DEF Listed
  <2> QED
    BY <2>1, <2>2
<1>2. \E page \in Asking : On(rows[k], page)
  BY <1>1, EveryRowOnPage DEF UpTo
<1>3. ASSUME NEW page \in Asking, NEW other \in Asking, page < other,
             On(rows[k], page), On(rows[k], other)
      PROVE  FALSE
  <2>1. /\ page \in Nat \ {0} /\ other \in Nat \ {0} /\ size \in Nat
        /\ UpTo(other, size) <= MaxInt
    BY DEF UpTo
  <2>2. PICK i \in 1..Len(Page(rows, page, size, inverted)) :
          Page(rows, page, size, inverted)[i] = rows[k]
    BY <1>3
  <2>3. PICK j \in 1..Len(Page(rows, other, size, inverted)) :
          Page(rows, other, size, inverted)[j] = rows[k]
    BY <1>3
  <2>4. Page(rows, page, size, inverted)[i] # Page(rows, other, size, inverted)[j]
    BY SMTT(30), <1>0, <1>3, <2>1, PagesDisjoint
  <2> QED
    BY <2>2, <2>3, <2>4
<1>4. ASSUME NEW page \in Asking, NEW other \in Asking,
             On(rows[k], page), On(rows[k], other)
      PROVE  page = other
  <2>1. page \in Nat /\ other \in Nat
    OBVIOUS
  <2>2. page < other \/ other < page \/ page = other
    BY <2>1
  <2> QED
    BY <1>3, <1>4, <2>2
<1> QED
  BY <1>2, <1>4

----------------------------------------------------------------------------
(* The table and the request.                                              *)

TableInv == /\ table \in Seq(Nat)
            /\ created \in 0..MaxRows
            /\ Len(table) <= created
            /\ \A k \in 1..Len(table) : table[k] \in 1..created

ListInv == /\ list.pc \in {"idle", "find", "answered"}
           /\ list.page \in Nat /\ list.size \in Nat /\ list.inverted \in BOOLEAN
           /\ list.counted \in Seq(Nat) /\ Len(list.counted) <= MaxRows
           /\ list.pc # "idle" => list.page # 0

LInv == TableInv /\ ListInv

LEMMA Types ==
  ASSUME LInv
  PROVE  /\ table \in Seq(Nat) /\ Len(table) \in Nat
         /\ list.counted \in Seq(Nat) /\ Len(list.counted) \in Nat
         /\ list.page \in Nat /\ list.size \in Nat /\ list.inverted \in BOOLEAN
         /\ list.pc # "idle" => list.page \in Nat \ {0}
<1>1. table \in Seq(Nat) /\ list.counted \in Seq(Nat)
  BY DEF LInv, TableInv, ListInv
<1>2. Len(table) \in Nat /\ Len(list.counted) \in Nat
  BY <1>1, LenProperties
<1> QED
  BY <1>1, <1>2 DEF LInv, ListInv

LEMMA RowInserted ==
  ASSUME NEW rows \in Seq(Nat), NEW row \in Nat, NEW k \in 1..(Len(rows) + 1)
  PROVE  /\ InsertAt(rows, k, row) \in Seq(Nat)
         /\ Len(InsertAt(rows, k, row)) = Len(rows) + 1
         /\ \A i \in 1..(Len(rows) + 1) :
              InsertAt(rows, k, row)[i] = IF i < k THEN rows[i]
                                          ELSE IF i = k THEN row
                                          ELSE rows[i - 1]
<1> DEFINE front == SubSeq(rows, 1, k - 1)
           back == SubSeq(rows, k, Len(rows))
<1>1. Len(rows) \in Nat
  OBVIOUS
<1>2. \A i \in 1..Len(rows) : rows[i] \in Nat
  BY ElementOfSeq
<1>3. front \in Seq(Nat) /\ Len(front) = k - 1 /\ \A i \in 1..(k - 1) : front[i] = rows[i]
  <2>1. \A i \in 1..(k - 1) : rows[i] \in Nat
    BY <1>1, <1>2
  <2>2. k - 1 \in Int
    BY <1>1
  <2>3. /\ front \in Seq(Nat) /\ Len(front) = IF 1 <= k - 1 THEN k - 1 - 1 + 1 ELSE 0
        /\ \A i \in 1..(k - 1 - 1 + 1) : front[i] = rows[1 + i - 1]
    BY <2>1, <2>2, SubSeqProperties
  <2> QED
    BY <2>3, <1>1
<1>4. /\ back \in Seq(Nat) /\ Len(back) = Len(rows) - k + 1
      /\ \A i \in 1..(Len(rows) - k + 1) : back[i] = rows[k + i - 1]
  <2>1. \A i \in k..Len(rows) : rows[i] \in Nat
    BY <1>1, <1>2
  <2>2. /\ back \in Seq(Nat) /\ Len(back) = IF k <= Len(rows) THEN Len(rows) - k + 1 ELSE 0
        /\ \A i \in 1..(Len(rows) - k + 1) : back[i] = rows[k + i - 1]
    BY <2>1, <1>1, SubSeqProperties
  <2> QED
    BY <2>2, <1>1
<1>5. InsertAt(rows, k, row) = front \o <<row>> \o back
  BY DEF InsertAt
<1> HIDE DEF front, back
<1> DEFINE some == front \o <<row>>
<1>6. <<row>> \in Seq(Nat) /\ Len(<<row>>) = 1 /\ <<row>>[1] = row
  OBVIOUS
<1>7. /\ some \in Seq(Nat) /\ Len(some) = k
      /\ \A i \in 1..k : some[i] = IF i < k THEN rows[i] ELSE row
  <2>1. /\ some \in Seq(Nat) /\ Len(some) = Len(front) + 1
        /\ \A i \in 1..(Len(front) + 1) :
             some[i] = IF i <= Len(front) THEN front[i] ELSE <<row>>[i - Len(front)]
    BY <1>3, <1>6, ConcatProperties
  <2>2. ASSUME NEW i \in 1..k PROVE some[i] = IF i < k THEN rows[i] ELSE row
    <3> HIDE DEF some
    <3>1. some[i] = IF i <= k - 1 THEN front[i] ELSE <<row>>[i - (k - 1)]
      BY <2>1, <1>1, <1>3
    <3>2. CASE i < k
      BY <3>1, <3>2, <1>1, <1>3
    <3>3. CASE i = k
      BY <3>1, <3>3, <1>1, <1>6
    <3> QED
      BY <3>2, <3>3, <1>1
  <2> QED
    BY SMTT(30), <2>1, <2>2, <1>1, <1>3
<1> HIDE DEF some
<1>8. /\ some \o back \in Seq(Nat) /\ Len(some \o back) = k + Len(back)
      /\ \A i \in 1..(k + Len(back)) :
           (some \o back)[i] = IF i <= k THEN some[i] ELSE back[i - k]
  BY ZenonT(60), <1>4, <1>7, ConcatProperties
<1> DEFINE all == some \o back
<1>9. k + Len(back) = Len(rows) + 1
  BY <1>1, <1>4
<1>10. /\ all \in Seq(Nat) /\ Len(all) = Len(rows) + 1
       /\ \A i \in 1..(Len(rows) + 1) : all[i] = IF i <= k THEN some[i] ELSE back[i - k]
  BY <1>8, <1>9
<1> HIDE DEF all
<1>11. ASSUME NEW i \in 1..(Len(rows) + 1)
      PROVE  all[i] = IF i < k THEN rows[i] ELSE IF i = k THEN row ELSE rows[i - 1]
  <2>1. all[i] = IF i <= k THEN some[i] ELSE back[i - k]
    BY <1>10
  <2>2. CASE i <= k
    <3>1. some[i] = IF i < k THEN rows[i] ELSE row
      BY <1>1, <1>7, <2>2
    <3> QED
      BY <1>1, <2>1, <2>2, <3>1
  <2>3. CASE i > k
    <3>1. i - k \in 1..(Len(rows) - k + 1) /\ k + (i - k) - 1 = i - 1
      BY <1>1, <2>3
    <3>2. back[i - k] = rows[i - 1]
      BY <1>4, <3>1
    <3> QED
      BY <1>1, <2>1, <2>3, <3>2
  <2> QED
    BY <1>1, <2>2, <2>3
<1>12. InsertAt(rows, k, row) = all
  BY <1>5 DEF some, all
<1> QED
  BY <1>11, <1>12, <1>10

LEMMA RowRemoved ==
  ASSUME NEW rows \in Seq(Nat), NEW k \in 1..Len(rows)
  PROVE  /\ RemoveAt(rows, k) \in Seq(Nat)
         /\ Len(RemoveAt(rows, k)) = Len(rows) - 1
         /\ \A i \in 1..(Len(rows) - 1) :
              RemoveAt(rows, k)[i] = IF i < k THEN rows[i] ELSE rows[i + 1]
<1> DEFINE front == SubSeq(rows, 1, k - 1)
           back == SubSeq(rows, k + 1, Len(rows))
<1>1. Len(rows) \in Nat
  OBVIOUS
<1>2. \A i \in 1..Len(rows) : rows[i] \in Nat
  BY ElementOfSeq
<1>3. front \in Seq(Nat) /\ Len(front) = k - 1 /\ \A i \in 1..(k - 1) : front[i] = rows[i]
  <2>1. \A i \in 1..(k - 1) : rows[i] \in Nat
    BY <1>1, <1>2
  <2>2. /\ front \in Seq(Nat) /\ Len(front) = IF 1 <= k - 1 THEN k - 1 - 1 + 1 ELSE 0
        /\ \A i \in 1..(k - 1 - 1 + 1) : front[i] = rows[1 + i - 1]
    BY <2>1, <1>1, SubSeqProperties
  <2> QED
    BY <2>2, <1>1
<1>4. /\ back \in Seq(Nat) /\ Len(back) = Len(rows) - k
      /\ \A i \in 1..(Len(rows) - k) : back[i] = rows[k + i]
  <2>1. \A i \in (k + 1)..Len(rows) : rows[i] \in Nat
    BY <1>1, <1>2
  <2>2. /\ back \in Seq(Nat)
        /\ Len(back) = IF k + 1 <= Len(rows) THEN Len(rows) - (k + 1) + 1 ELSE 0
        /\ \A i \in 1..(Len(rows) - (k + 1) + 1) : back[i] = rows[k + 1 + i - 1]
    BY <2>1, <1>1, SubSeqProperties
  <2>3. \A i \in 1..(Len(rows) - k) :
          i \in 1..(Len(rows) - (k + 1) + 1) /\ k + 1 + i - 1 = k + i
    BY <1>1
  <2> QED
    BY <2>2, <2>3, <1>1
<1>5. RemoveAt(rows, k) = front \o back
  BY DEF RemoveAt
<1> HIDE DEF front, back
<1>6. /\ front \o back \in Seq(Nat) /\ Len(front \o back) = Len(front) + Len(back)
      /\ \A i \in 1..(Len(front) + Len(back)) :
           (front \o back)[i] = IF i <= Len(front) THEN front[i] ELSE back[i - Len(front)]
  BY <1>3, <1>4, ConcatProperties
<1> DEFINE all == front \o back
<1>7. Len(front) + Len(back) = Len(rows) - 1
  BY <1>1, <1>3, <1>4
<1>8. /\ all \in Seq(Nat) /\ Len(all) = Len(rows) - 1
      /\ \A i \in 1..(Len(rows) - 1) :
           all[i] = IF i <= k - 1 THEN front[i] ELSE back[i - (k - 1)]
  BY <1>3, <1>6, <1>7
<1> HIDE DEF all
<1>9. ASSUME NEW i \in 1..(Len(rows) - 1)
      PROVE  all[i] = IF i < k THEN rows[i] ELSE rows[i + 1]
  <2>1. all[i] = IF i <= k - 1 THEN front[i] ELSE back[i - (k - 1)]
    BY <1>8
  <2>2. CASE i < k
    <3>1. front[i] = rows[i]
      BY <1>1, <1>3, <2>2
    <3> QED
      BY <1>1, <2>1, <2>2, <3>1
  <2>3. CASE i >= k
    <3>1. i - (k - 1) \in 1..(Len(rows) - k) /\ k + (i - (k - 1)) = i + 1
      BY <1>1, <2>3
    <3>2. back[i - (k - 1)] = rows[i + 1]
      BY <1>4, <3>1
    <3> QED
      BY <1>1, <2>1, <2>3, <3>2
  <2> QED
    BY <1>1, <2>2, <2>3
<1> QED
  BY <1>5, <1>9, <1>8 DEF all

LEMMA RowsInserted ==
  ASSUME NEW rows \in Seq(Nat), NEW row \in Nat, NEW k \in 1..(Len(rows) + 1),
         NEW i \in 1..(Len(rows) + 1)
  PROVE  \/ InsertAt(rows, k, row)[i] = row
         \/ \E j \in 1..Len(rows) : InsertAt(rows, k, row)[i] = rows[j]
<1>1. Len(rows) \in Nat
  OBVIOUS
<1>2. InsertAt(rows, k, row)[i] = IF i < k THEN rows[i] ELSE IF i = k THEN row ELSE rows[i - 1]
  BY RowInserted
<1> DEFINE after == InsertAt(rows, k, row)
<1> HIDE DEF after
<1>3. CASE i < k
  <2>1. i \in 1..Len(rows) /\ after[i] = rows[i]
    BY <1>1, <1>2, <1>3 DEF after
  <2> QED
    BY <2>1 DEF after
<1>4. CASE i = k
  BY <1>1, <1>2, <1>4
<1>5. CASE i > k
  <2>1. i - 1 \in 1..Len(rows) /\ after[i] = rows[i - 1]
    BY <1>1, <1>2, <1>5 DEF after
  <2> QED
    BY <2>1 DEF after
<1> QED
  BY <1>1, <1>3, <1>4, <1>5

LEMMA RowsRemoved ==
  ASSUME NEW rows \in Seq(Nat), NEW k \in 1..Len(rows), NEW i \in 1..(Len(rows) - 1)
  PROVE  \E j \in 1..Len(rows) : RemoveAt(rows, k)[i] = rows[j]
<1>1. Len(rows) \in Nat
  OBVIOUS
<1>2. RemoveAt(rows, k)[i] = IF i < k THEN rows[i] ELSE rows[i + 1]
  BY RowRemoved
<1>3. i \in 1..Len(rows) /\ i + 1 \in 1..Len(rows)
  BY <1>1
<1> QED
  BY <1>2, <1>3

LEMMA StoredRows ==
  ASSUME NEW rows \in Seq(Nat), NEW row \in Nat, NEW stored \in StoredIn(rows, row)
  PROVE  \E k \in 1..(Len(rows) + 1) : stored = InsertAt(rows, k, row)
<1>1. Len(rows) \in Nat
  OBVIOUS
<1> QED
  BY <1>1 DEF StoredIn

\* The table after a write, and its rows.
LEMMA InsertWrites ==
  ASSUME LInv, Insert
  PROVE  /\ created' = created + 1 /\ created' \in 0..MaxRows
         /\ \E k \in 1..(Len(table) + 1) : table' = InsertAt(table, k, created + 1)
         /\ table' \in Seq(Nat) /\ Len(table') = Len(table) + 1
         /\ \A i \in 1..Len(table') : \/ table'[i] = created + 1
                                      \/ \E j \in 1..Len(table) : table'[i] = table[j]
<1>1. table \in Seq(Nat) /\ Len(table) \in Nat /\ created \in 0..MaxRows
  BY Types DEF LInv, TableInv
<1>2. created + 1 \in Nat /\ created + 1 \in 0..MaxRows /\ created' = created + 1
  BY <1>1, MaxRowsAssumption DEF Insert
<1>3. PICK k \in 1..(Len(table) + 1) : table' = InsertAt(table, k, created + 1)
  BY <1>1, <1>2, StoredRows DEF Insert
<1> DEFINE after == InsertAt(table, k, created + 1)
<1>4. after \in Seq(Nat) /\ Len(after) = Len(table) + 1
  BY <1>1, <1>2, RowInserted
<1>5. \A i \in 1..(Len(table) + 1) : \/ after[i] = created + 1
                                     \/ \E j \in 1..Len(table) : after[i] = table[j]
  BY <1>1, <1>2, RowsInserted
<1> HIDE DEF after
<1>6. table' = after
  BY <1>3 DEF after
<1> QED
  BY <1>2, <1>3, <1>4, <1>5, <1>6

LEMMA UpdateWrites ==
  ASSUME LInv, Update
  PROVE  /\ UNCHANGED <<created, list>>
         /\ \E j \in 1..Len(table), k \in 1..Len(table) :
              table' = InsertAt(RemoveAt(table, j), k, table[j])
         /\ table' \in Seq(Nat) /\ Len(table') = Len(table)
         /\ \A i \in 1..Len(table') : \E j \in 1..Len(table) : table'[i] = table[j]
<1>1. /\ table \in Seq(Nat) /\ Len(table) \in Nat
      /\ \A j \in 1..Len(table) : table[j] \in Nat
  BY Types, ElementOfSeq
<1>2. PICK j \in 1..Len(table) : table' \in StoredIn(RemoveAt(table, j), table[j])
  BY DEF Update
<1> DEFINE rest == RemoveAt(table, j)
<1>3. rest \in Seq(Nat) /\ Len(rest) = Len(table) - 1
  BY <1>1, RowRemoved
<1>4. \A i \in 1..(Len(table) - 1) : \E l \in 1..Len(table) : rest[i] = table[l]
  BY <1>1, RowsRemoved
<1> HIDE DEF rest
<1>5. PICK k \in 1..(Len(rest) + 1) : table' = InsertAt(rest, k, table[j])
  BY <1>1, <1>2, <1>3, StoredRows DEF rest
<1> DEFINE after == InsertAt(rest, k, table[j])
<1>6. after \in Seq(Nat) /\ Len(after) = Len(rest) + 1
  BY <1>1, <1>3, RowInserted
<1>7. \A i \in 1..(Len(rest) + 1) : \/ after[i] = table[j]
                                    \/ \E l \in 1..Len(rest) : after[i] = rest[l]
  BY <1>1, <1>3, RowsInserted
<1> HIDE DEF after
<1>8. table' = after /\ Len(rest) + 1 = Len(table) /\ Len(after) = Len(table)
  BY <1>1, <1>3, <1>5, <1>6 DEF after
<1>9. \A i \in 1..Len(table) : \E l \in 1..Len(table) : after[i] = table[l]
  BY ZenonT(60), <1>3, <1>4, <1>7, <1>8
<1>10. k \in 1..Len(table) /\ table' = InsertAt(RemoveAt(table, j), k, table[j])
  BY <1>5, <1>8 DEF rest
<1> QED
  BY <1>6, <1>8, <1>9, <1>10 DEF Update

LEMMA DeleteWrites ==
  ASSUME LInv, Delete
  PROVE  /\ UNCHANGED <<created, list>>
         /\ \E k \in 1..Len(table) : table' = RemoveAt(table, k)
         /\ table' \in Seq(Nat) /\ Len(table') = Len(table) - 1
         /\ \A i \in 1..Len(table') : \E j \in 1..Len(table) : table'[i] = table[j]
<1>1. table \in Seq(Nat) /\ Len(table) \in Nat
  BY Types
<1>2. PICK k \in 1..Len(table) : table' = RemoveAt(table, k)
  BY DEF Delete
<1> DEFINE after == RemoveAt(table, k)
<1>3. after \in Seq(Nat) /\ Len(after) = Len(table) - 1
  BY <1>1, RowRemoved
<1>4. \A i \in 1..(Len(table) - 1) : \E j \in 1..Len(table) : after[i] = table[j]
  BY <1>1, RowsRemoved
<1> HIDE DEF after
<1>5. table' = after
  BY <1>2 DEF after
<1> QED
  BY <1>2, <1>3, <1>4, <1>5 DEF Delete

LEMMA WriteInv ==
  ASSUME LInv, Write
  PROVE  /\ LInv'
         /\ UNCHANGED list
         /\ created <= created'
         /\ \A i \in 1..Len(table') : \/ table'[i] = created + 1
                                      \/ \E j \in 1..Len(table) : table'[i] = table[j]
<1>0. /\ Len(table) \in Nat /\ created \in Nat /\ Len(table) <= created
      /\ \A k \in 1..Len(table) : table[k] \in 1..created
  BY Types, MaxRowsAssumption DEF LInv, TableInv
<1>1. CASE Insert
  <2>1. /\ created' = created + 1 /\ created' \in 0..MaxRows
        /\ table' \in Seq(Nat) /\ Len(table') = Len(table) + 1
        /\ \A i \in 1..Len(table') : \/ table'[i] = created + 1
                                     \/ \E j \in 1..Len(table) : table'[i] = table[j]
    BY <1>1, InsertWrites
  <2>2. \A i \in 1..Len(table') : table'[i] \in 1..(created + 1)
    <3>1. created + 1 \in 1..(created + 1)
      BY <1>0
    <3>2. \A k \in 1..Len(table) : table[k] \in 1..(created + 1)
      BY <1>0
    <3> QED
      BY <3>1, <3>2, <2>1
  <2>3. TableInv' /\ created <= created'
    BY <1>0, <2>1, <2>2 DEF TableInv
  <2> QED
    BY <1>1, <2>1, <2>3 DEF LInv, ListInv, Insert
<1>2. ASSUME NEW shorter \in {0, 1}, UNCHANGED <<created, list>>,
             table' \in Seq(Nat), Len(table') = Len(table) - shorter,
             \A i \in 1..Len(table') : \E j \in 1..Len(table) : table'[i] = table[j]
      PROVE  /\ LInv'
             /\ UNCHANGED list
             /\ created <= created'
             /\ \A i \in 1..Len(table') : \E j \in 1..Len(table) : table'[i] = table[j]
  <2>1. \A i \in 1..Len(table') : table'[i] \in 1..created
    BY <1>0, <1>2
  <2>2. Len(table') <= created
    BY <1>0, <1>2
  <2> QED
    BY <1>0, <1>2, <2>1, <2>2 DEF LInv, TableInv, ListInv
<1>3. CASE Update
  <2>1. Len(table') = Len(table) - 0
    BY <1>0, <1>3, UpdateWrites
  <2> QED
    BY <2>1, <1>2, <1>3, UpdateWrites
<1>4. CASE Delete
  BY <1>2, <1>4, DeleteWrites
<1> QED
  BY <1>1, <1>3, <1>4 DEF Write

LEMMA CountInv ==
  ASSUME LInv, NEW page \in Nat, NEW size \in Nat, NEW inverted \in BOOLEAN,
         Count(page, size, inverted)
  PROVE  /\ LInv'
         /\ list'.pc = "find" /\ list'.page = Asked(page) /\ list'.size = size
         /\ list'.inverted = inverted /\ list'.counted = table
<1>1. /\ list'.pc = "find" /\ list'.page = Asked(page) /\ list'.size = size
      /\ list'.inverted = inverted /\ list'.counted = table
  BY DEF Count
<1>2. Asked(page) \in Nat \ {0}
  BY DEF Asked
<1>3. Len(table) <= MaxRows
  BY MaxRowsAssumption DEF LInv, TableInv
<1>4. ListInv'
  BY <1>1, <1>2, <1>3 DEF LInv, ListInv, TableInv
<1> QED
  BY <1>1, <1>4 DEF LInv, TableInv, Count

LEMMA FindInv ==
  ASSUME LInv, Find
  PROVE  /\ LInv'
         /\ list'.pc = "answered" /\ list'.page = list.page /\ list'.size = list.size
         /\ list'.inverted = list.inverted /\ list'.counted = list.counted
<1>1. /\ list'.pc = "answered" /\ list'.page = list.page /\ list'.size = list.size
      /\ list'.inverted = list.inverted /\ list'.counted = list.counted
  BY DEF Find
<1>2. list.pc = "find"
  BY DEF Find
<1> QED
  BY <1>1, <1>2 DEF LInv, ListInv, TableInv, Find

LEMMA FindAnswersPage ==
  ASSUME LInv, Find, Begins(list.counted, table), UpTo(list.page, list.size) <= MaxInt
  PROVE  list'.result = PageOf(IF list.inverted THEN Reverse(list.counted) ELSE table,
                               list.page, list.size)
<1>1. list.page \in Nat \ {0}
  BY DEF LInv, ListInv, Find
<1>2. Len(list.counted) <= MaxInt
  BY MaxRowsAssumption, MaxIntAssumption DEF LInv, ListInv
<1>3. list'.result = Fetched(table, Len(list.counted), list.page, list.size, list.inverted)
  BY DEF Find
<1> QED
  BY <1>1, <1>2, <1>3, FetchedIsPage DEF LInv, ListInv, TableInv

----------------------------------------------------------------------------
(* Theorems of a listing.                                                  *)

LEMMA InitLInv == Init => LInv
<1> SUFFICES ASSUME Init PROVE LInv
  OBVIOUS
<1>1. table = <<>> /\ <<>> \in Seq(Nat) /\ Len(<<>>) = 0
  BY DEF Init
<1> QED
  BY <1>1, MaxRowsAssumption DEF Init, Idle, LInv, TableInv, ListInv

LEMMA AskedFor ==
  /\ \A page \in Pages : page \in Nat
  /\ \A size \in Sizes : size \in 0..MaxInt
BY PagesAssumption, SizesAssumption, MaxIntAssumption

LEMMA FindExact ==
  ASSUME LInv, Find, IsPrefix(list.counted, table), list.page * list.size <= MaxInt
  PROVE  list'.result = PageOf(IF list.inverted THEN Reverse(list.counted) ELSE table,
                               list.page, list.size)
<1>1. Begins(list.counted, table)
  BY PrefixBegins DEF LInv, ListInv, TableInv
<1>2. UpTo(list.page, list.size) <= MaxInt
  BY DEF UpTo
<1> QED
  BY <1>1, <1>2, FindAnswersPage

LEMMA NextLInv == LInv /\ [Next]_vars => LInv'
<1> SUFFICES ASSUME LInv, [Next]_vars PROVE LInv'
  OBVIOUS
<1>1. CASE Write
  BY <1>1, WriteInv
<1>2. CASE \E page \in Pages, size \in Sizes, inverted \in BOOLEAN :
             Count(page, size, inverted)
  <2>1. PICK page \in Pages, size \in Sizes, inverted \in BOOLEAN :
               Count(page, size, inverted)
    BY <1>2
  <2>2. page \in Nat /\ size \in Nat
    BY AskedFor, MaxIntAssumption
  <2> QED
    BY <2>1, <2>2, CountInv
<1>3. CASE Find
  BY <1>3, FindInv
<1>4. CASE UNCHANGED vars
  BY <1>4 DEF vars, LInv, ListInv, TableInv
<1> QED
  BY <1>1, <1>2, <1>3, <1>4 DEF Next

\* Whatever is written meanwhile, an answer computed from a count that only missed rows
\* added at the end is exactly the page of the definition, for any table, page and size
\* whose product is an int: in either direction, the short last page, pages beyond it.
THEOREM PagesExact == Spec => PageExact
<1>1. LInv /\ [Next]_vars => (Find /\ IsPrefix(list.counted, table)
                                /\ list.page * list.size <= MaxInt
        => list'.result = PageOf(IF list.inverted THEN Reverse(list.counted) ELSE table,
                                 list.page, list.size))
  BY FindExact
<1>2. LInv /\ [Next]_vars => [Find /\ IsPrefix(list.counted, table)
                                /\ list.page * list.size <= MaxInt
        => list'.result = PageOf(IF list.inverted THEN Reverse(list.counted) ELSE table,
                                 list.page, list.size)]_vars
  BY <1>1
<1> QED
  BY InitLInv, NextLInv, <1>2, PTL DEF Spec, PageExact

----------------------------------------------------------------------------
(* What a write moves across the border of a window of the table.          *)

Outside(k, low, high) == k <= low \/ k > high

\* Of the rows that the write leaves outside, all but those in moving were there before.
Crossing(rows, after, low, high, moving) ==
  \A k \in 1..Len(after) : Outside(k, low, high) =>
    \/ after[k] \in moving
    \/ \E j \in 1..Len(rows) : after[k] = rows[j] /\ Outside(j, low, high)

LEMMA CrossingUnmoved ==
  ASSUME NEW rows, NEW after, NEW low, NEW high, NEW moving,
         \A k \in 1..Len(after) : \/ after[k] \in moving
                                  \/ k \in 1..Len(rows) /\ after[k] = rows[k]
  PROVE  Crossing(rows, after, low, high, moving)
BY DEF Crossing

\* A new row pushes one row across a border at most.
LEMMA InsertCrossing ==
  ASSUME NEW rows \in Seq(Nat), NEW row \in Nat, NEW i \in 1..(Len(rows) + 1),
         NEW low \in Nat, NEW high \in Int
  PROVE  \E x : Crossing(rows, InsertAt(rows, i, row), low, high, {x, row})
<1> DEFINE after == InsertAt(rows, i, row)
<1>1. Len(rows) \in Nat
  OBVIOUS
<1>2. /\ Len(after) = Len(rows) + 1
      /\ \A k \in 1..(Len(rows) + 1) :
           after[k] = IF k < i THEN rows[k] ELSE IF k = i THEN row ELSE rows[k - 1]
  BY ZenonT(60), RowInserted
<1> HIDE DEF after
<1>3. ASSUME NEW k \in 1..Len(after), Outside(k, low, high)
      PROVE  \/ after[k] \in {rows[high], row}
             \/ \E j \in 1..Len(rows) : after[k] = rows[j] /\ Outside(j, low, high)
  <2>1. CASE k < i
    <3>1. k \in 1..Len(rows) /\ after[k] = rows[k]
      BY <1>1, <1>2, <2>1
    <3> QED
      BY <1>3, <3>1
  <2>2. CASE k = i
    BY <1>1, <1>2, <2>2
  <2>3. CASE k > i
    <3>1. k - 1 \in 1..Len(rows) /\ after[k] = rows[k - 1]
      BY <1>1, <1>2, <2>3
    <3>2. CASE k - 1 = high
      BY <3>1, <3>2
    <3>3. CASE k - 1 # high
      <4>1. Outside(k - 1, low, high)
        BY <1>1, <1>2, <1>3, <3>3 DEF Outside
      <4> QED
        BY <3>1, <4>1
    <3> QED
      BY <3>2, <3>3
  <2> QED
    BY <1>1, <1>2, <2>1, <2>2, <2>3
<1>4. Crossing(rows, after, low, high, {rows[high], row})
  BY <1>3 DEF Crossing
<1> QED
  BY <1>4 DEF after

\* A deleted row pulls one row across the lower border at most, if there is one.
LEMMA DeleteCrossing ==
  ASSUME NEW rows \in Seq(Nat), NEW i \in 1..Len(rows), NEW low \in Nat, NEW high \in Int
  PROVE  \E x : Crossing(rows, RemoveAt(rows, i), low, high, IF low = 0 THEN {} ELSE {x})
<1> DEFINE after == RemoveAt(rows, i)
<1>1. Len(rows) \in Nat
  OBVIOUS
<1>2. /\ Len(after) = Len(rows) - 1
      /\ \A k \in 1..(Len(rows) - 1) : after[k] = IF k < i THEN rows[k] ELSE rows[k + 1]
  BY RowRemoved
<1> HIDE DEF after
<1>3. ASSUME NEW k \in 1..Len(after), Outside(k, low, high)
      PROVE  \/ low # 0 /\ after[k] = rows[low + 1]
             \/ \E j \in 1..Len(rows) : after[k] = rows[j] /\ Outside(j, low, high)
  <2>1. CASE k < i
    <3>1. k \in 1..Len(rows) /\ after[k] = rows[k]
      BY <1>1, <1>2, <2>1
    <3> QED
      BY <1>3, <3>1
  <2>2. CASE k >= i
    <3>1. k + 1 \in 1..Len(rows) /\ after[k] = rows[k + 1] /\ k > 0
      BY SMTT(30), <1>1, <1>2, <2>2
    <3>2. CASE k = low
      BY <3>1, <3>2
    <3>3. CASE k # low
      <4>1. Outside(k + 1, low, high)
        BY <1>1, <1>2, <1>3, <3>3 DEF Outside
      <4> QED
        BY <3>1, <4>1
    <3> QED
      BY <3>2, <3>3
  <2> QED
    BY <1>1, <1>2, <2>1, <2>2
<1>4. Crossing(rows, after, low, high, IF low = 0 THEN {} ELSE {rows[low + 1]})
  BY <1>3 DEF Crossing
<1> QED
  BY <1>4 DEF after

\* A row that is moved from place j to place i moves one row across a border at most,
\* itself or another one.
LEMMA UpdateCrossing ==
  ASSUME NEW rows \in Seq(Nat), NEW j \in 1..Len(rows), NEW i \in 1..Len(rows),
         NEW low \in Nat, NEW high \in Int
  PROVE  \E x : Crossing(rows, InsertAt(RemoveAt(rows, j), i, rows[j]), low, high, {x})
<1> DEFINE rest == RemoveAt(rows, j)
           after == InsertAt(rest, i, rows[j])
<1>1. Len(rows) \in Nat /\ rows[j] \in Nat
  BY ElementOfSeq
<1>2. /\ rest \in Seq(Nat) /\ Len(rest) = Len(rows) - 1
      /\ \A k \in 1..(Len(rows) - 1) : rest[k] = IF k < j THEN rows[k] ELSE rows[k + 1]
  BY RowRemoved
<1> HIDE DEF rest
<1>3. i \in 1..(Len(rest) + 1)
  BY <1>1, <1>2
<1>4. /\ Len(after) = Len(rest) + 1
      /\ \A k \in 1..(Len(rest) + 1) :
           after[k] = IF k < i THEN rest[k] ELSE IF k = i THEN rows[j] ELSE rest[k - 1]
  <2> DEFINE row == rows[j]
  <2>1. row \in Nat
    BY <1>1
  <2> HIDE DEF row
  <2>2. /\ Len(InsertAt(rest, i, row)) = Len(rest) + 1
        /\ \A k \in 1..(Len(rest) + 1) :
             InsertAt(rest, i, row)[k] = IF k < i THEN rest[k]
                                         ELSE IF k = i THEN row ELSE rest[k - 1]
    BY <2>1, <1>2, <1>3, RowInserted
  <2> QED
    BY <2>2 DEF row
<1> HIDE DEF after
\* Where the row at place k was.
<1> DEFINE from(k) == IF k = i THEN j
                      ELSE IF i < k /\ k <= j THEN k - 1
                      ELSE IF j <= k /\ k < i THEN k + 1
                      ELSE k
           x == IF low < j /\ j <= high THEN rows[j]
                ELSE IF j <= low THEN rows[low + 1]
                ELSE rows[high]
<1>5. ASSUME NEW k \in 1..Len(after)
      PROVE  from(k) \in 1..Len(rows) /\ after[k] = rows[from(k)]
  <2>0. k \in 1..Len(rows)
    BY <1>1, <1>2, <1>4
  <2>1. from(k) \in 1..Len(rows)
    BY <1>1, <2>0
  <2>2. after[k] = IF k < i THEN rest[k] ELSE IF k = i THEN rows[j] ELSE rest[k - 1]
    BY <1>1, <1>2, <1>4
  <2>3. CASE k < i
    <3>1. k \in 1..(Len(rows) - 1) /\ after[k] = rest[k]
      BY <1>1, <2>0, <2>2, <2>3
    <3>2. rest[k] = IF k < j THEN rows[k] ELSE rows[k + 1]
      BY <1>2, <3>1
    <3>3. from(k) = IF k < j THEN k ELSE k + 1
      BY <1>1, <2>0, <2>3
    <3> QED
      BY <2>1, <3>1, <3>2, <3>3
  <2>4. CASE k = i
    BY <2>1, <2>2, <2>4, <1>1
  <2>5. CASE k > i
    <3>1. k - 1 \in 1..(Len(rows) - 1) /\ after[k] = rest[k - 1]
      BY <1>1, <2>0, <2>2, <2>5
    <3>2. rest[k - 1] = IF k - 1 < j THEN rows[k - 1] ELSE rows[k]
      <4>1. rest[k - 1] = IF k - 1 < j THEN rows[k - 1] ELSE rows[(k - 1) + 1]
        BY <1>2, <3>1
      <4>2. (k - 1) + 1 = k
        BY <2>0
      <4> QED
        BY <4>1, <4>2
    <3>3. from(k) = IF k - 1 < j THEN k - 1 ELSE k
      BY <1>1, <2>0, <2>5
    <3> QED
      BY <2>1, <3>1, <3>2, <3>3
  <2> QED
    BY <2>0, <2>3, <2>4, <2>5, <1>1
<1>6. ASSUME NEW k \in 1..Len(after), Outside(k, low, high), ~Outside(from(k), low, high)
      PROVE  rows[from(k)] = x
  <2>0. k \in Nat /\ j \in Nat /\ i \in Nat
    BY <1>1, <1>2, <1>4
  <2>1. \/ low < j /\ j <= high /\ from(k) = j
        \/ j <= low /\ from(k) = low + 1
        \/ j > high /\ low < j /\ from(k) = high
    BY <2>0, <1>6 DEF Outside
  <2>2. CASE low < j /\ j <= high /\ from(k) = j
    BY <2>2
  <2>3. CASE j <= low /\ from(k) = low + 1
    <3>1. ~(low < j)
      BY <2>0, <2>3
    <3> QED
      BY <2>3, <3>1
  <2>4. CASE j > high /\ low < j /\ from(k) = high
    <3>1. ~(j <= high) /\ ~(j <= low)
      BY <2>0, <2>4
    <3> QED
      BY <2>4, <3>1
  <2> QED
    BY <2>1, <2>2, <2>3, <2>4
<1> HIDE DEF from, x
<1>7. Crossing(rows, after, low, high, {x})
  BY <1>5, <1>6 DEF Crossing
<1> QED
  BY <1>7 DEF after, rest

----------------------------------------------------------------------------
(* What a page reads, although the table may have been written since the count. *)

LEMMA ForwardReads ==
  ASSUME NEW rows \in Seq(Nat), NEW page \in Nat \ {0}, NEW size \in Nat,
         UpTo(page, size) <= MaxInt, NEW k \in 1..Len(rows),
         First(page, size) < k, k <= UpTo(page, size)
  PROVE  LET found == Select(rows, Window(page, size))
         IN  \E j \in 1..Len(found) : found[j] = rows[k]
<1> DEFINE first == First(page, size)
           found == PageOf(rows, page, size)
<1>1. Select(rows, Window(page, size)) = found
  BY PageForward
<1>2. /\ Len(found) = Length(Len(rows), first, size)
      /\ \A j \in 1..Length(Len(rows), first, size) : found[j] = rows[first + j]
  BY PageRows
<1>3. first \in Nat /\ UpTo(page, size) = first + size /\ Len(rows) \in Nat
  BY PageEnds
<1>4. k - first \in 1..Length(Len(rows), first, size) /\ first + (k - first) = k
  <2> HIDE DEF first
  <2> QED
    BY <1>3 DEF Length, first
<1> HIDE DEF first, found
<1>5. k - first \in 1..Len(found) /\ found[k - first] = rows[k]
  BY <1>2, <1>4
<1> QED
  BY <1>1, <1>5

LEMMA InvertedReads ==
  ASSUME NEW rows \in Seq(Nat), NEW total \in Nat, NEW page \in Nat \ {0}, NEW size \in Nat,
         UpTo(page, size) <= MaxInt, total <= MaxInt, NEW k \in 1..Len(rows),
         total - UpTo(page, size) < k, k <= total - First(page, size)
  PROVE  LET found == Reverse(Select(rows, InvertedWindow(total, page, size)))
         IN  \E j \in 1..Len(found) : found[j] = rows[k]
<1> DEFINE first == First(page, size)
           upTo == UpTo(page, size)
           window == InvertedWindow(total, page, size)
           length == Length(total, first, size)
           found == Select(rows, window)
<1>1. first \in Nat /\ upTo = first + size /\ Len(rows) \in Nat
  BY PageEnds
<1>2. /\ window.offset \in Nat /\ window.limit \in Nat
      /\ \A n \in Nat : total <= n => Length(n, window.offset, window.limit) = length
      /\ length # 0 => window.offset = total - first - length
  BY InvertedRows
<1>3. /\ found \in Seq(Nat)
      /\ Len(found) = Length(Len(rows), window.offset, window.limit)
      /\ \A j \in 1..Length(Len(rows), window.offset, window.limit) :
           found[j] = rows[window.offset + j]
  <2>1. Cut(Nat, found, rows, window.offset, window.limit)
    BY <1>2, SelectRows
  <2> QED
    BY <2>1 DEF Cut
<1>4. total - upTo < k /\ k <= total - first /\ k \in Nat /\ k >= 1 /\ k <= Len(rows)
  BY <1>1
<1> HIDE DEF window, first, upTo, found
<1> DEFINE offset == window.offset
           limit == window.limit
           n == total + offset + limit
<1>5. limit = length
  <2>0. offset \in Nat /\ limit \in Nat
    BY <1>2
  <2>1. n \in Nat /\ total <= n /\ total > 0
    <3> HIDE DEF offset, limit
    <3>1. n \in Nat /\ total <= n
      BY <2>0
    <3>2. total > 0
      BY <1>1, <1>4
    <3> QED
      BY <3>1, <3>2
  <2>2. Length(n, offset, limit) = length
    BY <2>1, <1>2
  <2>3. Length(n, offset, limit) = limit
    <3> HIDE DEF offset, limit
    <3> QED
      BY <2>0, <2>1 DEF Length
  <2> QED
    BY <2>2, <2>3
<1>6. offset < k /\ k <= offset + length /\ length \in Nat
  <2>1. /\ length \in Nat /\ length # 0
        /\ length = IF total < first + size THEN total - first ELSE size
    BY <1>1, <1>4 DEF Length
  <2>2. offset = total - first - length
    BY <2>1, <1>2
  <2> HIDE DEF length
  <2> QED
    BY <2>1, <2>2, <1>1, <1>4
<1> HIDE DEF length
<1> DEFINE j == k - offset
<1>7. j \in 1..Length(Len(rows), offset, limit) /\ offset + j = k
  <2>1. offset \in Nat /\ limit \in Nat /\ offset < k /\ k <= offset + limit
    BY <1>2, <1>5, <1>6
  <2> HIDE DEF offset, limit
  <2> QED
    BY <2>1, <1>1, <1>4 DEF Length
<1> HIDE DEF j
<1>8. j \in 1..Len(found) /\ found[j] = rows[k]
  BY <1>3, <1>7
<1>9. /\ Len(Reverse(found)) = Len(found) /\ Len(found) \in Nat
      /\ \A i \in 1..Len(found) : Reverse(found)[i] = found[Len(found) - i + 1]
  <2>1. found \in Seq(Nat)
    BY <1>3
  <2>2. Len(found) \in Nat
    BY <2>1, LenProperties
  <2> QED
    BY <2>1, <2>2, ReverseRows
<1>10. /\ Len(found) - j + 1 \in 1..Len(found)
       /\ Len(found) - (Len(found) - j + 1) + 1 = j
  BY <1>8, <1>9
<1>11. Reverse(found)[Len(found) - j + 1] = rows[k]
  BY <1>8, <1>9, <1>10
<1> QED
  BY <1>9, <1>10, <1>11 DEF found, window

----------------------------------------------------------------------------
(* A client that reads every page.                                         *)

\* How many rows the pages have that were read so far.
Read == IF list.pc = "find" THEN First(list.page, list.size)
                            ELSE UpTo(list.page, list.size)

\* The places of the table that the sweep has still to read are those in between.
Low  == IF list.inverted THEN 0 ELSE Read
High == IF list.inverted THEN Len(list.counted) - Read ELSE Len(list.counted)

\* The rows by which the table, counted from its end, is shorter than when it was counted:
\* the next page starts so much further down.
Short == IF list.inverted /\ Len(list.counted) > Len(table)
           THEN Len(list.counted) - Len(table) ELSE 0

\* The rows of begun that are stored outside are known.
Accounted(rows, low, high, begun, known) ==
  \A k \in 1..Len(rows) : rows[k] \in begun /\ Outside(k, low, high) => rows[k] \in known

Few(lost, n, m) == IsFiniteSet(lost) /\ Cardinality(lost) + n <= m

\* Each write that moved rows has cost one row, or made the table shorter than counted.
Sweeping == /\ list.pc # "idle"
            /\ list.size \in 1..MaxInt
            /\ First(list.page, list.size) \in 0..MaxRows
            /\ \E lost : /\ Few(lost, Short, moved)
                         /\ Accounted(table, Low, High, start, seen \cup lost)
            /\ moved = 0 => start \subseteq Stored

Swept == /\ \E lost : Few(lost, 0, moved) /\ (start \cap Stored) \ seen \subseteq lost
         /\ moved = 0 => start \subseteq seen

SweepInv == /\ LInv
            /\ moved \in Nat
            /\ start \subseteq 1..created
            /\ sweep \in {"none", "under way", "over"}
            /\ sweep = "under way" => Sweeping
            /\ sweep = "over" => Swept

LEMMA UpToSmall ==
  ASSUME LInv, Sweeping
  PROVE  /\ list.page \in Nat \ {0} /\ list.size \in Nat
         /\ UpTo(list.page, list.size) \in 0..MaxInt
<1>1. list.page \in Nat \ {0} /\ list.size \in Nat /\ list.size \in 1..MaxInt
  BY MaxIntAssumption DEF LInv, ListInv, Sweeping
<1> DEFINE page == list.page
           size == list.size
<1>2. CASE page = 1
  <2>1. UpTo(page, size) = size
    BY <1>1, <1>2 DEF UpTo
  <2> QED
    BY <2>1, <1>1
<1>3. CASE page # 1
  <2>1. First(page, size) <= MaxRows
    BY MaxRowsAssumption DEF Sweeping
  <2>2. page - 1 \in Nat \ {0} /\ First(page, size) = UpTo(page - 1, size)
    BY <1>1, <1>3 DEF First, UpTo
  <2>3. size <= First(page, size)
    BY <2>2, <1>1, FirstNat
  <2>4. /\ UpTo(page, size) \in Nat /\ First(page, size) = UpTo(page, size) - size
        /\ size \in Nat /\ First(page, size) \in Nat
    BY <1>1, FirstNat
  <2>5. UpTo(page, size) \in 0..MaxInt
    <3> HIDE DEF page, size
    <3> QED
      BY <2>1, <2>3, <2>4, MaxRowsAssumption, MaxIntAssumption
  <2> QED
    BY <2>5, <1>1
<1> QED
  BY <1>1, <1>2, <1>3

LEMMA ReadTypes ==
  ASSUME LInv, list.pc # "idle"
  PROVE  /\ Read \in Nat /\ Low \in Nat /\ High \in Int /\ Short \in Nat
<1>1. /\ list.page \in Nat \ {0} /\ list.size \in Nat /\ list.inverted \in BOOLEAN
      /\ Len(list.counted) \in Nat /\ Len(table) \in Nat
  BY Types
<1>2. Read \in Nat
  BY <1>1, FirstNat DEF Read
<1> QED
  BY <1>1, <1>2 DEF Low, High, Short

\* A write that moves rows affords one row more, unless it makes the table shorter.
LEMMA FewMore ==
  ASSUME NEW lost, NEW x, NEW n \in Nat, NEW m \in Nat, NEW n2 \in Nat, NEW m2 \in Nat,
         m2 = m + 1, n2 <= n, Few(lost, n, m)
  PROVE  Few(lost \cup {x}, n2, m2)
<1>1. IsFiniteSet(lost) /\ Cardinality(lost) \in Nat /\ Cardinality(lost) + n <= m
  BY FS_CardinalityType DEF Few
<1>2. /\ IsFiniteSet(lost \cup {x})
      /\ Cardinality(lost \cup {x}) = IF x \in lost THEN Cardinality(lost)
                                                    ELSE Cardinality(lost) + 1
  BY <1>1, FS_AddElement
<1> QED
  BY <1>1, <1>2 DEF Few

LEMMA FewAsMany ==
  ASSUME NEW lost, NEW n \in Nat, NEW m \in Nat, NEW n2 \in Nat, NEW m2 \in Nat,
         \/ m2 = m /\ n2 <= n
         \/ m2 = m + 1 /\ n2 <= n + 1,
         Few(lost, n, m)
  PROVE  Few(lost, n2, m2)
<1>1. IsFiniteSet(lost) /\ Cardinality(lost) \in Nat /\ Cardinality(lost) + n <= m
  BY FS_CardinalityType DEF Few
<1> QED
  BY <1>1 DEF Few

\* A page that is asked for when the table is at its start.
LEMMA SweepStarts ==
  ASSUME SweepInv, SweepBegins
  PROVE  SweepInv'
<1>1. PICK size \in Sizes \ {0}, inverted \in BOOLEAN : Count(1, size, inverted)
  BY DEF SweepBegins
<1>2. size \in 1..MaxInt /\ size \in Nat
  BY AskedFor, MaxIntAssumption
<1>3. /\ LInv'
      /\ list'.pc = "find" /\ list'.page = 1 /\ list'.size = size
      /\ list'.inverted = inverted /\ list'.counted = table
  BY <1>1, <1>2, CountInv DEF SweepInv, Asked
<1>4. table' = table /\ created' = created /\ table \in Seq(Nat) /\ Len(table) \in Nat
  BY <1>1, Types DEF Count, SweepInv
<1>5. start' = Stored /\ moved' = 0
  BY DEF SweepBegins
<1>6. First(1, size) = 0
  BY <1>2 DEF First
<1>7. Read' = 0
  BY <1>3, <1>6 DEF Read
<1>8. Low' = 0 /\ High' = Len(table) /\ Short' = 0
  BY <1>3, <1>4, <1>7 DEF Low, High, Short
<1>9. Accounted(table, Low, High, start, seen \cup {})'
  BY <1>4, <1>8 DEF Accounted, Outside
<1>10. Few({}, Short', moved')
  BY <1>5, <1>8, FS_EmptySet DEF Few
<1>11. Stored' = Stored /\ Stored \subseteq 1..created
  BY <1>4 DEF Stored, SweepInv, LInv, TableInv
<1>12. /\ list'.pc # "idle" /\ list'.size \in 1..MaxInt
       /\ First(list'.page, list'.size) \in 0..MaxRows
  BY <1>2, <1>3, <1>6, MaxRowsAssumption
<1>13. \E lost : /\ Few(lost, Short', moved')
                 /\ Accounted(table', Low', High', start', seen' \cup lost)
  BY <1>9, <1>10
<1>14. start' \subseteq Stored'
  BY <1>5, <1>11
<1>15. Sweeping'
  BY <1>12, <1>13, <1>14 DEF Sweeping
<1>16. sweep' = "under way" /\ moved' \in Nat /\ start' \subseteq 1..created'
  <2>1. sweep' = "under way"
    BY DEF SweepBegins
  <2>2. moved' \in Nat
    BY <1>5
  <2>3. start' \subseteq 1..created'
    BY <1>4, <1>5, <1>11
  <2> QED
    BY <2>1, <2>2, <2>3
<1> QED
  BY <1>3, <1>15, <1>16 DEF SweepInv

\* The next page starts where this one ends, but in a table that is shorter than it was
\* counted, it starts further down: the rows in between are lost.
LEMMA SweepGoesOn ==
  ASSUME SweepInv, NextPage
  PROVE  SweepInv'
<1>1. /\ LInv /\ sweep = "under way" /\ list.pc = "answered" /\ list.pc # "idle"
      /\ Sweeping /\ moved \in Nat /\ start \subseteq 1..created
  BY DEF SweepInv, NextPage
<1>2. /\ list.page \in Nat \ {0} /\ list.size \in Nat /\ list.inverted \in BOOLEAN
      /\ list.page + 1 \in Nat /\ Asked(list.page + 1) = list.page + 1
      /\ list.counted \in Seq(Nat) /\ Len(list.counted) \in Nat
  <2>1. /\ list.page \in Nat \ {0} /\ list.size \in Nat /\ list.inverted \in BOOLEAN
        /\ list.counted \in Seq(Nat) /\ Len(list.counted) \in Nat
    BY <1>1, Types
  <2> QED BY <2>1 DEF Asked
<1>3. /\ LInv'
      /\ list'.pc = "find" /\ list'.page = list.page + 1 /\ list'.size = list.size
      /\ list'.inverted = list.inverted /\ list'.counted = table
  BY ZenonT(60), <1>1, <1>2, CountInv DEF NextPage
<1>4. /\ table' = table /\ created' = created /\ table \in Seq(Nat) /\ Len(table) \in Nat
      /\ UNCHANGED <<sweep, start, seen, moved>>
  BY <1>1, Types DEF NextPage, Count
<1> DEFINE upTo == UpTo(list.page, list.size)
           total == Len(list.counted)
           length == Len(table)
<1>5. upTo \in Nat /\ First(list.page + 1, list.size) = upTo
  BY <1>2, FirstNat DEF First, UpTo
<1>6. upTo < total
  <2>1. ~(upTo >= total)
    BY DEF NextPage, LastPage, UpTo
  <2> HIDE DEF upTo, total
  <2> QED BY <2>1, <1>2, <1>5 DEF total
<1>7. Read = upTo /\ Read' = upTo
  BY <1>1, <1>3, <1>5 DEF Read
<1>8. PICK lost : /\ Few(lost, Short, moved)
                  /\ Accounted(table, Low, High, start, seen \cup lost)
  BY <1>1 DEF Sweeping
<1>9. total \in Nat /\ length \in Nat /\ moved \in Nat
  BY <1>1, <1>2, <1>4
<1>10. Short' = 0 /\ moved' = moved
  BY <1>3, <1>4 DEF Short
<1> HIDE DEF upTo
<1> DEFINE Kept == \E more : /\ Few(more, Short', moved')
                             /\ Accounted(table', Low', High', start', seen' \cup more)
<1>11. ASSUME ~list.inverted \/ total <= length PROVE Kept
  <2>1. Accounted(table', Low', High', start', seen' \cup lost)
    <3> SUFFICES ASSUME NEW k \in 1..length, Outside(k, Low', High'), table[k] \in start
                 PROVE  table[k] \in seen \cup lost
      BY <1>4 DEF Accounted
    <3>1. Outside(k, Low, High)
      <4>1. CASE list.inverted
        <5>1. Low = 0 /\ High = total - upTo /\ Low' = 0 /\ High' = length - upTo
          BY <4>1, <1>3, <1>7 DEF Low, High
        <5> QED
          BY <5>1, <4>1, <1>2, <1>4, <1>5, <1>11 DEF Outside
      <4>2. CASE ~list.inverted
        <5>1. Low = upTo /\ High = total /\ Low' = upTo /\ High' = length
          BY <4>2, <1>3, <1>7 DEF Low, High
        <5>2. k <= length /\ ~(k > length)
          BY <1>4
        <5> QED
          BY <5>1, <5>2 DEF Outside
      <4> QED
        BY <4>1, <4>2
    <3> QED
      BY <3>1, <1>8 DEF Accounted
  <2>2. Few(lost, Short', moved')
    <3>1. Short = 0
      BY <1>9, <1>11 DEF Short
    <3> QED
      BY <3>1, <1>8, <1>10
  <2> QED
    BY <2>1, <2>2
<1>12. ASSUME list.inverted, length < total PROVE Kept
  <2> DEFINE from == length - upTo + 1
             to == total - upTo
             places == {k \in 1..length : from <= k /\ k <= to}
             jumped == {table[k] : k \in places}
  <2>1. /\ IsFiniteSet(jumped) /\ Cardinality(jumped) \in Nat
        /\ Cardinality(jumped) <= total - length
    <3>1. from \in Int /\ to \in Int /\ to - from + 1 = total - length /\ ~(from > to)
      BY <1>2, <1>4, <1>5, <1>12
    <3>2. places \subseteq from..to
      BY <3>1, <1>4
    <3> HIDE DEF from, to, places
    <3>3. IsFiniteSet(from..to) /\ Cardinality(from..to) = total - length
      BY <3>1, FS_Interval
    <3>4. IsFiniteSet(places) /\ Cardinality(places) <= total - length
      BY <3>2, <3>3, FS_Subset
    <3> DEFINE f == [k \in places |-> table[k]]
    <3>5. f \in Surjection(places, jumped)
      BY DEF Surjection
    <3>6. IsFiniteSet(jumped) /\ Cardinality(jumped) <= Cardinality(places)
      BY <3>4, <3>5, FS_Surjection
    <3>7. Cardinality(jumped) \in Nat /\ Cardinality(places) \in Nat
      BY <3>4, <3>6, FS_CardinalityType
    <3> QED
      BY <3>4, <3>6, <3>7, <1>2, <1>4
  <2>2. Few(lost \cup jumped, Short', moved')
    <3>1. Short = total - length
      BY <1>9, <1>12 DEF Short
    <3>2. IsFiniteSet(lost) /\ Cardinality(lost) + (total - length) <= moved
      BY <3>1, <1>8 DEF Few
    <3> HIDE DEF jumped
    <3>3. /\ IsFiniteSet(lost \cup jumped)
          /\ Cardinality(lost \cup jumped)
               = Cardinality(lost) + Cardinality(jumped) - Cardinality(lost \cap jumped)
      BY <2>1, <3>2, FS_Union
    <3>4. /\ Cardinality(lost) \in Nat
          /\ Cardinality(lost \cap jumped) \in Nat
      <4>1. IsFiniteSet(lost \cap jumped)
        BY <3>2, FS_Intersection
      <4> QED
        BY <4>1, <3>2, FS_CardinalityType
    <3>5. Cardinality(lost \cup jumped) + 0 <= moved
      <4> HIDE DEF total, length
      <4> QED
        BY <2>1, <3>2, <3>3, <3>4, <1>9
    <3> QED
      BY <3>3, <3>5, <1>10 DEF Few
  <2>3. Accounted(table', Low', High', start', seen' \cup (lost \cup jumped))
    <3> SUFFICES ASSUME NEW k \in 1..length, Outside(k, Low', High'), table[k] \in start
                 PROVE  table[k] \in seen \cup (lost \cup jumped)
      BY <1>4 DEF Accounted
    <3>1. Low = 0 /\ High = to /\ Low' = 0 /\ High' = length - upTo
      BY <1>3, <1>7, <1>12 DEF Low, High
    <3>2. CASE k <= to
      <4>1. k \in places
        BY <3>1, <3>2, <1>4, <1>5 DEF Outside
      <4> QED
        BY <4>1
    <3>3. CASE k > to
      <4>1. Outside(k, Low, High)
        BY <3>1, <3>3 DEF Outside
      <4> QED
        BY <4>1, <1>8 DEF Accounted
    <3> QED
      BY <3>2, <3>3, <1>2, <1>4, <1>5
  <2> HIDE DEF jumped
  <2> QED
    BY <2>2, <2>3
<1>13. Kept
  <2>1. \/ ~list.inverted \/ total <= length
        \/ list.inverted /\ length < total
    BY <1>9
  <2> HIDE DEF Kept, total, length
  <2> QED
    BY <2>1, <1>11, <1>12
<1>14. First(list'.page, list'.size) \in 0..MaxRows
  <2>1. total <= MaxRows
    BY <1>1 DEF LInv, ListInv
  <2> HIDE DEF total
  <2> QED
    BY <2>1, <1>9, <1>3, <1>5, <1>6, MaxRowsAssumption
<1>15. Sweeping'
  BY <1>1, <1>3, <1>4, <1>13, <1>14 DEF Sweeping, Stored
<1> QED
  BY <1>1, <1>3, <1>4, <1>15 DEF SweepInv

\* A page that is found has every row that is stored at one of its places.
LEMMA SweepFinds ==
  ASSUME SweepInv, PageFound
  PROVE  SweepInv'
<1>1. LInv /\ Find /\ list.pc = "find" /\ moved \in Nat /\ start \subseteq 1..created
  BY DEF SweepInv, PageFound, Find
<1>2. /\ LInv'
      /\ list'.pc = "answered" /\ list'.page = list.page /\ list'.size = list.size
      /\ list'.inverted = list.inverted /\ list'.counted = list.counted
  BY <1>1, FindInv
<1>3. /\ table' = table /\ created' = created /\ UNCHANGED <<sweep, start, moved>>
      /\ seen' = IF sweep = "under way" THEN seen \cup ResultRows(list') ELSE seen
  BY DEF PageFound, Find
<1>4. Swept => sweep = "under way" \/ Swept'
  BY <1>3 DEF Swept, Stored
<1>5. CASE sweep # "under way"
  BY <1>1, <1>2, <1>3, <1>4, <1>5 DEF SweepInv
<1>6. CASE sweep = "under way"
  <2>1. Sweeping
    BY <1>6 DEF SweepInv
  <2> DEFINE total == Len(list.counted)
             page == list.page
             size == list.size
             first == First(page, size)
             upTo == UpTo(page, size)
             found == Fetched(table, total, page, size, list.inverted)
  <2>2. /\ table \in Seq(Nat) /\ Len(table) \in Nat /\ total \in Nat
        /\ page \in Nat \ {0} /\ size \in Nat /\ list.inverted \in BOOLEAN
    BY <1>1, Types
  <2>3. total <= MaxInt /\ upTo <= MaxInt
    <3>1. upTo \in 0..MaxInt
      BY <1>1, <2>1, UpToSmall
    <3> HIDE DEF upTo
    <3>2. total <= MaxRows
      BY <1>1 DEF LInv, ListInv
    <3> HIDE DEF total
    <3> QED
      BY <3>1, <3>2, <2>2, MaxRowsAssumption, MaxIntAssumption
  <2>4. first \in Nat /\ upTo = first + size
    BY <2>2, PageEnds
  <2>5. ResultRows(list') = {found[j] : j \in 1..Len(found)}
    BY <1>1 DEF Find, ResultRows
  <2>6. ASSUME NEW k \in 1..Len(table),
               IF list.inverted THEN total - upTo < k /\ k <= total - first
                                ELSE first < k /\ k <= upTo
        PROVE  table[k] \in ResultRows(list')
    <3>1. CASE list.inverted
      <4>1. found = Reverse(Select(table, InvertedWindow(total, page, size)))
        BY <3>1 DEF Fetched
      <4>2. total - upTo < k /\ k <= total - first
        BY <2>6, <3>1
      <4> HIDE DEF found, total, page, size
      <4>3. \E j \in 1..Len(found) : found[j] = table[k]
        BY SMTT(30), <4>1, <4>2, <2>2, <2>3, InvertedReads
      <4> QED
        BY <4>3, <2>5
    <3>2. CASE ~list.inverted
      <4>1. found = Select(table, Window(page, size))
        BY <3>2 DEF Fetched
      <4>2. first < k /\ k <= upTo
        BY <2>6, <3>2
      <4> HIDE DEF found, total, page, size
      <4>4. /\ table \in Seq(Nat) /\ page \in Nat \ {0} /\ size \in Nat
            /\ UpTo(page, size) <= MaxInt
            /\ First(page, size) < k /\ k <= UpTo(page, size)
        BY <4>2, <2>2, <2>3
      <4> HIDE DEF first, upTo
      <4>5. \E j \in 1..Len(Select(table, Window(page, size))) :
              Select(table, Window(page, size))[j] = table[k]
        BY <4>4, ForwardReads
      <4>3. \E j \in 1..Len(found) : found[j] = table[k]
        BY <4>1, <4>5
      <4> QED
        BY <4>3, <2>5
    <3> QED
      BY <3>1, <3>2
  <2>7. Read = first /\ Read' = upTo
    BY <1>1, <1>2 DEF Read
  <2>8. PICK lost : /\ Few(lost, Short, moved)
                    /\ Accounted(table, Low, High, start, seen \cup lost)
    BY <2>1 DEF Sweeping
  <2>9. Accounted(table', Low', High', start', seen' \cup lost)
    <3> SUFFICES ASSUME NEW k \in 1..Len(table), Outside(k, Low', High'), table[k] \in start
                 PROVE  table[k] \in seen' \cup lost
      BY <1>3 DEF Accounted
    <3>1. CASE Outside(k, Low, High)
      <4>1. table[k] \in seen \cup lost
        BY <3>1, <2>8 DEF Accounted
      <4> QED
        BY <4>1, <1>3
    <3>2. CASE ~Outside(k, Low, High)
      <4>1. IF list.inverted THEN total - upTo < k /\ k <= total - first
                             ELSE first < k /\ k <= upTo
        <5>1. k \in Nat /\ k >= 1
          BY <2>2
        <5>2. CASE list.inverted
          <6>1. Low = 0 /\ High = total - first /\ Low' = 0 /\ High' = total - upTo
            BY <5>2, <1>2, <2>7 DEF Low, High
          <6> HIDE DEF total, first, upTo
          <6>2. total - upTo < k /\ k <= total - first
            BY <6>1, <5>1, <3>2, <2>2, <2>4 DEF Outside
          <6> QED
            BY <6>2, <5>2
        <5>3. CASE ~list.inverted
          <6>1. Low = first /\ High = total /\ Low' = upTo /\ High' = total
            BY <5>3, <1>2, <2>7 DEF Low, High
          <6> HIDE DEF total, first, upTo
          <6>2. first < k /\ k <= upTo
            BY <6>1, <5>1, <3>2, <2>2, <2>4 DEF Outside
          <6> QED
            BY <6>2, <5>3
        <5> QED
          BY <5>2, <5>3
      <4>2. table[k] \in ResultRows(list')
        BY <4>1, <2>6
      <4> QED
        BY <4>2, <1>3, <1>6
    <3> QED
      BY <3>1, <3>2
  <2>10. Short' = Short
    BY <1>2, <1>3 DEF Short
  <2>11. /\ list'.pc # "idle" /\ list'.size \in 1..MaxInt
         /\ First(list'.page, list'.size) \in 0..MaxRows
         /\ moved' = 0 => start' \subseteq Stored'
    BY <1>2, <1>3, <2>1 DEF Sweeping, Stored
  <2>12. \E more : /\ Few(more, Short', moved')
                   /\ Accounted(table', Low', High', start', seen' \cup more)
    BY <2>8, <2>9, <2>10, <1>3
  <2>13. Sweeping'
    BY <2>11, <2>12 DEF Sweeping
  <2> QED
    BY <2>13, <1>1, <1>2, <1>3, <1>6 DEF SweepInv
<1> QED
  BY <1>5, <1>6

\* At the end every place is outside.
LEMMA SweepFinishes ==
  ASSUME SweepInv, SweepEnds
  PROVE  SweepInv'
<1>1. /\ LInv /\ sweep = "under way" /\ list.pc = "answered" /\ LastPage
      /\ Sweeping /\ moved \in Nat /\ start \subseteq 1..created
  BY DEF SweepInv, SweepEnds
<1>2. UNCHANGED <<vars, start, seen, moved>> /\ sweep' = "over"
  BY DEF SweepEnds
<1> DEFINE upTo == UpTo(list.page, list.size)
           total == Len(list.counted)
<1>3. upTo >= total
  BY <1>1 DEF LastPage, UpTo
<1>4. /\ list.page \in Nat \ {0} /\ list.size \in Nat /\ Len(table) \in Nat
      /\ total \in Nat /\ list.inverted \in BOOLEAN
  BY <1>1, Types
<1>5. upTo \in Nat /\ Read = upTo
  BY <1>1, <1>4, FirstNat DEF Read
<1> HIDE DEF upTo, total
<1>6. \A k \in 1..Len(table) : Outside(k, Low, High)
  <2>1. CASE list.inverted
    <3>1. High = total - upTo
      BY <2>1, <1>5 DEF High, total
    <3> QED
      BY <3>1, <1>3, <1>4, <1>5 DEF Outside
  <2>2. CASE ~list.inverted
    <3>1. Low = upTo /\ High = total
      BY <2>2, <1>5 DEF Low, High, total
    <3> QED
      BY <3>1, <1>3, <1>4, <1>5 DEF Outside
  <2> QED
    BY <2>1, <2>2
<1>7. PICK lost : /\ Few(lost, Short, moved)
                  /\ Accounted(table, Low, High, start, seen \cup lost)
  BY <1>1 DEF Sweeping
<1>8. Few(lost, 0, moved)
  <2>1. Short \in Nat
    BY <1>1, ReadTypes
  <2>2. moved \in Nat
    BY <1>1
  <2>3. 0 \in Nat /\ 0 <= Short
    BY <2>1
  <2> QED
    BY <2>1, <2>2, <2>3, <1>7, FewAsMany
<1>9. (start \cap Stored) \ seen \subseteq lost
  BY <1>6, <1>7 DEF Accounted, Stored
<1>10. moved = 0 => start \subseteq seen
  <2> SUFFICES ASSUME moved = 0 PROVE start \subseteq seen
    OBVIOUS
  <2>1. lost = {}
    <3>1. IsFiniteSet(lost) /\ Cardinality(lost) + 0 <= 0
      BY <1>8 DEF Few
    <3>2. Cardinality(lost) \in Nat
      BY <3>1, FS_CardinalityType
    <3>3. Cardinality(lost) = 0
      BY <3>1, <3>2
    <3> QED
      BY <3>1, <3>3, FS_EmptySet
  <2>2. start \subseteq Stored
    BY <1>1 DEF Sweeping
  <2> QED
    BY <2>1, <2>2, <1>9
<1>11. Swept
  BY <1>8, <1>9, <1>10 DEF Swept
<1>12. Swept' /\ LInv'
  BY ZenonT(60), <1>1, <1>2, <1>11 DEF Swept, Stored, vars, LInv, TableInv, ListInv
<1> QED
  BY <1>1, <1>2, <1>12 DEF SweepInv, vars

LEMMA CrossingAccounted ==
  ASSUME NEW rows, NEW after, NEW low, NEW high, NEW moving, NEW begun, NEW known, NEW more,
         Crossing(rows, after, low, high, moving), Accounted(rows, low, high, begun, known),
         moving \cap begun \subseteq more
  PROVE  Accounted(after, low, high, begun, known \cup more)
BY DEF Crossing, Accounted

\* A write that leaves the table as it was, and adds at its end at most, adds a new row.
LEMMA AppendedRow ==
  ASSUME LInv, Write, Begins(table, table'), NEW k \in 1..Len(table'), k > Len(table)
  PROVE  table'[k] = created + 1
<1>0. /\ table \in Seq(Nat) /\ Len(table) \in Nat /\ created \in Nat
      /\ \A i \in 1..Len(table) : table[i] \in 1..created
  BY Types, MaxRowsAssumption DEF LInv, TableInv
<1>1. CASE Insert
  <2>1. PICK i \in 1..(Len(table) + 1) : table' = InsertAt(table, i, created + 1)
    BY <1>1, InsertWrites
  <2>2. Len(table') = Len(table) + 1
    BY <1>1, InsertWrites
  <2> DEFINE after == InsertAt(table, i, created + 1)
  <2>3. after[i] = created + 1
    <3>1. /\ created + 1 \in Nat
          /\ i \in 1..(Len(table) + 1) /\ ~(i < i)
      BY <1>0
    <3>2. after[i] = IF i < i THEN table[i] ELSE IF i = i THEN created + 1 ELSE table[i - 1]
      BY <1>0, <3>1, RowInserted
    <3> QED
      BY <3>1, <3>2
  <2>4. table'[i] = created + 1
    BY <2>1, <2>3
  <2>5. i \notin 1..Len(table)
    <3> SUFFICES ASSUME i \in 1..Len(table) PROVE FALSE
      OBVIOUS
    <3>1. table[i] = table'[i] /\ table[i] \in 1..created
      BY <1>0 DEF Begins
    <3> QED
      BY <3>1, <2>4, <1>0
  <2>6. k = i
    BY <2>2, <2>5, <1>0
  <2> QED
    BY <2>4, <2>6
<1>2. CASE Update
  <2>1. Len(table') = Len(table)
    BY <1>2, UpdateWrites
  <2> QED
    BY <2>1, <1>0
<1>3. CASE Delete
  <2>1. Len(table') = Len(table) - 1
    BY <1>3, DeleteWrites
  <2> QED
    BY <2>1, <1>0
<1> QED
  BY <1>1, <1>2, <1>3 DEF Write

\* What a write that moves rows costs: a row, or one by which the table is shorter.
LEMMA WriteCrossing ==
  ASSUME LInv, list.pc # "idle", Write
  PROVE  \E x : \/ /\ Crossing(table, table', Low, High, {x, created + 1})
                   /\ Short' <= Short
                \/ /\ Crossing(table, table', Low, High, {})
                   /\ Short' <= Short + 1
<1>0. /\ table \in Seq(Nat) /\ Len(table) \in Nat /\ created + 1 \in Nat
      /\ list.inverted \in BOOLEAN /\ Len(list.counted) \in Nat
  BY Types, MaxRowsAssumption DEF LInv, TableInv
<1>1. Low \in Nat /\ High \in Int /\ Short \in Nat
  BY ReadTypes
<1>2. ASSUME NEW x, Crossing(table, table', Low, High, {x})
      PROVE  Crossing(table, table', Low, High, {x, created + 1})
  BY <1>2 DEF Crossing
<1>3. CASE Insert
  <2>1. PICK i \in 1..(Len(table) + 1) : table' = InsertAt(table, i, created + 1)
    BY <1>3, InsertWrites
  <2>2. Len(table') = Len(table) + 1 /\ list' = list
    BY <1>3, InsertWrites DEF Insert
  <2>3. \E x : Crossing(table, InsertAt(table, i, created + 1), Low, High, {x, created + 1})
    BY <1>0, <1>1, InsertCrossing
  <2>4. Short' <= Short
    BY <2>2, <1>0 DEF Short
  <2> QED
    BY <2>1, <2>3, <2>4
<1>4. CASE Update
  <2>1. PICK j \in 1..Len(table), i \in 1..Len(table) :
          table' = InsertAt(RemoveAt(table, j), i, table[j])
    BY <1>4, UpdateWrites
  <2>2. Len(table') = Len(table) /\ list' = list
    BY <1>4, UpdateWrites
  <2>3. \E x : Crossing(table, InsertAt(RemoveAt(table, j), i, table[j]), Low, High, {x})
    BY <1>0, <1>1, UpdateCrossing
  <2>4. Short' <= Short
    BY <2>2, <1>1, <1>0 DEF Short
  <2> QED
    BY <2>1, <2>3, <2>4, <1>2
<1>5. CASE Delete
  <2>1. PICK i \in 1..Len(table) : table' = RemoveAt(table, i)
    BY <1>5, DeleteWrites
  <2>2. Len(table') = Len(table) - 1 /\ list' = list
    BY <1>5, DeleteWrites
  <2>3. PICK x : Crossing(table, table', Low, High, IF Low = 0 THEN {} ELSE {x})
    BY <2>1, <1>0, <1>1, DeleteCrossing
  <2>4. CASE Low = 0
    <3>1. Crossing(table, table', Low, High, {})
      BY <2>3, <2>4
    <3>2. Short' <= Short + 1
      BY <2>2, <1>0 DEF Short
    <3> QED
      BY <3>1, <3>2
  <2>5. CASE Low # 0
    <3>1. ~list.inverted
      BY <2>5 DEF Low
    <3>2. Short' <= Short
      BY <3>1, <2>2 DEF Short
    <3>3. Crossing(table, table', Low, High, {x})
      BY <2>3, <2>5
    <3> QED
      BY <3>2, <3>3, <1>2
  <2> QED
    BY <2>4, <2>5
<1> QED
  BY <1>3, <1>4, <1>5 DEF Write

LEMMA SweepWritten ==
  ASSUME SweepInv, Written
  PROVE  SweepInv'
<1>1. /\ LInv /\ LInv' /\ list' = list /\ UNCHANGED <<sweep, start, seen>> /\ Write
      /\ moved \in Nat /\ start \subseteq 1..created
      /\ \A i \in 1..Len(table') : \/ table'[i] = created + 1
                                   \/ \E j \in 1..Len(table) : table'[i] = table[j]
  BY WriteInv DEF SweepInv, Written
<1>2. /\ start' \subseteq 1..created' /\ created + 1 \notin start
      /\ created \in Nat /\ table \in Seq(Nat) /\ table' \in Seq(Nat)
      /\ Len(table) \in Nat /\ Len(table') \in Nat
  <2>1. created \in Nat /\ created' \in Nat /\ created <= created'
    BY <1>1, WriteInv, MaxRowsAssumption DEF LInv, TableInv
  <2>2. start' \subseteq 1..created' /\ created + 1 \notin start
    BY <2>1, <1>1
  <2>3. table \in Seq(Nat) /\ table' \in Seq(Nat)
    BY <1>1 DEF LInv, TableInv
  <2>4. Len(table) \in Nat /\ Len(table') \in Nat
    BY <2>3, LenProperties
  <2> QED
    BY <2>1, <2>2, <2>3, <2>4
<1>3. start \cap Stored' \subseteq start \cap Stored
  BY <1>1, <1>2 DEF Stored
<1>4. moved' = IF sweep = "under way" /\ ~IsPrefix(table, table') THEN moved + 1 ELSE moved
  BY DEF Written
<1>5. moved \in Nat /\ moved' \in Nat
  <2>1. moved \in Nat
    BY DEF SweepInv
  <2>2. moved' = moved + 1 \/ moved' = moved
    BY <1>4
  <2>3. moved' \in Nat
    BY <2>1, <2>2
  <2> QED
    BY <2>1, <2>3
<1>6. ASSUME sweep = "over" PROVE Swept'
  <2>1. Swept /\ moved' = moved
    BY <1>4, <1>6 DEF SweepInv
  <2>2. PICK lost : Few(lost, 0, moved) /\ (start \cap Stored) \ seen \subseteq lost
    BY <2>1 DEF Swept
  <2>3. Few(lost, 0, moved') /\ (start' \cap Stored') \ seen' \subseteq lost
    BY <2>1, <2>2, <1>1, <1>3
  <2>4. moved' = 0 => start' \subseteq seen'
    BY <2>1, <1>1 DEF Swept
  <2> QED
    BY <2>3, <2>4 DEF Swept
<1>7. ASSUME sweep = "under way" PROVE Sweeping'
  <2>1. Sweeping /\ list.pc # "idle"
    BY <1>7 DEF SweepInv, Sweeping
  <2>2. Low' = Low /\ High' = High
    BY <1>1 DEF Low, High, Read
  <2>3. PICK lost : /\ Few(lost, Short, moved)
                    /\ Accounted(table, Low, High, start, seen \cup lost)
    BY <2>1 DEF Sweeping
  <2>4. Short \in Nat /\ Short' \in Nat
    <3>1. Short \in Nat
      BY <1>1, <2>1, ReadTypes
    <3>2. list.inverted \in BOOLEAN /\ Len(list.counted) \in Nat
      BY <1>1, Types
    <3> QED
      BY <3>1, <3>2, <1>1, <1>2 DEF Short
  <2> DEFINE Kept == \E more : /\ Few(more, Short', moved')
                               /\ Accounted(table', Low', High', start', seen' \cup more)
  <2>5. ASSUME IsPrefix(table, table') PROVE Kept /\ (moved' = 0 => start' \subseteq Stored')
    <3>1. Begins(table, table') /\ moved' = moved
      BY <2>5, <1>2, <1>4, PrefixBegins
    <3>2. Accounted(table', Low', High', start', seen' \cup lost)
      <4> SUFFICES ASSUME NEW k \in 1..Len(table'), Outside(k, Low, High), table'[k] \in start
                   PROVE  table'[k] \in seen \cup lost
        BY <1>1, <2>2 DEF Accounted
      <4>1. ~(k > Len(table))
        <5> SUFFICES ASSUME k > Len(table) PROVE FALSE
          OBVIOUS
        <5>1. table'[k] = created + 1
          BY <3>1, <1>1, AppendedRow
        <5> QED
          BY <5>1, <1>2
      <4>2. k \in 1..Len(table)
        BY <4>1, <1>2
      <4>3. table'[k] = table[k]
        BY <4>2, <3>1 DEF Begins
      <4> QED
        BY <4>2, <4>3, <2>3 DEF Accounted
    <3>3. Few(lost, Short', moved')
      <4>1. Short' <= Short
        <5>1. Len(table) <= Len(table')
          BY <3>1 DEF Begins
        <5>2. list.inverted \in BOOLEAN /\ Len(list.counted) \in Nat
          BY <1>1, Types
        <5> QED
          BY <5>1, <5>2, <1>1, <1>2 DEF Short
      <4> QED
        BY <4>1, <3>1, <2>3, <2>4, <1>5, FewAsMany
    <3>4. Stored \subseteq Stored'
      <4> SUFFICES ASSUME NEW k \in 1..Len(table) PROVE table[k] \in Stored'
        BY DEF Stored
      <4>1. k \in 1..Len(table') /\ table'[k] = table[k]
        BY <3>1, <1>2 DEF Begins
      <4> QED
        BY <4>1 DEF Stored
    <3>5. moved' = 0 => start' \subseteq Stored'
      BY <3>1, <3>4, <2>1, <1>1 DEF Sweeping
    <3> QED
      BY <3>2, <3>3, <3>5
  <2>6. ASSUME ~IsPrefix(table, table') PROVE Kept /\ (moved' = 0 => start' \subseteq Stored')
    <3>1. moved' = moved + 1 /\ moved' # 0
      <4>1. moved' = moved + 1
        BY <2>6, <1>4, <1>7
      <4>2. moved' # 0
        BY <4>1, <1>5
      <4> QED
        BY <4>1, <4>2
    <3>2. PICK x : \/ /\ Crossing(table, table', Low, High, {x, created + 1})
                      /\ Short' <= Short
                   \/ /\ Crossing(table, table', Low, High, {})
                      /\ Short' <= Short + 1
      BY <1>1, <2>1, WriteCrossing
    <3>3. ASSUME Crossing(table, table', Low, High, {x, created + 1}), Short' <= Short
          PROVE  Kept
      <4>1. {x, created + 1} \cap start \subseteq {x}
        BY <1>2
      <4>2. Accounted(table', Low, High, start, (seen \cup lost) \cup {x})
        BY <4>1, <3>3, <2>3, CrossingAccounted
      <4>3. (seen \cup lost) \cup {x} = seen' \cup (lost \cup {x})
        BY <1>1
      <4>4. Few(lost \cup {x}, Short', moved')
        BY <3>1, <3>3, <2>3, <2>4, <1>5, FewMore
      <4> QED
        BY <4>2, <4>3, <4>4, <2>2, <1>1
    <3>4. ASSUME Crossing(table, table', Low, High, {}), Short' <= Short + 1
          PROVE  Kept
      <4>1. Accounted(table', Low, High, start, (seen \cup lost) \cup {})
        BY <3>4, <2>3, CrossingAccounted
      <4>2. (seen \cup lost) \cup {} = seen' \cup lost
        BY <1>1
      <4>3. Few(lost, Short', moved')
        BY <3>1, <3>4, <2>3, <2>4, <1>5, FewAsMany
      <4> QED
        BY <4>1, <4>2, <4>3, <2>2, <1>1
    <3> HIDE DEF Kept
    <3> QED
      BY <3>1, <3>2, <3>3, <3>4
  <2>7. Kept /\ (moved' = 0 => start' \subseteq Stored')
    <3> HIDE DEF Kept
    <3> QED
      BY <2>5, <2>6
  <2>8. /\ list'.pc # "idle" /\ list'.size \in 1..MaxInt
        /\ First(list'.page, list'.size) \in 0..MaxRows
    BY <2>1, <1>1 DEF Sweeping
  <2> QED
    BY <2>7, <2>8 DEF Sweeping
<1>8. sweep' = sweep /\ sweep \in {"none", "under way", "over"}
  BY <1>1 DEF SweepInv
<1> QED
  BY <1>1, <1>2, <1>5, <1>6, <1>7, <1>8 DEF SweepInv

LEMMA SweepSingle ==
  ASSUME SweepInv, SinglePage
  PROVE  SweepInv'
<1>1. PICK page \in Pages, size \in Sizes, inverted \in BOOLEAN : Count(page, size, inverted)
  BY DEF SinglePage
<1>2. page \in Nat /\ size \in Nat
  BY AskedFor, MaxIntAssumption
<1>3. LInv'
  BY <1>1, <1>2, CountInv DEF SweepInv
<1> QED
  BY <1>3 DEF SweepInv, SinglePage

LEMMA InitSweepInv == SweepInit => SweepInv
BY InitLInv DEF SweepInit, SweepInv

LEMMA NextSweepInv == SweepInv /\ [SweepNext]_sweepVars => SweepInv'
<1> SUFFICES ASSUME SweepInv, [SweepNext]_sweepVars PROVE SweepInv'
  OBVIOUS
<1>1. CASE SinglePage
  BY <1>1, SweepSingle
<1>2. CASE SweepBegins
  BY <1>2, SweepStarts
<1>3. CASE NextPage
  BY <1>3, SweepGoesOn
<1>4. CASE PageFound
  BY <1>4, SweepFinds
<1>5. CASE SweepEnds
  BY <1>5, SweepFinishes
<1>6. CASE Written
  BY <1>6, SweepWritten
<1>7. CASE UNCHANGED sweepVars
  BY ZenonT(60), <1>7 DEF sweepVars, vars, SweepInv, LInv, TableInv, ListInv, Sweeping, Swept,
              Read, Low, High, Short, Stored
<1> QED
  BY <1>1, <1>2, <1>3, <1>4, <1>5, <1>6, <1>7 DEF SweepNext

\* However many rows are written while a client reads page after page, in either direction
\* and with any page size: of the rows that were there when it began and still are, it
\* misses one at most for each write that moved rows.
THEOREM SweepsMissFew == SweepSpec => []SweepMissesFew
<1>1. SweepInv => SweepMissesFew
  <2> SUFFICES ASSUME SweepInv, sweep = "over"
               PROVE  Cardinality((start \cap Stored) \ seen) <= moved
    BY DEF SweepMissesFew
  <2> DEFINE missed == (start \cap Stored) \ seen
  <2>1. moved \in Nat /\ Swept
    BY DEF SweepInv
  <2>2. PICK lost : Few(lost, 0, moved) /\ missed \subseteq lost
    BY <2>1 DEF Swept
  <2> HIDE DEF missed
  <2>3. /\ IsFiniteSet(missed) /\ Cardinality(missed) <= Cardinality(lost)
        /\ Cardinality(lost) \in Nat /\ Cardinality(lost) + 0 <= moved
    BY <2>2, FS_Subset, FS_CardinalityType DEF Few
  <2>4. Cardinality(missed) \in Nat
    BY <2>3, FS_CardinalityType
  <2> QED
    BY <2>1, <2>3, <2>4 DEF missed
<1> QED
  BY InitSweepInv, NextSweepInv, <1>1, PTL DEF SweepSpec

\* In particular it misses none while rows are only added at the end of the table.
COROLLARY SweepsMissNothing ==
  SweepSpec => [](sweep = "over" /\ moved = 0 => start \subseteq seen)
<1>1. SweepInv => (sweep = "over" /\ moved = 0 => start \subseteq seen)
  BY DEF SweepInv, Swept
<1> QED
  BY InitSweepInv, NextSweepInv, <1>1, PTL DEF SweepSpec

\* The pages that such a client gets are exact, too.
THEOREM SweepPagesExact == SweepSpec => PageExact
<1>1. SweepInv /\ [SweepNext]_sweepVars => (Find /\ IsPrefix(list.counted, table)
                                /\ list.page * list.size <= MaxInt
        => list'.result = PageOf(IF list.inverted THEN Reverse(list.counted) ELSE table,
                                 list.page, list.size))
  BY FindExact DEF SweepInv
<1>2. SweepInv /\ [SweepNext]_sweepVars => [Find /\ IsPrefix(list.counted, table)
                                /\ list.page * list.size <= MaxInt
        => list'.result = PageOf(IF list.inverted THEN Reverse(list.counted) ELSE table,
                                 list.page, list.size)]_vars
  BY <1>1
<1> QED
  BY InitSweepInv, NextSweepInv, <1>2, PTL DEF SweepSpec, PageExact

=============================================================================
