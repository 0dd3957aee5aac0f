----------------------------- MODULE Pagination -----------------------------
(***************************************************************************)
(* Keyset pagination of the query API: GET /payments, /channels, /events,  *)
(* and the totals of GET /stats/payments.  A client walks a table newest   *)
(* first, one page per request, each request with the same filter, the     *)
(* cursor of the previous answer and a limit of its own, while the indexer *)
(* inserts rows, may move a channel that is opened again and may change    *)
(* the asset of a payment that is received again.                          *)
(*                                                                         *)
(* A row is its sort key, the timestamp and the unique id that ORDER BY    *)
(* and the cursor use, and one column that a filter compares, called asset *)
(* as in payments; it stands for direction, status, peer, state and type.  *)
(* A request that is refused or that fails changes nothing, neither in the *)
(* table nor in the cursor the client holds.                               *)
(***************************************************************************)
EXTENDS Amounts, FiniteSets, Functions

CONSTANTS
  Ids,           \* ids of the rows, numbers: they are ordered
  Times,         \* timestamps
  Assets,        \* values of the column that is filtered
  Null,          \* NULL in that column
  Unknown,       \* 'unknown', the name of the bucket of NULL
  Any,           \* a parameter that is absent
  Filters,       \* the filters of a walk, [asset, from, to]
  AmountOf,      \* the amount of each payment
  Exps,          \* exponents with which the database returns a NUMERIC
  Limits,        \* values of the limit parameter, or Any
  DefaultLimit,  \* clampLimit: 50
  MaxLimit,      \* clampLimit: 200
  NoCursor,      \* the zero cursor
  MaxChanges     \* bound: rows changed by an upsert

ASSUME PaginationAssumption ==
  /\ Ids \subseteq Nat
  /\ Times \subseteq Nat
  /\ IsFiniteSet(Ids)
  /\ IsFiniteSet(Times)
  /\ Null \notin Assets
  /\ Filters \subseteq [asset : Assets \cup {Any},
                         from : Times \cup {Any}, to : Times \cup {Any}]
  /\ NoCursor \notin [time : Times, id : Ids]
  /\ AmountOf \in [Ids -> Nat]
  /\ Exps \subseteq Int
  /\ DefaultLimit \in Nat \ {0}
  /\ MaxLimit \in Nat \ {0}
  /\ MaxChanges \in Nat

VARIABLES
  rows,     \* the rows of the table
  filter,   \* the filter of the walk
  cursor,   \* the cursor the client holds, NoCursor before the first page
  walking,  \* the client has more pages to ask for
  seen,     \* how often each id has been returned
  initial,  \* history: the rows when the walk began
  changed   \* history: ids changed since then

vars == << rows, filter, cursor, walking, seen, initial, changed >>

Row == [time : Times, id : Ids, asset : Assets \cup {Null}]

Keyed(S) == \A r, q \in S : r.id = q.id => r = q

TypeOK ==
  /\ rows \subseteq Row /\ Keyed(rows)
  /\ filter \in Filters
  /\ cursor \in [time : Times, id : Ids] \cup {NoCursor}
  /\ walking \in BOOLEAN
  /\ seen \in [Ids -> Nat]
  /\ initial \subseteq Row /\ Keyed(initial)
  /\ changed \subseteq Ids

Init ==
  /\ rows \in {S \in SUBSET Row : Keyed(S)}
  /\ filter \in Filters
  /\ cursor = NoCursor
  /\ walking = TRUE
  /\ seen = [i \in Ids |-> 0]
  /\ initial = rows
  /\ changed = {}

-----------------------------------------------------------------------------
(* (ts, id) < (ts', id'): r is older than q, the row comparison of keyset. *)
Older(r, q) == r.time < q.time \/ (r.time = q.time /\ r.id < q.id)

(* QueryInt and clampLimit: the page size for a limit parameter.           *)
QueryInt(v) == IF v = Any THEN DefaultLimit ELSE v
ClampLimit(n) == IF n <= 0 THEN DefaultLimit ELSE IF n > MaxLimit THEN MaxLimit ELSE n

(* The conditions of a query: eq, which no NULL satisfies, and tsRange,    *)
(* which includes both bounds.                                             *)
Eq(col, val) == val = Any \/ col = val
TsRange(t, from, to) == (from = Any \/ t >= from) /\ (to = Any \/ t <= to)

Matches(r, f) == Eq(r.asset, f.asset) /\ TsRange(r.time, f.from, f.to)

(* The selected rows behind the cursor.                                    *)
BehindInclusive ==
  {r \in rows : Matches(r, filter) /\ (cursor = NoCursor \/ ~Older(cursor, r))}
Behind ==
  {r \in rows : Matches(r, filter) /\ (cursor = NoCursor \/ Older(r, cursor))}

(* The n newest rows of S, when S has as many.                             *)
Newest(S, n) ==
  {T \in SUBSET S : Cardinality(T) = n /\ \A r \in S \ T, q \in T : Older(r, q)}

(* The cursor of the last row of a page.                                   *)
CursorOf(q) == [time |-> q.time, id |-> q.id]
Oldest(T) == {CursorOf(q) : q \in {x \in T : \A r \in T : r = x \/ Older(x, r)}}

-----------------------------------------------------------------------------
(* The items are returned once more.                                       *)
Return(T) == seen' = [i \in Ids |-> IF \E r \in T : r.id = i THEN seen[i] + 1 ELSE seen[i]]

(* A page of n rows: LIMIT n+1 tells whether there is more.  If so,        *)
(* paginate cuts the extra row off and the cursor is the last row kept; if *)
(* not, there is no next cursor and the walk is over.                      *)
PageCursorOfExtraRow(n) ==
  IF Cardinality(Behind) > n
  THEN \E T \in Newest(Behind, n), X \in Newest(Behind, n + 1) :
         Return(T) /\ cursor' \in Oldest(X) /\ UNCHANGED walking
  ELSE Return(Behind) /\ walking' = FALSE /\ UNCHANGED cursor
PageAlwaysMore(n) ==
  \E T \in IF Cardinality(Behind) > n THEN Newest(Behind, n) ELSE {Behind} :
    /\ Return(T)
    /\ cursor' \in IF T = {} THEN {cursor} ELSE Oldest(T)
    /\ UNCHANGED walking
Page(n) ==
  IF Cardinality(Behind) > n
  THEN \E T \in Newest(Behind, n) :
         Return(T) /\ cursor' \in Oldest(T) /\ UNCHANGED walking
  ELSE Return(Behind) /\ walking' = FALSE /\ UNCHANGED cursor

(* GET with the filter, the cursor of the last page and some limit.        *)
FetchPage ==
  /\ walking
  /\ \E limit \in Limits : Page(ClampLimit(QueryInt(limit)))
  /\ UNCHANGED << rows, filter, initial, changed >>

(* The indexer projects an event with a new id, of any time: events are    *)
(* stamped by the node, not by the order in which they arrive.             *)
InsertDuplicate(r) ==
  /\ r \notin rows
  /\ rows' = rows \cup {r}
  /\ UNCHANGED << filter, cursor, walking, seen, initial, changed >>
Insert(r) ==
  /\ \A q \in rows : q.id # r.id
  /\ rows' = rows \cup {r}
  /\ UNCHANGED << filter, cursor, walking, seen, initial, changed >>

(* An upsert replaces row r by q.                                          *)
Replace(r, q) ==
  /\ Cardinality(changed) < MaxChanges
  /\ q # r
  /\ rows' = (rows \ {r}) \cup {q}
  /\ changed' = changed \cup {r.id}
  /\ UNCHANGED << filter, cursor, walking, seen, initial >>

(* channel.opened again for a known channel: peer and opened_at are        *)
(* overwritten.                                                            *)
Reopen(r, t, a) == Replace(r, [r EXCEPT !.time = t, !.asset = a])

(* payment.received again for a known hash: asset, amount and peer are     *)
(* overwritten, created_at stays.                                          *)
ReceiveAgain(r, a) == Replace(r, [r EXCEPT !.asset = a])

-----------------------------------------------------------------------------
(* GET /stats/payments: count and total by asset, NULL as 'unknown', where *)
(* the database returns the sums with exponent e.                          *)
HexOrEmpty(n) == NumericToAmount(n)
Bucket(r) == IF r.asset = Null THEN Unknown ELSE r.asset

StatRow(a, S, e) ==
  LET members == {r \in S : Bucket(r) = a}
      total   == SumFunction([r \in members |-> Column(AmountToNumeric(AmountOf[r.id]))])
  IN  [asset |-> a, count |-> Cardinality(members), total |-> HexOrEmpty(Numeric(total, e))]

StatsPaymentsBefore(from, to, e) ==
  LET S == {r \in rows : TsRange(r.time, from, Any) /\ (to = Any \/ r.time < to)}
  IN  {StatRow(a, S, e) : a \in {Bucket(r) : r \in S}}
StatsPayments(from, to, e) ==
  LET S == {r \in rows : TsRange(r.time, from, to)}
  IN  {StatRow(a, S, e) : a \in {Bucket(r) : r \in S}}

-----------------------------------------------------------------------------
Next ==
  \/ FetchPage
  \/ \E r \in Row : Insert(r)
  \/ \E r \in rows, a \in Assets \cup {Null} :
       \/ ReceiveAgain(r, a)
       \/ \E t \in Times : Reopen(r, t, a)

Spec == Init /\ [][Next]_vars

(* The client goes on asking for the next page.                            *)
FairSpec == Spec /\ WF_vars(FetchPage)

-----------------------------------------------------------------------------
(* No row is returned twice in a walk, unless it was changed during the    *)
(* walk, whatever is inserted before or behind the cursor between pages.   *)
NoRepeat == \A i \in Ids \ changed : seen[i] <= 1

(* Cursor's comment: paging is stable under concurrent inserts.  At every  *)
(* point of the walk the selected rows that were there at the start and    *)
(* lie at or before the cursor have been returned, and at its end all of   *)
(* them have, exactly once, also among rows with the same timestamp; the   *)
(* rows the filter excludes never are.                                     *)
NothingSkipped ==
  \A r \in initial : r.id \notin changed =>
    LET passed == ~walking \/ (cursor # NoCursor /\ ~Older(r, cursor))
    IN  seen[r.id] = IF passed /\ Matches(r, filter) THEN 1 ELSE 0

(* The two views of the payments agree: over a table that did not change,  *)
(* what a client adds up from the pages of a walk is what the buckets of   *)
(* the same asset and period say, with the same inclusive bounds, and for  *)
(* every way the database may write the numbers.  There is one exception,  *)
(* and it is exact: the bucket 'unknown' also has the payments without an  *)
(* asset, which a walk with asset=unknown does not list.                   *)
StatsAgree ==
  (~walking /\ changed = {} /\ rows = initial) => \A e, x \in Exps :
    LET got      == {r \in rows : seen[r.id] = 1}
        unlisted == {r \in rows : /\ filter.asset = Unknown /\ r.asset = Null
                                  /\ TsRange(r.time, filter.from, filter.to)}
        counted  == got \cup unlisted
        buckets  == {b \in StatsPayments(filter.from, filter.to, e) :
                       filter.asset \in {Any, b.asset}}
        Amount(r) == HexOrEmpty(Numeric(AmountOf[r.id], x))
    IN  /\ SumFunction([b \in buckets |-> b.count]) = Cardinality(counted)
        /\ SumFunction([b \in buckets |-> b.total]) =
             SumFunction([r \in counted |-> Amount(r)])

(* A walk ends: every page with a next cursor moves strictly towards older *)
(* rows, so that a table that stops growing is read to its end.            *)
WalkEnds == <>(~walking)
=============================================================================
