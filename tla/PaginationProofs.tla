-------------------------- MODULE PaginationProofs --------------------------
(***************************************************************************)
(* Proofs about keyset pagination, for tables, filters and limits of any   *)
(* size and any number of concurrent inserts and upserts.                  *)
(***************************************************************************)
EXTENDS Pagination, AmountProofs

(***************************************************************************)
(* The inductive invariant                                                 *)
(***************************************************************************)

(* The walk is past row r: it has ended, or the cursor is at r or before.  *)
Passed(r) == ~walking \/ (cursor # NoCursor /\ ~Older(r, cursor))

(* A row nobody has changed is returned at most once, when the walk passes *)
(* it; and one that was there at the start has been, if it is selected.    *)
RowInv(r) ==
  /\ seen[r.id] \in {0, 1}
  /\ seen[r.id] = 1 => Matches(r, filter) /\ Passed(r)
  /\ (r \in initial /\ Matches(r, filter) /\ Passed(r)) => seen[r.id] = 1

(* A row that is not in the table has not been returned, and the rows the  *)
(* walk began with are still there unless they were changed.               *)
IInv ==
  /\ TypeOK
  /\ \A r \in rows : r.id \notin changed => RowInv(r)
  /\ \A i \in Ids \ changed : (\A r \in rows : r.id # i) => seen[i] = 0
  /\ \A r \in initial : r.id \notin changed => r \in rows

-----------------------------------------------------------------------------
(***************************************************************************)
(* The order of ORDER BY and of the cursor                                 *)
(***************************************************************************)

(* What has a place in the order.                                          *)
Placed(r) == r.time \in Nat /\ r.id \in Nat

(* The row comparison is a strict order.                                   *)
LEMMA OlderIsOrder ==
  /\ \A r : Placed(r) => ~Older(r, r)
  /\ \A r, q : Placed(r) /\ Placed(q) /\ Older(r, q) => ~Older(q, r)
  /\ \A r, q, p : Placed(r) /\ Placed(q) /\ Placed(p) /\ Older(r, q) /\ Older(q, p) => Older(r, p)
BY DEF Older, Placed

(* Rows and cursors have a place, and the cursor of a row has the row's.   *)
LEMMA RowsArePlaced ==
  /\ \A r \in Row : Placed(r) /\ r.id \in Ids /\ CursorOf(r) \in [time : Times, id : Ids]
  /\ \A c \in [time : Times, id : Ids] : Placed(c) /\ c # NoCursor
  /\ \A r, q : /\ Older(r, CursorOf(q)) <=> Older(r, q)
               /\ Older(CursorOf(q), r) <=> Older(q, r)
BY PaginationAssumption DEF Row, Placed, CursorOf, Older
-----------------------------------------------------------------------------
(***************************************************************************)
(* The steps                                                               *)
(***************************************************************************)

(* Before the first page nothing has been passed or returned.              *)
LEMMA InitInv == Init => IInv
<1> SUFFICES ASSUME Init PROVE IInv
  OBVIOUS
<1>1. TypeOK
  BY DEF Init, TypeOK
<1>2. \A r \in rows : r.id \in Ids /\ seen[r.id] = 0 /\ ~Passed(r)
  BY DEF Init, Row, Passed
<1>3. QED
  BY <1>1, <1>2 DEF IInv, RowInv, Init

(* A set of selected rows behind the cursor is returned: their counts go   *)
(* from zero to one, the others stay.                                      *)
LEMMA ReturnFacts ==
  ASSUME IInv, walking, NEW T \in SUBSET Behind, Return(T)
  PROVE  /\ seen' \in [Ids -> Nat]
         /\ \A r \in rows : r.id \notin changed =>
              IF r \in T THEN seen[r.id] = 0 /\ seen'[r.id] = 1
                         ELSE seen'[r.id] = seen[r.id]
         /\ \A i \in Ids : (\A r \in rows : r.id # i) => seen'[i] = seen[i]
<1>1. rows \subseteq Row /\ Keyed(rows) /\ seen \in [Ids -> Nat] /\ T \subseteq rows
  BY DEF IInv, TypeOK, Behind
<1>2. \A i \in Ids : seen'[i] = IF \E r \in T : r.id = i THEN seen[i] + 1 ELSE seen[i]
  BY DEF Return
<1>3. seen' \in [Ids -> Nat]
  BY <1>1 DEF Return
<1>4. ASSUME NEW r \in rows, r.id \notin changed
      PROVE  IF r \in T THEN seen[r.id] = 0 /\ seen'[r.id] = 1
                        ELSE seen'[r.id] = seen[r.id]
  <2>1. r.id \in Ids
    BY <1>1, RowsArePlaced
  <2>2. (\E q \in T : q.id = r.id) <=> r \in T
    BY <1>1 DEF Keyed
  <2>3. CASE r \in T
    <3>1. ~Passed(r)
      BY <2>3 DEF Behind, Passed
    <3>2. seen[r.id] = 0
      BY <1>4, <3>1 DEF IInv, RowInv
    <3>3. QED
      BY <1>2, <2>1, <2>2, <2>3, <3>2
  <2>4. CASE r \notin T
    BY <1>2, <2>1, <2>2, <2>4
  <2>5. QED
    BY <2>3, <2>4
<1>5. \A i \in Ids : (\A r \in rows : r.id # i) => seen'[i] = seen[i]
  BY <1>1, <1>2
<1>6. QED
  BY <1>3, <1>4, <1>5

(* A page with a next cursor: the cursor is the oldest row of the page,    *)
(* every row left behind is older, every row passed before is newer.       *)
LEMMA MorePages ==
  ASSUME IInv, walking, NEW n, NEW T \in Newest(Behind, n), Return(T),
         cursor' \in Oldest(T), UNCHANGED << walking, rows, filter, initial, changed >>
  PROVE  IInv'
<1>1. /\ T \in SUBSET Behind
      /\ \A r \in Behind \ T, q \in T : Older(r, q)
  BY DEF Newest
<1>2. rows \subseteq Row /\ T \subseteq rows
  BY <1>1 DEF IInv, TypeOK, Behind
<1>3. PICK q \in T : cursor' = CursorOf(q) /\ \A r \in T : r = q \/ Older(q, r)
  BY DEF Oldest
<1>4. /\ seen' \in [Ids -> Nat]
      /\ \A r \in rows : r.id \notin changed =>
           IF r \in T THEN seen[r.id] = 0 /\ seen'[r.id] = 1
                      ELSE seen'[r.id] = seen[r.id]
      /\ \A i \in Ids : (\A r \in rows : r.id # i) => seen'[i] = seen[i]
  BY <1>1, ReturnFacts
<1>5. /\ cursor' \in [time : Times, id : Ids] /\ cursor' # NoCursor
      /\ \A r : Older(r, cursor') <=> Older(r, q)
  BY <1>2, <1>3, RowsArePlaced
<1>6. TypeOK'
  BY <1>4, <1>5 DEF IInv, TypeOK
<1>7. ASSUME NEW r \in rows PROVE Passed(r)' <=> ~Older(r, q)
  BY <1>5 DEF Passed
<1>8. ASSUME NEW r \in rows, Passed(r) PROVE Passed(r)'
  <2>1. cursor # NoCursor /\ ~Older(r, cursor) /\ Older(q, cursor)
    BY <1>1, <1>8 DEF Passed, Behind
  <2>2. Placed(r) /\ Placed(q) /\ Placed(cursor)
    BY <1>2, <2>1, RowsArePlaced DEF IInv, TypeOK
  <2>3. ~Older(r, q)
    BY <2>1, <2>2, OlderIsOrder
  <2>4. QED
    BY <1>7, <2>3
<1>9. ASSUME NEW r \in T PROVE Passed(r)'
  <2>1. Placed(r) /\ Placed(q)
    BY <1>2, RowsArePlaced
  <2>2. ~Older(r, q)
    BY <1>3, <2>1, OlderIsOrder
  <2>3. QED
    BY <1>2, <1>7, <2>2
<1>10. ASSUME NEW r \in rows, r.id \notin changed PROVE RowInv(r)'
  <2>1. RowInv(r)
    BY <1>10 DEF IInv
  <2>2. CASE r \in T
    <3>1. seen'[r.id] = 1 /\ Matches(r, filter)
      BY <1>1, <1>4, <1>10, <2>2 DEF Behind
    <3>2. QED
      BY <1>9, <2>2, <3>1 DEF RowInv
  <2>3. CASE r \notin T
    <3>1. seen'[r.id] = seen[r.id]
      BY <1>4, <1>10, <2>3
    <3>2. (Matches(r, filter) /\ Passed(r)') => Passed(r)
      <4> SUFFICES ASSUME Matches(r, filter), Passed(r)', ~Passed(r) PROVE FALSE
        OBVIOUS
      <4>1. r \in Behind
        BY DEF Passed, Behind
      <4>2. Older(r, q)
        BY <1>1, <2>3, <4>1
      <4>3. QED
        BY <1>7, <4>2
    <3>3. QED
      BY <1>8, <2>1, <3>1, <3>2 DEF RowInv
  <2>4. QED
    BY <2>2, <2>3
<1>11. QED
  BY <1>4, <1>6, <1>10 DEF IInv

(* The last page: everything that was behind the cursor is returned.       *)
LEMMA LastPage ==
  ASSUME IInv, walking, Return(Behind), walking' = FALSE,
         UNCHANGED << cursor, rows, filter, initial, changed >>
  PROVE  IInv'
<1>1. /\ seen' \in [Ids -> Nat]
      /\ \A r \in rows : r.id \notin changed =>
           IF r \in Behind THEN seen[r.id] = 0 /\ seen'[r.id] = 1
                           ELSE seen'[r.id] = seen[r.id]
      /\ \A i \in Ids : (\A r \in rows : r.id # i) => seen'[i] = seen[i]
  BY ReturnFacts
<1>2. TypeOK'
  BY <1>1 DEF IInv, TypeOK
<1>3. ASSUME NEW r \in rows, r.id \notin changed PROVE RowInv(r)'
  <2>1. RowInv(r) /\ Passed(r)'
    BY <1>3 DEF IInv, Passed
  <2>2. r \in Behind => Matches(r, filter)
    BY DEF Behind
  <2>3. (Matches(r, filter) /\ r \notin Behind) => Passed(r)
    BY DEF Behind, Passed
  <2>4. QED
    BY <1>1, <1>3, <2>1, <2>2, <2>3 DEF RowInv
<1>4. QED
  BY <1>1, <1>2, <1>3 DEF IInv

(* A page returns the newest rows behind the cursor and moves it to the    *)
(* oldest of them, so that it passes exactly what it returns.              *)
LEMMA FetchStep ==
  ASSUME IInv, FetchPage
  PROVE  IInv'
<1>1. PICK limit \in Limits : Page(ClampLimit(QueryInt(limit)))
  BY DEF FetchPage
<1> DEFINE n == ClampLimit(QueryInt(limit))
<1>2. walking /\ UNCHANGED << rows, filter, initial, changed >>
  BY DEF FetchPage
<1>3. \/ \E T \in Newest(Behind, n) : Return(T) /\ cursor' \in Oldest(T) /\ UNCHANGED walking
      \/ Return(Behind) /\ walking' = FALSE /\ UNCHANGED cursor
  BY <1>1 DEF Page
<1> HIDE DEF n
<1>4. QED
  BY <1>2, <1>3, MorePages, LastPage

(* A new row may lie anywhere in the order; nothing has been returned for  *)
(* its id, and it does not count as one the walk began with.               *)
LEMMA InsertStep ==
  ASSUME IInv, NEW r \in Row, Insert(r)
  PROVE  IInv'
<1>1. rows' = rows \cup {r} /\ \A q \in rows : q.id # r.id
  BY DEF Insert
<1>2. UNCHANGED << filter, cursor, walking, seen, initial, changed >>
  BY DEF Insert
<1>3. TypeOK'
  BY <1>1, <1>2 DEF IInv, TypeOK, Keyed
<1>4. \A q : RowInv(q)' = RowInv(q)
  BY <1>2 DEF RowInv, Passed
<1>5. r.id \notin changed => RowInv(r)
  <2> SUFFICES ASSUME r.id \notin changed PROVE RowInv(r)
    OBVIOUS
  <2>1. seen[r.id] = 0
    BY <1>1, RowsArePlaced DEF IInv
  <2>2. r \notin initial
    BY <1>1 DEF IInv
  <2>3. QED
    BY <2>1, <2>2 DEF RowInv
<1>6. QED
  BY <1>1, <1>2, <1>3, <1>4, <1>5 DEF IInv

(* An upsert keeps the id, which counts as changed from then on.           *)
LEMMA ReplaceStep ==
  ASSUME IInv, NEW r \in rows, NEW q \in Row, q.id = r.id, Replace(r, q)
  PROVE  IInv'
<1>1. rows' = (rows \ {r}) \cup {q} /\ changed' = changed \cup {r.id}
  BY DEF Replace
<1>2. UNCHANGED << filter, cursor, walking, seen, initial >>
  BY DEF Replace
<1>3. rows \subseteq Row /\ Keyed(rows) /\ r.id \in Ids
  BY RowsArePlaced DEF IInv, TypeOK
<1>4. TypeOK'
  <2>1. Keyed(rows')
    BY <1>1, <1>3 DEF Keyed
  <2>2. QED
    BY <1>1, <1>2, <1>3, <2>1 DEF IInv, TypeOK, Keyed
<1>5. \A p : RowInv(p)' = RowInv(p)
  BY <1>2 DEF RowInv, Passed
<1>6. QED
  BY <1>1, <1>2, <1>3, <1>4, <1>5 DEF IInv

(* Every step preserves the invariant.                                     *)
LEMMA NextInv == IInv /\ [Next]_vars => IInv'
<1> SUFFICES ASSUME IInv, [Next]_vars PROVE IInv'
  OBVIOUS
<1>1. CASE FetchPage
  BY <1>1, FetchStep
<1>2. ASSUME NEW r \in Row, Insert(r) PROVE IInv'
  BY <1>2, InsertStep
<1>3. ASSUME NEW r \in rows, NEW a \in Assets \cup {Null}, ReceiveAgain(r, a) PROVE IInv'
  <2>1. r \in Row
    BY DEF IInv, TypeOK
  <2>2. [r EXCEPT !.asset = a] \in Row /\ [r EXCEPT !.asset = a].id = r.id
    BY <2>1 DEF Row
  <2>3. QED
    BY <1>3, <2>2, ReplaceStep DEF ReceiveAgain
<1>4. ASSUME NEW r \in rows, NEW a \in Assets \cup {Null}, NEW t \in Times, Reopen(r, t, a)
      PROVE  IInv'
  <2>1. r \in Row
    BY DEF IInv, TypeOK
  <2>2. /\ [r EXCEPT !.time = t, !.asset = a] \in Row
        /\ [r EXCEPT !.time = t, !.asset = a].id = r.id
    BY <2>1 DEF Row
  <2>3. QED
    BY <1>4, <2>2, ReplaceStep DEF Reopen
<1>5. CASE UNCHANGED vars
  <2>1. TypeOK'
    BY <1>5 DEF IInv, TypeOK, vars
  <2>2. \A r : RowInv(r)' = RowInv(r)
    BY <1>5 DEF RowInv, Passed, vars
  <2>3. QED
    BY <1>5, <2>1, <2>2 DEF IInv, vars
<1>6. QED
  BY <1>1, <1>2, <1>3, <1>4, <1>5 DEF Next

-----------------------------------------------------------------------------
(* The inductive invariant.                                                *)
THEOREM PaginationInvariant == Spec => []IInv
BY InitInv, NextInv, PTL DEF Spec

(* The types: in particular no upsert gives two rows the same id, and the  *)
(* cursor is always one a page has returned.                               *)
THEOREM PaginationTypeCorrect == Spec => []TypeOK
<1>1. IInv => TypeOK
  BY DEF IInv
<1>2. QED
  BY <1>1, PaginationInvariant, PTL

(* A walk returns no unchanged row twice, for any limits on its pages.     *)
THEOREM NothingRepeated == Spec => []NoRepeat
<1>1. IInv => NoRepeat
  <2> SUFFICES ASSUME IInv, NEW i \in Ids \ changed PROVE seen[i] <= 1
    BY DEF NoRepeat
  <2>1. CASE \A r \in rows : r.id # i
    BY <2>1 DEF IInv
  <2>2. ASSUME NEW r \in rows, r.id = i PROVE seen[i] <= 1
    BY <2>2 DEF IInv, RowInv
  <2>3. QED
    BY <2>1, <2>2
<1>2. QED
  BY <1>1, PaginationInvariant, PTL

(* A walk misses no row that was there when it began and that matches its  *)
(* filter, and returns none that does not, although rows are inserted on   *)
(* both sides of the cursor and timestamps collide.                        *)
THEOREM WalkIsStable == Spec => []NothingSkipped
<1>1. IInv => NothingSkipped
  <2> SUFFICES ASSUME IInv, NEW r \in initial, r.id \notin changed
               PROVE  seen[r.id] = IF Passed(r) /\ Matches(r, filter) THEN 1 ELSE 0
    BY DEF NothingSkipped, Passed
  <2>1. RowInv(r)
    BY DEF IInv
  <2>2. QED
    BY <2>1 DEF RowInv
<1>2. QED
  BY <1>1, PaginationInvariant, PTL

-----------------------------------------------------------------------------
(***************************************************************************)
(* The walk against the statistics                                         *)
(***************************************************************************)

(* A table is finite: its rows have different ids.                         *)
LEMMA TableIsFinite ==
  ASSUME NEW S \in SUBSET Row, Keyed(S)
  PROVE  IsFiniteSet(S)
<1>1. PICK f : f = [r \in S |-> r.id]
  OBVIOUS
<1>2. f \in Injection(S, Ids)
  BY <1>1 DEF Injection, IsInjective, Row, Keyed
<1>3. QED
  BY <1>2, PaginationAssumption, FS_Injection

(* The amounts of the rows of a table, by row.                             *)
AmountsOf(S) == [r \in S |-> AmountOf[r.id]]

(* A bucket's count and total, whatever exponent the sum comes back with.  *)
LEMMA StatRowIs ==
  ASSUME NEW S \in SUBSET Row, Keyed(S), NEW e \in Int, NEW a, NEW T,
         T = {r \in S : Bucket(r) = a}
  PROVE  /\ StatRow(a, S, e).asset = a
         /\ StatRow(a, S, e).count = Cardinality(T)
         /\ StatRow(a, S, e).total = SumFunctionOnSet(AmountsOf(S), T)
<1>1. IsFiniteSet(T) /\ T \subseteq S
  BY TableIsFinite, FS_Subset
<1>2. \A r \in S : AmountOf[r.id] \in Nat
  BY PaginationAssumption DEF Row
<1>3. PICK v, w : v = [r \in T |-> Column(AmountToNumeric(AmountOf[r.id]))] /\ w = AmountsOf(S)
  OBVIOUS
<1>4. \A r \in T : v[r] = w[r] /\ w[r] \in Nat
  <2>1. \A r \in T : Column(AmountToNumeric(AmountOf[r.id])) = AmountOf[r.id]
    BY <1>1, <1>2, ColumnExact
  <2>2. QED
    BY <1>1, <1>2, <1>3, <2>1 DEF AmountsOf
<1>5. SumFunctionOnSet(v, T) = SumFunctionOnSet(w, T)
  BY <1>1, <1>4, SumSame
<1>6. SumFunctionOnSet(w, T) \in Nat
  BY <1>1, <1>4, SumIsNat
<1>7. SumFunction(v) = SumFunctionOnSet(v, T)
  BY <1>3, SumOverDomain
<1>8. PICK t : t = SumFunction(v)
  OBVIOUS
<1>9. HexOrEmpty(Numeric(t, e)) = t
  BY <1>5, <1>6, <1>7, <1>8, ConversionExact DEF HexOrEmpty
<1>10. StatRow(a, S, e) = [asset |-> a, count |-> Cardinality(T), total |-> HexOrEmpty(Numeric(t, e))]
  BY <1>3, <1>8, Zenon DEF StatRow
<1>11. QED
  BY <1>3, <1>5, <1>7, <1>8, <1>9, <1>10

(* A row falls into a bucket that the asset of filter f names.             *)
InBucket(r, f) == Eq(r.asset, f.asset) \/ (f.asset = Unknown /\ r.asset = Null)

(* The rows of the buckets an asset filter selects are the rows the same   *)
(* filter selects for a page, and for 'unknown' those without an asset.    *)
LEMMA BucketsSelect ==
  ASSUME NEW r \in Row, NEW f \in Filters
  PROVE  f.asset \in {Any, Bucket(r)} <=> InBucket(r, f)
<1>1. f.asset \in Assets \cup {Any} /\ Null \notin Assets
  BY PaginationAssumption
<1>2. QED
  BY <1>1 DEF Bucket, Eq, InBucket

(* What the buckets of a filter count: the rows a walk has returned and,   *)
(* for 'unknown', those it does not list.                                  *)
Counted ==
  {r \in rows : seen[r.id] = 1} \cup
  {r \in rows : /\ filter.asset = Unknown /\ r.asset = Null
                /\ TsRange(r.time, filter.from, filter.to)}

(* StatsAgree for the buckets and the rows they should count.              *)
AddsUp(buckets, got, x) ==
  /\ SumFunction([b \in buckets |-> b.count]) = Cardinality(got)
  /\ SumFunction([b \in buckets |-> b.total]) =
       SumFunction([r \in got |-> HexOrEmpty(Numeric(AmountOf[r.id], x))])

(* The two views of the payments agree: what a client adds up from the     *)
(* pages of a walk over a table that did not change is what                *)
(* GET /stats/payments says of the same asset and period, except that the  *)
(* bucket 'unknown' also counts the payments without an asset.             *)
THEOREM WalkMatchesStats == Spec => []StatsAgree
<1>1. IInv => StatsAgree
  <2> SUFFICES ASSUME IInv, ~walking, changed = {}, rows = initial, NEW e \in Exps, NEW x \in Exps
               PROVE  AddsUp({b \in StatsPayments(filter.from, filter.to, e) :
                                filter.asset \in {Any, b.asset}},
                             Counted, x)
    BY Zenon DEF StatsAgree, AddsUp, Counted
  <2>0. PICK got, buckets : /\ got = Counted
                            /\ buckets = {b \in StatsPayments(filter.from, filter.to, e) :
                                            filter.asset \in {Any, b.asset}}
    OBVIOUS
  <2>1. /\ rows \in SUBSET Row /\ Keyed(rows) /\ filter \in Filters
        /\ \A r \in rows : RowInv(r)
    BY DEF IInv, TypeOK
  <2>2. e \in Int /\ x \in Int
    BY PaginationAssumption
  <2>3. PICK S, v : S = {r \in rows : TsRange(r.time, filter.from, filter.to)} /\ v = AmountsOf(S)
    OBVIOUS
  <2>4. S \in SUBSET Row /\ Keyed(S) /\ IsFiniteSet(S) /\ S \subseteq rows
    <3>1. S \in SUBSET Row /\ Keyed(S) /\ S \subseteq rows
      BY <2>1, <2>3 DEF Keyed
    <3>2. QED
      BY <3>1, TableIsFinite
  <2>5. got = {r \in S : InBucket(r, filter)}
    <3>1. \A r \in rows : seen[r.id] = 1 <=> Matches(r, filter)
      BY <2>1 DEF RowInv, Passed
    <3>2. ASSUME NEW r PROVE r \in Counted <=> r \in S /\ InBucket(r, filter)
      BY <2>3, <3>1, Zenon DEF Matches, Counted, InBucket
    <3>3. QED
      BY <2>0, <3>2, Zenon
  <2>6. IsFiniteSet(got) /\ got \subseteq S
    BY <2>4, <2>5, FS_Subset
  <2>7. PICK K, P, b, g, h, u :
          /\ K = {a \in {Bucket(r) : r \in S} : filter.asset \in {Any, a}}
          /\ P = [a \in K |-> {r \in S : Bucket(r) = a}]
          /\ b = [a \in K |-> StatRow(a, S, e)]
          /\ g = [a \in K |-> Cardinality(P[a])]
          /\ h = [a \in K |-> SumFunctionOnSet(v, P[a])]
          /\ u = [r \in S |-> 1]
    OBVIOUS
  <2>8. \A a \in K : b[a].asset = a /\ b[a].count = g[a] /\ b[a].total = h[a]
    <3>1. ASSUME NEW a \in K
          PROVE  b[a].asset = a /\ b[a].count = g[a] /\ b[a].total = h[a]
      <4>1. PICK T : T = {r \in S : Bucket(r) = a}
        OBVIOUS
      <4>2. /\ P[a] = T /\ b[a] = StatRow(a, S, e) /\ g[a] = Cardinality(T)
            /\ h[a] = SumFunctionOnSet(v, T)
        BY <2>7, <4>1
      <4>3. /\ StatRow(a, S, e).asset = a
            /\ StatRow(a, S, e).count = Cardinality(T)
            /\ StatRow(a, S, e).total = SumFunctionOnSet(AmountsOf(S), T)
        BY <2>2, <2>4, <4>1, StatRowIs
      <4>4. QED
        BY <2>3, <4>2, <4>3
    <3>2. QED
      BY <3>1
  <2>9. buckets = {b[a] : a \in K}
    <3>1. StatsPayments(filter.from, filter.to, e) = {StatRow(a, S, e) : a \in {Bucket(r) : r \in S}}
      BY <2>3, Zenon DEF StatsPayments
    <3>2. \A a \in {Bucket(r) : r \in S} : StatRow(a, S, e).asset = a
      <4>1. ASSUME NEW a PROVE StatRow(a, S, e).asset = a
        <5>1. PICK T : T = {r \in S : Bucket(r) = a}
          OBVIOUS
        <5>2. QED
          BY <2>2, <2>4, <5>1, StatRowIs
      <4>2. QED
        BY <4>1
    <3>3. buckets = {StatRow(a, S, e) : a \in K}
      BY <2>0, <2>7, <3>1, <3>2
    <3>4. QED
      BY <2>7, <3>3
  <2>10. Partition(P, K, got)
    <3>1. \A r \in S : r \in got <=> Bucket(r) \in K
      <4>1. \A r \in S : filter.asset \in {Any, Bucket(r)} <=> InBucket(r, filter)
        BY <2>1, <2>4, BucketsSelect
      <4>2. QED
        BY <2>5, <2>7, <4>1
    <3>2. \A a \in K : P[a] = {r \in S : Bucket(r) = a}
      BY <2>7
    <3>3. QED
      BY <2>6, <3>1, <3>2 DEF Partition
  <2>11. IsFiniteSet(K)
    <3>1. PICK c : c = [r \in S |-> Bucket(r)]
      OBVIOUS
    <3>2. IsFiniteSet({c[r] : r \in S})
      BY <2>4, ImageIsFinite
    <3>3. K \subseteq {c[r] : r \in S}
      BY <2>7, <3>1
    <3>4. QED
      BY <3>2, <3>3, FS_Subset
  <2>12. \A r \in got : v[r] \in Nat /\ v[r] = AmountOf[r.id] /\ u[r] = 1
    BY <2>3, <2>4, <2>6, <2>7, PaginationAssumption DEF AmountsOf, Row
  <2>13. \A a \in K : P[a] \subseteq got /\ IsFiniteSet(P[a])
    BY <2>6, <2>10, FS_Subset DEF Partition
  <2>14. \A a \in K : /\ g[a] = SumFunctionOnSet(u, P[a]) /\ g[a] \in Nat
                      /\ h[a] = SumFunctionOnSet(v, P[a]) /\ h[a] \in Nat
    <3>1. ASSUME NEW a \in K
          PROVE  /\ g[a] = SumFunctionOnSet(u, P[a]) /\ g[a] \in Nat
                 /\ h[a] = SumFunctionOnSet(v, P[a]) /\ h[a] \in Nat
      <4>1. PICK T : T = P[a]
        OBVIOUS
      <4>2. IsFiniteSet(T) /\ \A r \in T : v[r] \in Nat /\ u[r] = 1
        BY <2>12, <2>13, <4>1
      <4>3. g[a] = Cardinality(T) /\ h[a] = SumFunctionOnSet(v, T)
        BY <2>7, <4>1
      <4>4. Cardinality(T) \in Nat /\ SumFunctionOnSet(v, T) \in Nat
        BY <4>2, SumIsNat, FS_CardinalityType
      <4>5. SumFunctionOnSet(u, T) = Cardinality(T)
        BY <4>2, SumOnes
      <4>6. QED
        BY <4>1, <4>3, <4>4, <4>5
    <3>2. QED
      BY <3>1
  <2>15. SumFunctionOnSet(g, K) = SumFunctionOnSet(u, got)
    <3>1. \A r \in got : u[r] \in Nat
      BY <2>12
    <3>2. \A a \in K : g[a] = SumFunctionOnSet(u, P[a])
      BY <2>14
    <3>3. QED
      BY <2>6, <2>10, <2>11, <3>1, <3>2, SumOfParts
  <2>16. SumFunctionOnSet(h, K) = SumFunctionOnSet(v, got)
    <3>1. \A r \in got : v[r] \in Nat
      BY <2>12
    <3>2. \A a \in K : h[a] = SumFunctionOnSet(v, P[a])
      BY <2>14
    <3>3. QED
      BY <2>6, <2>10, <2>11, <3>1, <3>2, SumOfParts
  <2>17. SumFunctionOnSet(u, got) = Cardinality(got)
    BY <2>6, <2>12, SumOnes
  <2>18. PICK w, y, z : /\ w = [c \in buckets |-> c.count] /\ y = [c \in buckets |-> c.total]
                        /\ z = [r \in got |-> HexOrEmpty(Numeric(AmountOf[r.id], x))]
    OBVIOUS
  <2>19. /\ SumFunction(w) = SumFunctionOnSet(w, buckets)
         /\ SumFunction(y) = SumFunctionOnSet(y, buckets)
         /\ SumFunction(z) = SumFunctionOnSet(z, got)
    BY <2>18, SumOverDomain
  <2>20. \A a, c \in K : b[a] = b[c] => a = c
    BY <2>8
  <2>21. \A a \in K : w[b[a]] = g[a] /\ y[b[a]] = h[a]
    BY <2>8, <2>9, <2>18
  <2>22. SumFunctionOnSet(g, K) = SumFunctionOnSet(w, {b[a] : a \in K})
    <3>1. \A a \in K : g[a] = w[b[a]] /\ g[a] \in Nat
      BY <2>14, <2>21
    <3>2. QED
      BY <2>11, <2>20, <3>1, SumRenamed
  <2>23. SumFunctionOnSet(h, K) = SumFunctionOnSet(y, {b[a] : a \in K})
    <3>1. \A a \in K : h[a] = y[b[a]] /\ h[a] \in Nat
      BY <2>14, <2>21
    <3>2. QED
      BY <2>11, <2>20, <3>1, SumRenamed
  <2>24. SumFunctionOnSet(z, got) = SumFunctionOnSet(v, got)
    <3>1. \A r \in got : z[r] = v[r]
      <4>1. \A n \in Nat : NumericToAmount(Numeric(n, x)) = n
        BY <2>2, ConversionExact
      <4>2. QED
        BY <2>12, <2>18, <4>1 DEF HexOrEmpty
    <3>2. QED
      BY <2>6, <3>1, SumSame
  <2>25. SumFunction(w) = Cardinality(got) /\ SumFunction(y) = SumFunction(z)
    BY <2>9, <2>15, <2>16, <2>17, <2>19, <2>22, <2>23, <2>24
  <2>26. AddsUp(buckets, got, x)
    BY <2>18, <2>25 DEF AddsUp
  <2>27. QED
    BY <2>0, <2>26
<1>2. QED
  BY <1>1, PaginationInvariant, PTL
=============================================================================
