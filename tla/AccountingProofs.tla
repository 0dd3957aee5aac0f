-------------------------- MODULE AccountingProofs --------------------------
(***************************************************************************)
(* Proofs about module Accounting.                                         *)
(*                                                                         *)
(* The properties compare sums over the tables.  What makes them hold is   *)
(* small: the tables are well typed, an order has a payment time exactly   *)
(* when it is no longer pending, a refund belongs to such an order, and a  *)
(* report's rows are either on record or still to be written.  The rest is *)
(* the arithmetic of module AmountProofs.                                  *)
(***************************************************************************)
EXTENDS Accounting, AmountProofs

(* The tables: their types, and what relates their columns.                *)
TablesOK ==
  /\ merchants \subseteq Merchants
  /\ orders \in [Orders -> Order \cup {Nil}]
  /\ refunds \in [Refunds -> Refund \cup {Nil}]
  /\ payments \subseteq Orders
  /\ \A o \in Orders : orders[o] # Nil =>
       (orders[o].paidAt = Nil <=> orders[o].status = "pending")
  /\ \A f \in Refunds : refunds[f] # Nil =>
       /\ orders[refunds[f].order] # Nil
       /\ orders[refunds[f].order].status # "pending"

(* The rows report r has on record.                                        *)
RowsOf(r) == {x.row : x \in {y \in settlements \cup runs : y.report = r}}

Kinds == {"settlement", "reconciliation", "export"}
RowType(k) == CASE k = "settlement"     -> SettlementRow
                [] k = "reconciliation" -> Reconciliation
                [] k = "export"         -> ExportRow

(* A report without an answer has recorded nothing; an answered one has    *)
(* rows of one type, each on record or still to be written.                *)
Unanswered(r) ==
  /\ report[r].kind = Nil /\ report[r].merchant = Nil /\ report[r].period = Nil
  /\ report[r].pc \in {"idle", "error"}
  /\ report[r].answer = {} /\ report[r].todo = {}
  /\ RowsOf(r) = {}
Answered(r) ==
  /\ report[r].kind \in Kinds
  /\ report[r].merchant \in Merchants /\ report[r].period \in Periods
  /\ report[r].pc = IF report[r].todo = {} THEN "done" ELSE "persist"
  /\ report[r].answer \subseteq RowType(report[r].kind)
  /\ report[r].todo \subseteq report[r].answer
  /\ RowsOf(r) \subseteq report[r].answer
  /\ report[r].kind # "export" => report[r].answer \subseteq RowsOf(r) \cup report[r].todo

ReportsOK ==
  /\ settlements \subseteq [report : Reports, row : SettlementRow]
  /\ runs \subseteq [report : Reports, row : Reconciliation]
  /\ DOMAIN report = Reports
  /\ \A r \in Reports :
       /\ report[r] = [kind |-> report[r].kind, pc |-> report[r].pc,
                       merchant |-> report[r].merchant, period |-> report[r].period,
                       answer |-> report[r].answer, todo |-> report[r].todo]
       /\ Unanswered(r) \/ Answered(r)

-----------------------------------------------------------------------------
(***************************************************************************)
(* What the queries return                                                 *)
(***************************************************************************)

(* The orders a query selects are rows of merchant_orders that have been   *)
(* paid.                                                                   *)
PaidFacts ==
  \A m, p :
    /\ IsFiniteSet(PaidIn(m, p))
    /\ \A o \in PaidIn(m, p) :
         /\ o \in Orders /\ orders[o] # Nil
         /\ orders[o].merchant = m
         /\ orders[o].asset \in Assets /\ AssetOf(o) = orders[o].asset
         /\ orders[o].amount \in Nat
         /\ orders[o].status \in {"paid", "refunded"}
         /\ orders[o].paidAt \in Times /\ Month(orders[o].paidAt) = p
(* Well-typed tables have these rows.                                      *)
LEMMA PaidRows == TablesOK => PaidFacts
<1> SUFFICES ASSUME TablesOK, NEW m, NEW p
             PROVE  /\ IsFiniteSet(PaidIn(m, p))
                    /\ \A o \in PaidIn(m, p) :
                         /\ o \in Orders /\ orders[o] # Nil
                         /\ orders[o].merchant = m
                         /\ orders[o].asset \in Assets /\ AssetOf(o) = orders[o].asset
                         /\ orders[o].amount \in Nat
                         /\ orders[o].status \in {"paid", "refunded"}
                         /\ orders[o].paidAt \in Times /\ Month(orders[o].paidAt) = p
  BY DEF PaidFacts
<1>1. PaidIn(m, p) \subseteq Orders
  BY DEF PaidIn
<1>2. IsFiniteSet(PaidIn(m, p))
  BY <1>1, AccountingAssumption, FS_Subset
<1>3. ASSUME NEW o \in PaidIn(m, p)
      PROVE  /\ o \in Orders /\ orders[o] # Nil
             /\ orders[o].merchant = m
             /\ orders[o].asset \in Assets /\ AssetOf(o) = orders[o].asset
             /\ orders[o].amount \in Nat
             /\ orders[o].status \in {"paid", "refunded"}
             /\ orders[o].paidAt \in Times /\ Month(orders[o].paidAt) = p
  <2>1. /\ o \in Orders /\ orders[o] # Nil /\ orders[o].merchant = m
        /\ orders[o].paidAt # Nil /\ Month(orders[o].paidAt) = p
    BY DEF PaidIn
  <2>2. orders[o] \in Order
    BY <2>1 DEF TablesOK
  <2>3. orders[o].status # "pending"
    BY <2>1 DEF TablesOK
  <2>4. /\ orders[o].asset \in Assets /\ orders[o].amount \in Nat
        /\ orders[o].status \in {"paid", "refunded"} /\ orders[o].paidAt \in Times
    BY <2>1, <2>2, <2>3 DEF Order
  <2>5. Nil \notin Assets
    BY AccountingAssumption
  <2>6. AssetOf(o) = orders[o].asset
    BY <2>4, <2>5 DEF AssetOf
  <2>7. QED
    BY <2>1, <2>4, <2>6
<1>4. QED
  BY <1>2, <1>3

(* The refunds of an order are rows of the table, and their sum is an      *)
(* amount.                                                                 *)
RefundFacts ==
  \A o : /\ IsFiniteSet(RefundsOf(o))
         /\ \A f \in RefundsOf(o) : f \in Refunds /\ refunds[f].amount \in Nat
         /\ RefundSum(o) \in Nat
(* A sum over finitely many natural numbers is one.                        *)
LEMMA RefundRows == TablesOK => RefundFacts
<1> SUFFICES ASSUME TablesOK, NEW o
             PROVE  /\ IsFiniteSet(RefundsOf(o))
                    /\ \A f \in RefundsOf(o) : f \in Refunds /\ refunds[f].amount \in Nat
                    /\ RefundSum(o) \in Nat
  BY DEF RefundFacts
<1>1. RefundsOf(o) \subseteq Refunds
  BY DEF RefundsOf
<1>2. IsFiniteSet(RefundsOf(o))
  BY <1>1, AccountingAssumption, FS_Subset
<1>3. ASSUME NEW f \in RefundsOf(o) PROVE f \in Refunds /\ refunds[f].amount \in Nat
  BY DEF RefundsOf, TablesOK, Refund
<1>4. PICK v, S : S = RefundsOf(o) /\ v = [f \in S |-> refunds[f].amount]
  OBVIOUS
<1>5. RefundSum(o) = SumFunction(v)
  BY <1>4 DEF RefundSum
<1>6. SumFunction(v) = SumFunctionOnSet(v, S)
  BY <1>4, SumOverDomain
<1>7. \A f \in S : v[f] \in Nat
  BY <1>3, <1>4
<1>8. RefundSum(o) \in Nat
  BY <1>2, <1>4, <1>5, <1>6, <1>7, SumIsNat
<1>9. QED
  BY <1>2, <1>3, <1>8

(* Gross and fees of a set of orders, as sums over a function of all of    *)
(* them.                                                                   *)
amountOf == [o \in Orders |-> IF orders[o] = Nil THEN 0 ELSE orders[o].amount]
refundOf == [o \in Orders |-> RefundSum(o)]
SumFacts ==
  /\ \A o \in Orders : amountOf[o] \in Nat /\ refundOf[o] \in Nat
  /\ \A m, p : \A S \in SUBSET PaidIn(m, p) :
       /\ IsFiniteSet(S) /\ S \subseteq Orders
       /\ GrossOf(S) = SumFunctionOnSet(amountOf, S) /\ GrossOf(S) \in Nat
       /\ FeesOf(S) = SumFunctionOnSet(refundOf, S) /\ FeesOf(S) \in Nat
(* Gross and fees are sums of natural numbers, so they are amounts.        *)
LEMMA SumsOfRows == TablesOK => SumFacts
<1> SUFFICES ASSUME TablesOK PROVE SumFacts
  OBVIOUS
<1>1. PaidFacts /\ RefundFacts
  BY PaidRows, RefundRows
<1>2. ASSUME NEW o \in Orders PROVE amountOf[o] \in Nat /\ refundOf[o] \in Nat
  <2>1. orders[o] = Nil \/ orders[o].amount \in Nat
    BY DEF TablesOK, Order
  <2>2. QED
    BY <1>1, <2>1 DEF amountOf, refundOf, RefundFacts
<1>3. ASSUME NEW m, NEW p, NEW S \in SUBSET PaidIn(m, p)
      PROVE  /\ IsFiniteSet(S) /\ S \subseteq Orders
             /\ GrossOf(S) = SumFunctionOnSet(amountOf, S) /\ GrossOf(S) \in Nat
             /\ FeesOf(S) = SumFunctionOnSet(refundOf, S) /\ FeesOf(S) \in Nat
  <2>1. IsFiniteSet(S) /\ \A o \in S : o \in Orders /\ orders[o] # Nil
    BY <1>1, FS_Subset DEF PaidFacts
  <2>2. PICK v, w : v = [o \in S |-> orders[o].amount] /\ w = [o \in S |-> RefundSum(o)]
    OBVIOUS
  <2>3. GrossOf(S) = SumFunctionOnSet(v, S) /\ FeesOf(S) = SumFunctionOnSet(w, S)
    <3>1. GrossOf(S) = SumFunction(v) /\ FeesOf(S) = SumFunction(w)
      BY <2>2 DEF GrossOf, FeesOf
    <3>2. SumFunction(v) = SumFunctionOnSet(v, S) /\ SumFunction(w) = SumFunctionOnSet(w, S)
      BY <2>2, SumOverDomain
    <3>3. QED
      BY <3>1, <3>2
  <2>4. PICK a, q : a = amountOf /\ q = refundOf
    OBVIOUS
  <2>5. \A o \in S : v[o] = a[o] /\ w[o] = q[o] /\ a[o] \in Nat /\ q[o] \in Nat
    BY <1>2, <2>1, <2>2, <2>4 DEF amountOf, refundOf
  <2>6. SumFunctionOnSet(v, S) = SumFunctionOnSet(a, S)
    BY <2>1, <2>5, SumSame
  <2>7. SumFunctionOnSet(w, S) = SumFunctionOnSet(q, S)
    BY <2>1, <2>5, SumSame
  <2>8. SumFunctionOnSet(a, S) \in Nat /\ SumFunctionOnSet(q, S) \in Nat
    BY <2>1, <2>5, SumIsNat
  <2>9. QED
    BY <2>1, <2>3, <2>4, <2>6, <2>7, <2>8
<1>4. QED
  BY <1>2, <1>3 DEF SumFacts

(* The rows of the three queries with the conversions worked out.          *)
SettledAt(m, p, a) ==
  SettledRow(a, GrossOf(GroupOf(m, p, a)), FeesOf(GroupOf(m, p, a)))
ReconciledAt(m, p) ==
  [matched |-> Cardinality(PaidIn(m, p) \cap payments),
   unmatched |-> PaidIn(m, p) \ payments,
   discrepancy |-> GrossOf(PaidIn(m, p) \ payments)]
ExportedAt(o) ==
  [order |-> o, asset |-> orders[o].asset, amount |-> orders[o].amount,
   status |-> orders[o].status, paidAt |-> orders[o].paidAt, refund |-> RefundSum(o)]
QueryFacts ==
  \A m, p : \A e \in Int :
    /\ SettlementRows(m, p, e) = {SettledAt(m, p, a) : a \in AssetsPaidIn(m, p)}
    /\ ReconciliationOf(m, p, e) = ReconciledAt(m, p)
    /\ ExportRows(m, p, e) = {ExportedAt(o) : o \in PaidIn(m, p)}

(* The exponent the database chooses makes no difference.                  *)
LEMMA QueryResults == TablesOK => QueryFacts
<1> SUFFICES ASSUME TablesOK, NEW m, NEW p, NEW e \in Int
             PROVE  /\ SettlementRows(m, p, e) = {SettledAt(m, p, a) : a \in AssetsPaidIn(m, p)}
                    /\ ReconciliationOf(m, p, e) = ReconciledAt(m, p)
                    /\ ExportRows(m, p, e) = {ExportedAt(o) : o \in PaidIn(m, p)}
  BY DEF QueryFacts
<1>1. PaidFacts /\ RefundFacts /\ SumFacts
  BY PaidRows, RefundRows, SumsOfRows
<1>2. \A v \in Nat : MustAmount(Numeric(v, e)) = v
  BY ConversionExact
<1>3. SettlementRows(m, p, e) = {SettledAt(m, p, a) : a \in AssetsPaidIn(m, p)}
  <2>1. ASSUME NEW a
        PROVE  SettledRow(a, MustAmount(Numeric(GrossOf(GroupOf(m, p, a)), e)),
                             MustAmount(Numeric(FeesOf(GroupOf(m, p, a)), e)))
                 = SettledAt(m, p, a)
    <3>1. PICK S : S = GroupOf(m, p, a)
      OBVIOUS
    <3>2. S \in SUBSET PaidIn(m, p)
      BY <3>1 DEF GroupOf
    <3>3. GrossOf(S) \in Nat /\ FeesOf(S) \in Nat
      BY <1>1, <3>2 DEF SumFacts
    <3>4. MustAmount(Numeric(GrossOf(S), e)) = GrossOf(S) /\ MustAmount(Numeric(FeesOf(S), e)) = FeesOf(S)
      BY <1>2, <3>3
    <3>5. QED
      BY <3>1, <3>4 DEF SettledAt
  <2>2. QED
    BY <2>1, Zenon DEF SettlementRows
<1>4. ReconciliationOf(m, p, e) = ReconciledAt(m, p)
  <2>1. PICK U : U = PaidIn(m, p) \ payments
    OBVIOUS
  <2>2. [o \in U |-> MustAmount(Numeric(orders[o].amount, e))] = [o \in U |-> orders[o].amount]
    <3>1. ASSUME NEW o \in U PROVE MustAmount(Numeric(orders[o].amount, e)) = orders[o].amount
      <4>1. orders[o].amount \in Nat
        BY <1>1, <2>1 DEF PaidFacts
      <4>2. QED
        BY <1>2, <4>1
    <3>2. QED
      BY <3>1
  <2>3. QED
    BY <2>1, <2>2, Zenon DEF ReconciliationOf, ReconciledAt, GrossOf
<1>5. ExportRows(m, p, e) = {ExportedAt(o) : o \in PaidIn(m, p)}
  <2>1. ASSUME NEW o \in PaidIn(m, p)
        PROVE  /\ (IF orders[o].asset = Nil THEN "" ELSE orders[o].asset) = orders[o].asset
               /\ MustAmount(Numeric(orders[o].amount, e)) = orders[o].amount
               /\ MustAmount(Numeric(RefundSum(o), e)) = RefundSum(o)
    <3>1. orders[o].amount \in Nat /\ orders[o].asset \in Assets
      BY <1>1 DEF PaidFacts
    <3>2. RefundSum(o) \in Nat
      BY <1>1 DEF RefundFacts
    <3>3. Nil \notin Assets
      BY AccountingAssumption
    <3>4. QED
      BY <1>2, <3>1, <3>2, <3>3
  <2> DEFINE Row(o) == [order |-> o, asset |-> IF orders[o].asset = Nil THEN "" ELSE orders[o].asset,
                        amount |-> MustAmount(Numeric(orders[o].amount, e)),
                        status |-> orders[o].status, paidAt |-> orders[o].paidAt,
                        refund |-> MustAmount(Numeric(RefundSum(o), e))]
  <2>2. ASSUME NEW o \in PaidIn(m, p) PROVE Row(o) = ExportedAt(o)
    BY <2>1 DEF ExportedAt
  <2>3. ExportRows(m, p, e) = {Row(o) : o \in PaidIn(m, p)}
    BY Zenon DEF ExportRows
  <2> HIDE DEF Row
  <2>4. QED
    BY <2>2, <2>3, Zenon
<1>6. QED
  BY <1>3, <1>4, <1>5

(* The rows have the types of the responses.                               *)
RowFacts ==
  \A m, p :
    /\ \A a \in AssetsPaidIn(m, p) : SettledAt(m, p, a) \in SettlementRow
    /\ ReconciledAt(m, p) \in Reconciliation
    /\ \A o \in PaidIn(m, p) : ExportedAt(o) \in ExportRow
(* Counts, sums and columns of the selected orders have the types of the   *)
(* fields.                                                                 *)
LEMMA RowsTyped == TablesOK => RowFacts
<1> SUFFICES ASSUME TablesOK, NEW m, NEW p
             PROVE  /\ \A a \in AssetsPaidIn(m, p) : SettledAt(m, p, a) \in SettlementRow
                    /\ ReconciledAt(m, p) \in Reconciliation
                    /\ \A o \in PaidIn(m, p) : ExportedAt(o) \in ExportRow
  BY DEF RowFacts
<1>1. PaidFacts /\ RefundFacts /\ SumFacts
  BY PaidRows, RefundRows, SumsOfRows
<1>2. ASSUME NEW a \in AssetsPaidIn(m, p) PROVE SettledAt(m, p, a) \in SettlementRow
  <2>1. PICK g, f : g = GrossOf(GroupOf(m, p, a)) /\ f = FeesOf(GroupOf(m, p, a))
    OBVIOUS
  <2>2. GroupOf(m, p, a) \in SUBSET PaidIn(m, p)
    BY DEF GroupOf
  <2>3. g \in Nat /\ f \in Nat
    BY <1>1, <2>1, <2>2 DEF SumFacts
  <2>4. a \in Assets
    BY <1>1 DEF AssetsPaidIn, PaidFacts
  <2>5. NetAmount(g, f) \in Nat
    BY <2>3 DEF NetAmount
  <2>6. QED
    BY <2>1, <2>3, <2>4, <2>5 DEF SettledAt, SettledRow, SettlementRow
<1>3. ReconciledAt(m, p) \in Reconciliation
  <2>1. PICK c, U, d : /\ c = Cardinality(PaidIn(m, p) \cap payments)
                       /\ U = PaidIn(m, p) \ payments /\ d = GrossOf(U)
    OBVIOUS
  <2>2. IsFiniteSet(PaidIn(m, p) \cap payments)
    BY <1>1, FS_Intersection DEF PaidFacts
  <2>3. c \in Nat
    BY <2>1, <2>2, FS_CardinalityType
  <2>4. d \in Nat /\ U \in SUBSET Orders
    BY <1>1, <2>1 DEF SumFacts
  <2>5. QED
    BY <2>1, <2>3, <2>4 DEF ReconciledAt, Reconciliation
<1>4. ASSUME NEW o \in PaidIn(m, p) PROVE ExportedAt(o) \in ExportRow
  BY <1>1 DEF PaidFacts, RefundFacts, ExportedAt, ExportRow
<1>5. QED
  BY <1>2, <1>3, <1>4

-----------------------------------------------------------------------------
(***************************************************************************)
(* The tables only grow                                                    *)
(***************************************************************************)

(* What no step may do to the tables: lose a row, change what an order or  *)
(* a refund is worth, or move an order that has been paid.                 *)
TablesGrow ==
  /\ payments \subseteq payments'
  /\ \A o \in Orders : orders[o] # Nil =>
       /\ orders'[o] # Nil
       /\ orders'[o].merchant = orders[o].merchant
       /\ orders'[o].asset = orders[o].asset
       /\ orders'[o].amount = orders[o].amount
       /\ orders[o].paidAt # Nil => orders'[o].paidAt = orders[o].paidAt
  /\ \A f \in Refunds : refunds[f] # Nil =>
       /\ refunds'[f] # Nil
       /\ refunds'[f].order = refunds[f].order
       /\ refunds'[f].amount = refunds[f].amount
       /\ refunds[f].pc # "sent" => refunds'[f].pc # "sent"
TableStep == TablesOK' /\ TablesGrow

(* A new order is pending.                                                 *)
LEMMA CreateOrderStep ==
  ASSUME TablesOK, NEW o \in Orders, NEW m \in Merchants, NEW i \in Inputs,
         CreateOrder(o, m, i)
  PROVE  TableStep
<1>1. PICK a, n, new : /\ a = (IF i.asset = "" THEN "CKB" ELSE i.asset)
                       /\ n = Column(AmountToNumeric(i.amount))
                       /\ new = [merchant |-> m, asset |-> a, amount |-> n,
                                 status |-> "pending", paidAt |-> Nil]
  OBVIOUS
<1>2. orders[o] = Nil /\ orders' = [orders EXCEPT ![o] = new]
  BY <1>1 DEF CreateOrder
<1>3. UNCHANGED << merchants, refunds, payments >>
  BY DEF CreateOrder
<1>4. a \in Assets
  BY <1>1 DEF Assets
<1>5. n \in Nat
  <2>1. i.amount \in Nat
    BY AccountingAssumption
  <2>2. QED
    BY <1>1, <2>1, ColumnExact
<1>6. new \in Order /\ Nil \notin Order
  BY <1>1, <1>4, <1>5, AccountingAssumption DEF Order
<1>7. /\ orders' \in [Orders -> Order \cup {Nil}]
      /\ \A q \in Orders : orders'[q] = IF q = o THEN new ELSE orders[q]
  BY <1>2, <1>6 DEF TablesOK
<1>8. \A q \in Orders : orders[q] # Nil => orders'[q] = orders[q]
  BY <1>2, <1>7
<1>9. \A q \in Orders : orders'[q] # Nil =>
        (orders'[q].paidAt = Nil <=> orders'[q].status = "pending")
  <2>1. new.paidAt = Nil /\ new.status = "pending"
    BY <1>1
  <2>2. QED
    BY <1>7, <2>1 DEF TablesOK
<1>10. ASSUME NEW f \in Refunds, refunds[f] # Nil
       PROVE  orders'[refunds[f].order] # Nil /\ orders'[refunds[f].order].status # "pending"
  <2>1. refunds[f].order \in Orders
    BY <1>10 DEF TablesOK, Refund
  <2>2. orders[refunds[f].order] # Nil /\ orders[refunds[f].order].status # "pending"
    BY <1>10 DEF TablesOK
  <2>3. QED
    BY <1>8, <2>1, <2>2
<1>11. TablesOK'
  BY <1>3, <1>7, <1>9, <1>10 DEF TablesOK
<1>12. TablesGrow
  BY <1>3, <1>8 DEF TablesGrow
<1>13. QED
  BY <1>11, <1>12 DEF TableStep

(* A step that only sets the status, and the payment time with it.         *)
LEMMA MatchStep ==
  ASSUME TablesOK, NEW o \in Orders, NEW t \in Times, MatchMerchantOrder(o, t)
  PROVE  TableStep
<1>1. PICK new : new = [orders[o] EXCEPT !.status = "paid", !.paidAt = t]
  OBVIOUS
<1>2. orders[o] # Nil /\ orders[o].status = "pending" /\ orders' = [orders EXCEPT ![o] = new]
  BY <1>1 DEF MatchMerchantOrder
<1>3. UNCHANGED << merchants, refunds, payments >>
  BY DEF MatchMerchantOrder
<1>4. orders[o] \in Order /\ orders[o].paidAt = Nil
  BY <1>2 DEF TablesOK
<1>5. /\ new \in Order /\ new.status = "paid" /\ new.paidAt = t
      /\ new.merchant = orders[o].merchant /\ new.asset = orders[o].asset
      /\ new.amount = orders[o].amount
  BY <1>1, <1>4 DEF Order
<1>6. Nil \notin Order /\ t # Nil
  BY AccountingAssumption
<1>7. /\ orders' \in [Orders -> Order \cup {Nil}]
      /\ \A q \in Orders : orders'[q] = IF q = o THEN new ELSE orders[q]
  BY <1>2, <1>5 DEF TablesOK
<1>8. \A q \in Orders : orders'[q] # Nil =>
        (orders'[q].paidAt = Nil <=> orders'[q].status = "pending")
  BY <1>5, <1>6, <1>7 DEF TablesOK
<1>9. ASSUME NEW f \in Refunds, refunds[f] # Nil
      PROVE  orders'[refunds[f].order] # Nil /\ orders'[refunds[f].order].status # "pending"
  <2>1. refunds[f].order \in Orders
    BY <1>9 DEF TablesOK, Refund
  <2>2. orders[refunds[f].order] # Nil /\ orders[refunds[f].order].status # "pending"
    BY <1>9 DEF TablesOK
  <2>3. QED
    BY <1>2, <1>7, <2>1, <2>2
<1>10. TablesOK'
  BY <1>3, <1>7, <1>8, <1>9 DEF TablesOK
<1>11. TablesGrow
  BY <1>3, <1>4, <1>5, <1>6, <1>7 DEF TablesGrow
<1>12. QED
  BY <1>10, <1>11 DEF TableStep

(* A refund request begins for an order that has been paid.                *)
LEMMA RefundSendStep ==
  ASSUME TablesOK, NEW f \in Refunds, NEW o \in Orders, NEW a \in RefundAmounts,
         RefundSend(f, o, a)
  PROVE  TableStep
<1>1. PICK n, new : /\ n = Column(AmountToNumeric(a))
                    /\ new = [order |-> o, amount |-> n, pc |-> "sent"]
  OBVIOUS
<1>2. /\ refunds[f] = Nil /\ refunds' = [refunds EXCEPT ![f] = new]
      /\ orders[o] # Nil /\ orders[o].status = "paid"
  BY <1>1 DEF RefundSend
<1>3. UNCHANGED << merchants, orders, payments >>
  BY DEF RefundSend
<1>4. n \in Nat
  <2>1. a \in Nat
    BY AccountingAssumption
  <2>2. QED
    BY <1>1, <2>1, ColumnExact
<1>5. new \in Refund
  BY <1>1, <1>4 DEF Refund
<1>6. /\ refunds' \in [Refunds -> Refund \cup {Nil}]
      /\ \A g \in Refunds : refunds'[g] = IF g = f THEN new ELSE refunds[g]
  BY <1>2, <1>5 DEF TablesOK
<1>7. ASSUME NEW g \in Refunds, refunds'[g] # Nil
      PROVE  orders[refunds'[g].order] # Nil /\ orders[refunds'[g].order].status # "pending"
  BY <1>1, <1>2, <1>6, <1>7 DEF TablesOK
<1>8. TablesOK'
  BY <1>3, <1>6, <1>7 DEF TablesOK
<1>9. TablesGrow
  BY <1>2, <1>3, <1>6 DEF TablesGrow
<1>10. QED
  BY <1>8, <1>9 DEF TableStep

(* It records the refund and marks the order.                              *)
LEMMA RefundRecordStep ==
  ASSUME TablesOK, NEW f \in Refunds, InsertRefund(f) \/ MarkRefunded(f)
  PROVE  TableStep
<1>0. PICK pc \in {"recorded", "done"} : refunds' = [refunds EXCEPT ![f].pc = pc]
  BY DEF InsertRefund, MarkRefunded
<1>1. PICK new : /\ new = [refunds[f] EXCEPT !.pc = pc]
                 /\ refunds' = [refunds EXCEPT ![f] = new]
  BY <1>0
<1>2. refunds[f] # Nil /\ UNCHANGED << merchants, payments >>
  BY DEF InsertRefund, MarkRefunded
<1>3. PICK o : o = refunds[f].order
  OBVIOUS
<1>4. refunds[f] \in Refund /\ o \in Orders /\ orders[o] # Nil /\ orders[o].status # "pending"
  BY <1>2, <1>3 DEF TablesOK, Refund
<1>5. new \in Refund /\ new.order = o /\ new.amount = refunds[f].amount /\ new.pc # "sent"
  BY <1>1, <1>3, <1>4 DEF Refund
<1>6. /\ refunds' \in [Refunds -> Refund \cup {Nil}]
      /\ \A g \in Refunds : refunds'[g] = IF g = f THEN new ELSE refunds[g]
  BY <1>1, <1>5 DEF TablesOK
<1>7. Nil \notin Refund /\ Nil \notin Order
  BY AccountingAssumption
<1>8. PICK ref : ref = [orders[o] EXCEPT !.status = "refunded"]
  OBVIOUS
<1>9. orders' = orders \/ orders' = [orders EXCEPT ![o] = ref]
  BY <1>3, <1>8 DEF InsertRefund, MarkRefunded
<1>10. orders[o] \in Order
  BY <1>4 DEF TablesOK
<1>11. /\ ref \in Order /\ ref.status = "refunded" /\ ref.paidAt = orders[o].paidAt
       /\ ref.merchant = orders[o].merchant /\ ref.asset = orders[o].asset
       /\ ref.amount = orders[o].amount
  BY <1>8, <1>10 DEF Order
<1>12. /\ orders' \in [Orders -> Order \cup {Nil}]
       /\ \A q \in Orders : orders'[q] = orders[q] \/ (q = o /\ orders'[q] = ref)
  BY <1>4, <1>9, <1>11 DEF TablesOK
<1>13. \A q \in Orders : orders'[q] # Nil =>
         (orders'[q].paidAt = Nil <=> orders'[q].status = "pending")
  BY <1>4, <1>11, <1>12 DEF TablesOK
<1>14. ASSUME NEW g \in Refunds, refunds'[g] # Nil
       PROVE  orders'[refunds'[g].order] # Nil /\ orders'[refunds'[g].order].status # "pending"
  <2>1. PICK q : q = refunds'[g].order
    OBVIOUS
  <2>2. q \in Orders /\ orders[q] # Nil /\ orders[q].status # "pending"
    <3>1. CASE g = f
      BY <1>4, <1>5, <1>6, <2>1, <3>1
    <3>2. CASE g # f
      BY <1>6, <1>14, <2>1, <3>2 DEF TablesOK, Refund
    <3>3. QED
      BY <3>1, <3>2
  <2>3. QED
    BY <1>7, <1>11, <1>12, <2>1, <2>2
<1>15. TablesOK'
  BY <1>2, <1>6, <1>12, <1>13, <1>14 DEF TablesOK
<1>16. TablesGrow
  <2>1. \A q \in Orders : orders[q] # Nil =>
          /\ orders'[q] # Nil
          /\ orders'[q].merchant = orders[q].merchant
          /\ orders'[q].asset = orders[q].asset
          /\ orders'[q].amount = orders[q].amount
          /\ orders'[q].paidAt = orders[q].paidAt
    BY <1>7, <1>11, <1>12
  <2>2. \A g \in Refunds : refunds[g] # Nil =>
          /\ refunds'[g] # Nil
          /\ refunds'[g].order = refunds[g].order
          /\ refunds'[g].amount = refunds[g].amount
          /\ refunds[g].pc # "sent" => refunds'[g].pc # "sent"
    BY <1>3, <1>5, <1>6, <1>7
  <2>3. QED
    BY <1>2, <2>1, <2>2 DEF TablesGrow
<1>17. QED
  BY <1>15, <1>16 DEF TableStep

(* The steps that write neither orders nor refunds.                        *)
LEMMA OtherTableStep ==
  ASSUME TablesOK, UNCHANGED << orders, refunds >>,
         merchants' \subseteq Merchants, payments \subseteq payments',
         payments' \subseteq Orders
  PROVE  TableStep
<1>1. TablesOK'
  BY DEF TablesOK
<1>2. TablesGrow
  BY DEF TablesGrow
<1>3. QED
  BY <1>1, <1>2 DEF TableStep

(* The steps that write the tables.                                        *)
LEMMA WritersStep ==
  ASSUME TablesOK,
         \/ \E m \in Merchants : Provision(m)
         \/ \E o \in Orders :
              \/ \E m \in Merchants, i \in Inputs : CreateOrder(o, m, i)
              \/ \E t \in Times : MatchMerchantOrder(o, t)
              \/ ProjectPaymentReceived(o)
         \/ \E f \in Refunds :
              \/ \E o \in Orders, a \in RefundAmounts : RefundSend(f, o, a)
              \/ InsertRefund(f)
              \/ MarkRefunded(f)
  PROVE  TableStep /\ UNCHANGED << settlements, runs, report >>
<1>1. CASE \E m \in Merchants : Provision(m)
  <2>1. /\ UNCHANGED << orders, refunds, payments, settlements, runs, report >>
        /\ merchants' \subseteq Merchants
    BY <1>1 DEF Provision, TablesOK
  <2>2. payments \subseteq payments' /\ payments' \subseteq Orders
    BY <2>1 DEF TablesOK
  <2>3. QED
    BY <2>1, <2>2, OtherTableStep
<1>2. ASSUME NEW o \in Orders, NEW m \in Merchants, NEW i \in Inputs, CreateOrder(o, m, i)
      PROVE  TableStep /\ UNCHANGED << settlements, runs, report >>
  BY <1>2, CreateOrderStep DEF CreateOrder
<1>3. ASSUME NEW o \in Orders, NEW t \in Times, MatchMerchantOrder(o, t)
      PROVE  TableStep /\ UNCHANGED << settlements, runs, report >>
  BY <1>3, MatchStep DEF MatchMerchantOrder
<1>4. ASSUME NEW o \in Orders, ProjectPaymentReceived(o)
      PROVE  TableStep /\ UNCHANGED << settlements, runs, report >>
  <2>1. /\ UNCHANGED << merchants, orders, refunds, settlements, runs, report >>
        /\ payments' = payments \cup {o}
    BY <1>4 DEF ProjectPaymentReceived
  <2>2. /\ payments \subseteq payments' /\ payments' \subseteq Orders
        /\ merchants' \subseteq Merchants
    BY <2>1 DEF TablesOK
  <2>3. QED
    BY <2>1, <2>2, OtherTableStep
<1>5. ASSUME NEW f \in Refunds, NEW o \in Orders, NEW a \in RefundAmounts, RefundSend(f, o, a)
      PROVE  TableStep /\ UNCHANGED << settlements, runs, report >>
  BY <1>5, RefundSendStep DEF RefundSend
<1>6. ASSUME NEW f \in Refunds, InsertRefund(f) \/ MarkRefunded(f)
      PROVE  TableStep /\ UNCHANGED << settlements, runs, report >>
  BY <1>6, RefundRecordStep DEF InsertRefund, MarkRefunded
<1>7. QED
  BY <1>1, <1>2, <1>3, <1>4, <1>5, <1>6

-----------------------------------------------------------------------------
(***************************************************************************)
(* The reports only grow                                                   *)
(***************************************************************************)

(* A refund sum, the orders of a period and the sums of its groups after a *)
(* step are no less than before.                                           *)
RowsGrow ==
  /\ \A o \in Orders : RefundSum(o) <= RefundSum(o)'
  /\ \A m, p :
       /\ PaidIn(m, p) \subseteq PaidIn(m, p)'
       /\ AssetsPaidIn(m, p) \subseteq AssetsPaidIn(m, p)'
       /\ \A a : /\ GrossOf(GroupOf(m, p, a)) <= GrossOf(GroupOf(m, p, a))'
                 /\ FeesOf(GroupOf(m, p, a)) <= FeesOf(GroupOf(m, p, a))'
       /\ Cardinality(PaidIn(m, p) \cap payments) <= Cardinality(PaidIn(m, p) \cap payments)'

(* Recorded refunds stay, with their amounts, and others are added.        *)
LEMMA RefundSumGrows ==
  ASSUME TablesOK, TablesOK', TablesGrow, NEW o \in Orders
  PROVE  RefundSum(o) <= RefundSum(o)'
<1>1. RefundFacts /\ RefundFacts'
  <2>1. RefundFacts
    BY RefundRows
  <2>2. TablesOK' => RefundFacts'
    BY RefundRows, PTL
  <2>3. QED
    BY <2>1, <2>2
<1>2. PICK S, T, v, w : /\ S = RefundsOf(o) /\ T = RefundsOf(o)'
                        /\ v = [f \in S |-> refunds[f].amount]
                        /\ w = [f \in T |-> refunds'[f].amount]
  OBVIOUS
<1>3. S \subseteq T
  BY <1>2 DEF RefundsOf, TablesGrow
<1>4. /\ IsFiniteSet(T)
      /\ \A f \in T : w[f] \in Nat
      /\ \A f \in S : v[f] \in Nat /\ f \in Refunds
  BY <1>1, <1>2 DEF RefundFacts
<1>5. \A f \in S : v[f] = w[f]
  BY <1>2, <1>3, <1>4 DEF RefundsOf, TablesGrow
<1>6. \A f \in S : v[f] <= w[f]
  BY <1>4, <1>5
<1>7. SumFunctionOnSet(v, S) <= SumFunctionOnSet(w, T)
  BY <1>3, <1>4, <1>6, SumGrows
<1>8. RefundSum(o) = SumFunction(v) /\ RefundSum(o)' = SumFunction(w)
  BY <1>2 DEF RefundSum
<1>9. SumFunction(v) = SumFunctionOnSet(v, S) /\ SumFunction(w) = SumFunctionOnSet(w, T)
  BY <1>2, SumOverDomain
<1>10. QED
  BY <1>7, <1>8, <1>9

(* Tables that grow make every count and every sum grow.                   *)
LEMMA ReportsGrow ==
  ASSUME TablesOK, TableStep
  PROVE  RowsGrow
<1>1. TablesOK' /\ TablesGrow
  BY DEF TableStep
<1>2. PaidFacts /\ SumFacts
  BY PaidRows, SumsOfRows
<1>3. PaidFacts' /\ SumFacts'
  <2>1. TablesOK' => PaidFacts' /\ SumFacts'
    BY PaidRows, SumsOfRows, PTL
  <2>2. QED
    BY <1>1, <2>1
<1>4. \A o \in Orders : RefundSum(o) <= RefundSum(o)'
  BY <1>1, RefundSumGrows
<1>5. ASSUME NEW m, NEW p
      PROVE  /\ PaidIn(m, p) \subseteq PaidIn(m, p)'
             /\ \A o \in PaidIn(m, p) : AssetOf(o)' = AssetOf(o)
  <2>1. ASSUME NEW o \in PaidIn(m, p)
        PROVE  o \in PaidIn(m, p)' /\ orders'[o].asset = orders[o].asset
    BY <1>1 DEF PaidIn, TablesGrow, Month
  <2>2. QED
    BY <2>1, <1>2, <1>3 DEF PaidFacts
<1>6. ASSUME NEW m, NEW p
      PROVE  AssetsPaidIn(m, p) \subseteq AssetsPaidIn(m, p)'
  BY <1>5 DEF AssetsPaidIn
<1>7. ASSUME NEW m, NEW p, NEW a
      PROVE  /\ GrossOf(GroupOf(m, p, a)) <= GrossOf(GroupOf(m, p, a))'
             /\ FeesOf(GroupOf(m, p, a)) <= FeesOf(GroupOf(m, p, a))'
  <2>1. PICK S, T, v, w, x, y : /\ S = GroupOf(m, p, a) /\ T = GroupOf(m, p, a)'
                                /\ v = amountOf /\ w = amountOf'
                                /\ x = refundOf /\ y = refundOf'
    OBVIOUS
  <2>2. S \in SUBSET PaidIn(m, p) /\ T \in SUBSET PaidIn(m, p)' /\ S \subseteq T
    BY <1>5, <2>1 DEF GroupOf
  <2>3. /\ GrossOf(GroupOf(m, p, a)) = SumFunctionOnSet(v, S)
        /\ FeesOf(GroupOf(m, p, a)) = SumFunctionOnSet(x, S)
        /\ S \subseteq Orders
        /\ \A o \in Orders : v[o] \in Nat /\ x[o] \in Nat
    BY <1>2, <2>1, <2>2 DEF SumFacts
  <2>4. /\ GrossOf(GroupOf(m, p, a))' = SumFunctionOnSet(w, T)
        /\ FeesOf(GroupOf(m, p, a))' = SumFunctionOnSet(y, T)
        /\ IsFiniteSet(T) /\ T \subseteq Orders
        /\ \A o \in Orders : w[o] \in Nat /\ y[o] \in Nat
    BY <1>3, <2>1, <2>2 DEF SumFacts
  <2>5. \A o \in S : v[o] = w[o]
    <3>1. \A o \in S : orders[o] # Nil /\ o \in Orders
      BY <1>2, <2>2 DEF PaidFacts
    <3>2. \A o \in S : orders'[o] # Nil /\ orders'[o].amount = orders[o].amount
      BY <1>1, <3>1 DEF TablesGrow
    <3>3. QED
      BY <2>1, <3>1, <3>2 DEF amountOf
  <2>6. \A o \in S : x[o] <= y[o]
    BY <1>4, <2>1, <2>3 DEF refundOf
  <2>7. \A o \in S : v[o] \in Nat /\ v[o] <= w[o] /\ x[o] \in Nat
    BY <2>3, <2>5
  <2>8. \A o \in T : w[o] \in Nat /\ y[o] \in Nat
    BY <2>4
  <2>9. SumFunctionOnSet(v, S) <= SumFunctionOnSet(w, T)
    BY <2>2, <2>4, <2>7, <2>8, SumGrows
  <2>10. SumFunctionOnSet(x, S) <= SumFunctionOnSet(y, T)
    BY <2>2, <2>4, <2>6, <2>7, <2>8, SumGrows
  <2>11. QED
    BY <2>3, <2>4, <2>9, <2>10
<1>8. ASSUME NEW m, NEW p
      PROVE  Cardinality(PaidIn(m, p) \cap payments) <= Cardinality(PaidIn(m, p) \cap payments)'
  <2>1. PICK S, T : S = PaidIn(m, p) \cap payments /\ T = (PaidIn(m, p) \cap payments)'
    OBVIOUS
  <2>2. S \subseteq T
    BY <1>1, <1>5, <2>1 DEF TablesGrow
  <2>3. IsFiniteSet(T)
    BY <1>3, <2>1, FS_Subset DEF PaidFacts
  <2>4. Cardinality(S) <= Cardinality(T)
    BY <2>2, <2>3, FS_Subset
  <2>5. QED
    BY <2>1, <2>4
<1>9. QED
  BY <1>4, <1>5, <1>6, <1>7, <1>8 DEF RowsGrow

(* PeriodOnlyGrows for one row a of a report of kind k.                    *)
Kept(k, m, p, a) ==
  /\ k = "settlement" =>
       /\ a.asset \in AssetsPaidIn(m, p)
       /\ a.gross <= GrossOf(GroupOf(m, p, a.asset))
       /\ a.fees <= FeesOf(GroupOf(m, p, a.asset))
  /\ k = "reconciliation" =>
       /\ a.matched <= Cardinality(PaidIn(m, p) \cap payments)
       /\ a.unmatched \subseteq PaidIn(m, p)
  /\ k = "export" =>
       /\ a.order \in PaidIn(m, p)
       /\ orders[a.order].asset = a.asset /\ orders[a.order].amount = a.amount
       /\ orders[a.order].paidAt = a.paidAt
       /\ a.refund <= RefundSum(a.order)
AnswersKept ==
  \A r \in Reports : \A a \in report[r].answer :
    Kept(report[r].kind, report[r].merchant, report[r].period, a)

(* A row that is covered by the tables stays covered by them.              *)
LEMMA StaysKept ==
  ASSUME TablesOK, TableStep, NEW k \in Kinds, NEW m, NEW p, NEW a \in RowType(k),
         Kept(k, m, p, a)
  PROVE  Kept(k, m, p, a)'
<1>1. RowsGrow /\ TablesOK' /\ TablesGrow
  BY ReportsGrow DEF TableStep
<1>2. SumFacts /\ PaidFacts /\ RefundFacts
  BY SumsOfRows, PaidRows, RefundRows
<1>3. SumFacts' /\ PaidFacts' /\ RefundFacts'
  <2>1. TablesOK' => SumFacts' /\ PaidFacts' /\ RefundFacts'
    BY SumsOfRows, PaidRows, RefundRows, PTL
  <2>2. QED
    BY <1>1, <2>1
<1>4. CASE k = "settlement"
  <2>1. PICK b, g, h, x, y : /\ b = a.asset
                             /\ g = GrossOf(GroupOf(m, p, b)) /\ h = GrossOf(GroupOf(m, p, b))'
                             /\ x = FeesOf(GroupOf(m, p, b)) /\ y = FeesOf(GroupOf(m, p, b))'
    OBVIOUS
  <2>2. a.gross \in Nat /\ a.fees \in Nat
    BY <1>4 DEF RowType, SettlementRow
  <2>3. b \in AssetsPaidIn(m, p) /\ a.gross <= g /\ a.fees <= x
    BY <1>4, <2>1 DEF Kept
  <2>4. b \in AssetsPaidIn(m, p)' /\ g <= h /\ x <= y
    BY <1>1, <2>1, <2>3 DEF RowsGrow
  <2>5. g \in Nat /\ x \in Nat
    <3>1. GroupOf(m, p, b) \in SUBSET PaidIn(m, p)
      BY DEF GroupOf
    <3>2. QED
      BY <1>2, <2>1, <3>1 DEF SumFacts
  <2>6. h \in Nat /\ y \in Nat
    <3>1. (GroupOf(m, p, b) \in SUBSET PaidIn(m, p))'
      BY DEF GroupOf
    <3>2. QED
      BY <1>3, <2>1, <3>1 DEF SumFacts
  <2>7. a.gross <= h /\ a.fees <= y
    BY <2>2, <2>3, <2>4, <2>5, <2>6
  <2>8. QED
    BY <1>4, <2>1, <2>4, <2>7 DEF Kept
<1>5. CASE k = "reconciliation"
  <2>1. PICK c, d : /\ c = Cardinality(PaidIn(m, p) \cap payments)
                    /\ d = Cardinality(PaidIn(m, p) \cap payments)'
    OBVIOUS
  <2>2. a.matched \in Nat
    BY <1>5 DEF RowType, Reconciliation
  <2>3. c \in Nat
    <3>1. IsFiniteSet(PaidIn(m, p) \cap payments)
      BY <1>2, FS_Subset DEF PaidFacts
    <3>2. QED
      BY <2>1, <3>1, FS_CardinalityType
  <2>4. d \in Nat
    <3>1. PICK T : T = (PaidIn(m, p) \cap payments)'
      OBVIOUS
    <3>2. IsFiniteSet(T)
      BY <1>3, <3>1, FS_Subset DEF PaidFacts
    <3>3. QED
      BY <2>1, <3>1, <3>2, FS_CardinalityType
  <2>5. a.matched <= c /\ c <= d /\ a.unmatched \subseteq PaidIn(m, p)'
    BY <1>1, <1>5, <2>1 DEF Kept, RowsGrow
  <2>6. a.matched <= d
    BY <2>2, <2>3, <2>4, <2>5
  <2>7. QED
    BY <1>5, <2>1, <2>5, <2>6 DEF Kept
<1>6. CASE k = "export"
  <2>1. PICK o, x, y : o = a.order /\ x = RefundSum(o) /\ y = RefundSum(o)'
    OBVIOUS
  <2>2. a.refund \in Nat
    BY <1>6 DEF RowType, ExportRow
  <2>3. x \in Nat /\ y \in Nat
    BY <1>2, <1>3, <2>1 DEF RefundFacts
  <2>4. o \in PaidIn(m, p) /\ o \in PaidIn(m, p)' /\ a.refund <= x
    BY <1>1, <1>6, <2>1 DEF Kept, RowsGrow
  <2>5. o \in Orders /\ orders[o] # Nil /\ orders[o].paidAt # Nil
    BY <2>4 DEF PaidIn
  <2>6. /\ x <= y
        /\ orders'[o].asset = orders[o].asset /\ orders'[o].amount = orders[o].amount
        /\ orders'[o].paidAt = orders[o].paidAt
    BY <1>1, <2>1, <2>5 DEF RowsGrow, TablesGrow
  <2>7. a.refund <= y
    BY <2>2, <2>3, <2>4, <2>6
  <2>8. QED
    BY <1>6, <2>1, <2>4, <2>6, <2>7 DEF Kept
<1>7. QED
  BY <1>4, <1>5, <1>6 DEF Kinds

-----------------------------------------------------------------------------
(***************************************************************************)
(* The requests                                                            *)
(***************************************************************************)

(* The inductive invariant.                                                *)
AInv == TablesOK /\ ReportsOK /\ AnswersKept

(* A step of report r leaves the others alone.                             *)
ReportRecord(x) ==
  x = [kind |-> x.kind, pc |-> x.pc, merchant |-> x.merchant, period |-> x.period,
       answer |-> x.answer, todo |-> x.todo]
(* Rows are recorded under the report that writes them, so that the rows   *)
(* of every other report are the same.                                     *)
LEMMA OneReport ==
  ASSUME ReportsOK, NEW r \in Reports, NEW new, ReportRecord(new),
         report' = [report EXCEPT ![r] = new],
         NEW S \in SUBSET [report : {r}, row : SettlementRow], settlements' = settlements \cup S,
         NEW T \in SUBSET [report : {r}, row : Reconciliation], runs' = runs \cup T,
         Unanswered(r)' \/ Answered(r)'
  PROVE  ReportsOK'
<1>1. /\ DOMAIN report' = Reports /\ report'[r] = new
      /\ \A q \in Reports \ {r} : report'[q] = report[q]
  BY DEF ReportsOK
<1>2. /\ settlements' \subseteq [report : Reports, row : SettlementRow]
      /\ runs' \subseteq [report : Reports, row : Reconciliation]
  BY DEF ReportsOK
<1>3. ASSUME NEW q \in Reports, q # r PROVE RowsOf(q)' = RowsOf(q)
  <2>1. \A x \in S \cup T : x.report = r
    OBVIOUS
  <2>2. {y \in settlements' \cup runs' : y.report = q} = {y \in settlements \cup runs : y.report = q}
    BY <1>3, <2>1
  <2>3. QED
    BY <2>2, Zenon DEF RowsOf
<1>4. ASSUME NEW q \in Reports
      PROVE  ReportRecord(report'[q]) /\ (Unanswered(q) \/ Answered(q))'
  <2>1. CASE q = r
    BY <1>1, <2>1
  <2>2. CASE q # r
    <3>1. report'[q] = report[q] /\ RowsOf(q)' = RowsOf(q)
      BY <1>1, <1>3, <2>2
    <3>2. ReportRecord(report[q]) /\ (Unanswered(q) \/ Answered(q))
      BY DEF ReportsOK, ReportRecord
    <3>3. Unanswered(q) => Unanswered(q)'
      BY <3>1 DEF Unanswered
    <3>4. Answered(q) => Answered(q)'
      BY <3>1 DEF Answered
    <3>5. QED
      BY <3>1, <3>2, <3>3, <3>4
  <2>3. QED
    BY <2>1, <2>2
<1>5. QED
  BY <1>1, <1>2, <1>4 DEF ReportsOK, ReportRecord

(* The answers of a step that leaves the tables alone or adds to them.     *)
LEMMA KeepAnswers ==
  ASSUME AInv, TableStep,
         \A r \in Reports : report'[r].answer # {} =>
           \/ /\ report'[r].kind = report[r].kind /\ report'[r].answer = report[r].answer
              /\ report'[r].merchant = report[r].merchant
              /\ report'[r].period = report[r].period
           \/ /\ report'[r].kind \in Kinds
              /\ \A a \in report'[r].answer :
                   /\ a \in RowType(report'[r].kind)
                   /\ Kept(report'[r].kind, report'[r].merchant, report'[r].period, a)
  PROVE  AnswersKept'
<1>1. SUFFICES ASSUME NEW r \in Reports, NEW a \in report'[r].answer
               PROVE  Kept(report[r].kind, report[r].merchant, report[r].period, a)'
  BY DEF AnswersKept
<1>2. PICK k, m, p : k = report'[r].kind /\ m = report'[r].merchant /\ p = report'[r].period
  OBVIOUS
<1>3. k \in Kinds /\ a \in RowType(k) /\ Kept(k, m, p, a)
  <2>1. CASE /\ report'[r].kind = report[r].kind /\ report'[r].answer = report[r].answer
             /\ report'[r].merchant = report[r].merchant /\ report'[r].period = report[r].period
    <3>1. Answered(r)
      BY <1>1, <2>1 DEF AInv, ReportsOK, Unanswered
    <3>2. k \in Kinds /\ a \in RowType(k)
      BY <1>1, <1>2, <2>1, <3>1 DEF Answered
    <3>3. Kept(k, m, p, a)
      BY <1>1, <1>2, <2>1 DEF AInv, AnswersKept
    <3>4. QED
      BY <3>2, <3>3
  <2>2. QED
    BY <1>1, <1>2, <2>1
<1>4. Kept(k, m, p, a)'
  BY <1>3, StaysKept DEF AInv
<1>5. QED
  BY <1>2, <1>4

(* The tables while a report is written.                                   *)
LEMMA TablesStay ==
  ASSUME TablesOK, UNCHANGED tables
  PROVE  TableStep
<1>1. /\ UNCHANGED << orders, refunds >> /\ merchants' \subseteq Merchants
      /\ payments \subseteq payments' /\ payments' \subseteq Orders
  BY DEF TablesOK, tables
<1>2. QED
  BY <1>1, OtherTableStep

(* The query: the answer is one of the three results.                      *)
LEMMA QueriedStep ==
  ASSUME AInv, NEW r \in Reports, NEW k \in Kinds, NEW m \in Merchants, NEW p \in Periods,
         NEW answer, NEW todo, report[r].pc = "idle",
         UNCHANGED << tables, settlements, runs >>, Queried(r, k, m, p, answer, todo),
         todo \subseteq answer, k # "export" => todo = answer,
         \A a \in answer : a \in RowType(k) /\ Kept(k, m, p, a)
  PROVE  AInv'
<1>1. PICK new : new = [kind |-> k, pc |-> IF todo = {} THEN "done" ELSE "persist",
                        merchant |-> m, period |-> p, answer |-> answer, todo |-> todo]
  OBVIOUS
<1>2. report' = [report EXCEPT ![r] = new]
  BY <1>1 DEF Queried
<1>3. ReportRecord(new) /\ new.kind = k /\ new.merchant = m /\ new.period = p
      /\ new.answer = answer /\ new.todo = todo
      /\ new.pc = IF todo = {} THEN "done" ELSE "persist"
  BY <1>1 DEF ReportRecord
<1>4. /\ report'[r] = new
      /\ \A q \in Reports \ {r} : report'[q] = report[q]
  BY <1>2 DEF AInv, ReportsOK
<1>5. TableStep
  BY TablesStay DEF AInv
<1>6. RowsOf(r)' = {}
  <2>1. Unanswered(r)
    BY DEF AInv, ReportsOK, Answered
  <2>2. RowsOf(r)' = RowsOf(r)
    BY DEF RowsOf
  <2>3. QED
    BY <2>1, <2>2 DEF Unanswered
<1>7. Answered(r)'
  BY <1>3, <1>4, <1>6 DEF Answered
<1>8. ReportsOK'
  <2>1. settlements' = settlements \cup {} /\ runs' = runs \cup {} /\ ReportsOK
    BY DEF AInv
  <2>2. QED
    BY <1>2, <1>3, <1>7, <2>1, OneReport
<1>9. AnswersKept'
  <2>1. ASSUME NEW q \in Reports
        PROVE  \/ /\ report'[q].kind = report[q].kind /\ report'[q].answer = report[q].answer
                  /\ report'[q].merchant = report[q].merchant
                  /\ report'[q].period = report[q].period
               \/ /\ report'[q].kind \in Kinds
                  /\ \A a \in report'[q].answer :
                       /\ a \in RowType(report'[q].kind)
                       /\ Kept(report'[q].kind, report'[q].merchant, report'[q].period, a)
    <3>1. CASE q = r
      BY <1>3, <1>4, <3>1
    <3>2. CASE q # r
      BY <1>4, <3>2
    <3>3. QED
      BY <3>1, <3>2
  <2>2. QED
    BY <1>5, <2>1, KeepAnswers
<1>10. QED
  BY <1>5, <1>8, <1>9 DEF AInv, TableStep

(* A refused or failed request has answered nothing.                       *)
LEMMA RejectStep ==
  ASSUME AInv, NEW r \in Reports, Reject(r)
  PROVE  AInv'
<1>1. /\ report[r].pc = "idle" /\ UNCHANGED << tables, settlements, runs >>
      /\ report' = [report EXCEPT ![r].pc = "error"]
  BY DEF Reject
<1>2. PICK new : new = [report[r] EXCEPT !.pc = "error"]
  OBVIOUS
<1>3. report' = [report EXCEPT ![r] = new]
  BY <1>1, <1>2
<1>4. Unanswered(r) /\ ReportRecord(report[r])
  BY <1>1 DEF AInv, ReportsOK, Answered, ReportRecord
<1>5. /\ ReportRecord(new) /\ new.pc = "error" /\ new.kind = report[r].kind
      /\ new.merchant = report[r].merchant /\ new.period = report[r].period
      /\ new.answer = report[r].answer /\ new.todo = report[r].todo
  BY <1>2, <1>4 DEF ReportRecord
<1>6. /\ report'[r] = new
      /\ \A q \in Reports \ {r} : report'[q] = report[q]
  BY <1>3 DEF AInv, ReportsOK
<1>7. RowsOf(r)' = RowsOf(r)
  BY <1>1 DEF RowsOf
<1>8. Unanswered(r)'
  BY <1>4, <1>5, <1>6, <1>7 DEF Unanswered
<1>9. ReportsOK'
  <2>1. settlements' = settlements \cup {} /\ runs' = runs \cup {} /\ ReportsOK
    BY <1>1 DEF AInv
  <2>2. QED
    BY <1>3, <1>5, <1>8, <2>1, OneReport
<1>10. TableStep
  BY <1>1, TablesStay DEF AInv
<1>11. AnswersKept'
  <2>1. \A q \in Reports :
          /\ report'[q].kind = report[q].kind /\ report'[q].answer = report[q].answer
          /\ report'[q].merchant = report[q].merchant /\ report'[q].period = report[q].period
    BY <1>5, <1>6
  <2>2. QED
    BY <1>10, <2>1, KeepAnswers
<1>12. QED
  BY <1>9, <1>10, <1>11 DEF AInv, TableStep

(* One row of the answer is inserted, as S or as T.                        *)
LEMMA PersistedStep ==
  ASSUME AInv, NEW r \in Reports, NEW row \in report[r].todo,
         report[r].pc = "persist", report[r].kind # "export",
         UNCHANGED tables, Persisted(r, row),
         NEW S \in SUBSET [report : {r}, row : SettlementRow], settlements' = settlements \cup S,
         NEW T \in SUBSET [report : {r}, row : Reconciliation], runs' = runs \cup T,
         {x.row : x \in S \cup T} = {row}
  PROVE  AInv'
<1>1. PICK new : new = [report[r] EXCEPT !.todo = report[r].todo \ {row},
                                         !.pc = IF report[r].todo = {row} THEN "done"
                                                ELSE report[r].pc]
  OBVIOUS
<1>2. report' = [report EXCEPT ![r] = new]
  BY <1>1 DEF Persisted
<1>3. Answered(r) /\ ReportRecord(report[r])
  BY DEF AInv, ReportsOK, Unanswered, ReportRecord
<1>4. /\ ReportRecord(new) /\ new.kind = report[r].kind
      /\ new.merchant = report[r].merchant /\ new.period = report[r].period
      /\ new.answer = report[r].answer /\ new.todo = report[r].todo \ {row}
      /\ new.pc = IF report[r].todo = {row} THEN "done" ELSE "persist"
  BY <1>1, <1>3 DEF ReportRecord
<1>5. /\ report'[r] = new
      /\ \A q \in Reports \ {r} : report'[q] = report[q]
  BY <1>2 DEF AInv, ReportsOK
<1>6. RowsOf(r)' = RowsOf(r) \cup {row}
  <2>1. {y \in settlements' \cup runs' : y.report = r} =
          {y \in settlements \cup runs : y.report = r} \cup (S \cup T)
    OBVIOUS
  <2>2. PICK A, B : A = {y \in settlements \cup runs : y.report = r} /\ B = S \cup T
    OBVIOUS
  <2>3. RowsOf(r) = {x.row : x \in A} /\ RowsOf(r)' = {x.row : x \in A \cup B}
    BY <2>1, <2>2, Zenon DEF RowsOf
  <2>4. {x.row : x \in A \cup B} = {x.row : x \in A} \cup {x.row : x \in B}
    OBVIOUS
  <2>5. QED
    BY <2>2, <2>3, <2>4
<1>7. report[r].todo = {row} <=> new.todo = {}
  BY <1>4
<1>8. new.pc = IF new.todo = {} THEN "done" ELSE "persist"
  BY <1>4, <1>7
<1>9. Answered(r)'
  <2>1. RowsOf(r)' \subseteq new.answer /\ new.answer \subseteq RowsOf(r)' \cup new.todo
    BY <1>3, <1>4, <1>6 DEF Answered
  <2>2. QED
    BY <1>3, <1>4, <1>5, <1>8, <2>1 DEF Answered
<1>10. ReportsOK'
  BY <1>2, <1>4, <1>9, OneReport DEF AInv
<1>11. TableStep
  BY TablesStay DEF AInv
<1>12. AnswersKept'
  <2>1. \A q \in Reports :
          /\ report'[q].kind = report[q].kind /\ report'[q].answer = report[q].answer
          /\ report'[q].merchant = report[q].merchant /\ report'[q].period = report[q].period
    BY <1>4, <1>5
  <2>2. QED
    BY <1>11, <2>1, KeepAnswers
<1>13. QED
  BY <1>10, <1>11, <1>12 DEF AInv, TableStep

(* A settlement answers with the rows it will have to write.               *)
LEMMA SettlementStep ==
  ASSUME AInv, NEW r \in Reports, NEW m \in Merchants, NEW p \in Periods,
         Settlement(r, m, p)
  PROVE  AInv'
<1>1. PICK e \in Exps : Queried(r, "settlement", m, p, SettlementRows(m, p, e),
                                                       SettlementRows(m, p, e))
  BY DEF Settlement
<1>2. report[r].pc = "idle" /\ UNCHANGED << tables, settlements, runs >>
  BY DEF Settlement
<1>3. e \in Int
  BY AccountingAssumption
<1>4. QueryFacts /\ RowFacts /\ SumFacts
  BY QueryResults, RowsTyped, SumsOfRows DEF AInv
<1>5. PICK R : R = SettlementRows(m, p, e)
  OBVIOUS
<1>6. ASSUME NEW x \in R PROVE x \in RowType("settlement") /\ Kept("settlement", m, p, x)
  <2>1. R = {SettledAt(m, p, a) : a \in AssetsPaidIn(m, p)}
    BY <1>3, <1>4, <1>5 DEF QueryFacts
  <2>2. PICK a \in AssetsPaidIn(m, p) : x = SettledAt(m, p, a)
    BY <2>1
  <2>3. x \in SettlementRow
    BY <1>4, <2>2 DEF RowFacts
  <2>4. x.asset = a /\ x.gross = GrossOf(GroupOf(m, p, a)) /\ x.fees = FeesOf(GroupOf(m, p, a))
    BY <2>2 DEF SettledAt, SettledRow
  <2>5. x.gross \in Nat /\ x.fees \in Nat
    BY <2>3 DEF SettlementRow
  <2>6. x.gross <= x.gross /\ x.fees <= x.fees
    BY <2>5
  <2>7. Kept("settlement", m, p, x)
    BY <2>4, <2>6 DEF Kept
  <2>8. QED
    BY <2>3, <2>7 DEF RowType
<1>7. "settlement" \in Kinds
  BY DEF Kinds
<1>8. QED
  BY <1>1, <1>2, <1>5, <1>6, <1>7, QueriedStep

(* So does a reconciliation, with its one result.                          *)
LEMMA ReconcileStep ==
  ASSUME AInv, NEW r \in Reports, NEW m \in Merchants, NEW p \in Periods,
         Reconcile(r, m, p)
  PROVE  AInv'
<1>1. PICK e \in Exps : Queried(r, "reconciliation", m, p, {ReconciliationOf(m, p, e)},
                                                           {ReconciliationOf(m, p, e)})
  BY DEF Reconcile
<1>2. report[r].pc = "idle" /\ UNCHANGED << tables, settlements, runs >>
  BY DEF Reconcile
<1>3. e \in Int
  BY AccountingAssumption
<1>4. QueryFacts /\ RowFacts /\ PaidFacts
  BY QueryResults, RowsTyped, PaidRows DEF AInv
<1>5. PICK x : x = ReconciliationOf(m, p, e)
  OBVIOUS
<1>6. x \in RowType("reconciliation") /\ Kept("reconciliation", m, p, x)
  <2>1. x = ReconciledAt(m, p)
    BY <1>3, <1>4, <1>5 DEF QueryFacts
  <2>2. x \in Reconciliation
    BY <1>4, <2>1 DEF RowFacts
  <2>3. /\ x.matched = Cardinality(PaidIn(m, p) \cap payments)
        /\ x.unmatched = PaidIn(m, p) \ payments
    BY <2>1 DEF ReconciledAt
  <2>4. x.matched \in Nat
    BY <2>2 DEF Reconciliation
  <2>5. x.matched <= x.matched /\ x.unmatched \subseteq PaidIn(m, p)
    BY <2>3, <2>4
  <2>6. Kept("reconciliation", m, p, x)
    BY <2>3, <2>5 DEF Kept
  <2>7. QED
    BY <2>2, <2>6 DEF RowType
<1>7. "reconciliation" \in Kinds
  BY DEF Kinds
<1>8. PICK R : R = {x}
  OBVIOUS
<1>9. Queried(r, "reconciliation", m, p, R, R)
  BY <1>1, <1>5, <1>8
<1>10. QED
  BY <1>2, <1>6, <1>7, <1>8, <1>9, QueriedStep

(* An export answers without writing anything.                             *)
LEMMA ExportStep ==
  ASSUME AInv, NEW r \in Reports, NEW m \in Merchants, NEW p \in Periods,
         Export(r, m, p)
  PROVE  AInv'
<1>1. PICK e \in Exps : Queried(r, "export", m, p, ExportRows(m, p, e), {})
  BY DEF Export
<1>2. report[r].pc = "idle" /\ UNCHANGED << tables, settlements, runs >>
  BY DEF Export
<1>3. e \in Int
  BY AccountingAssumption
<1>4. QueryFacts /\ RowFacts /\ RefundFacts
  BY QueryResults, RowsTyped, RefundRows DEF AInv
<1>5. PICK R, E : R = ExportRows(m, p, e) /\ E = {}
  OBVIOUS
<1>6. ASSUME NEW x \in R PROVE x \in RowType("export") /\ Kept("export", m, p, x)
  <2>1. R = {ExportedAt(o) : o \in PaidIn(m, p)}
    BY <1>3, <1>4, <1>5 DEF QueryFacts
  <2>2. PICK o \in PaidIn(m, p) : x = ExportedAt(o)
    BY <2>1
  <2>3. x \in ExportRow
    BY <1>4, <2>2 DEF RowFacts
  <2>4. /\ x.order = o /\ x.asset = orders[o].asset /\ x.amount = orders[o].amount
        /\ x.paidAt = orders[o].paidAt /\ x.refund = RefundSum(o)
    BY <2>2 DEF ExportedAt
  <2>5. x.refund \in Nat
    BY <2>3 DEF ExportRow
  <2>6. x.refund <= x.refund
    BY <2>5
  <2>7. Kept("export", m, p, x)
    BY <2>4, <2>6 DEF Kept
  <2>8. QED
    BY <2>3, <2>7 DEF RowType
<1>7. "export" \in Kinds
  BY DEF Kinds
<1>8. Queried(r, "export", m, p, R, E) /\ E \subseteq R
  BY <1>1, <1>5
<1>9. QED
  BY <1>2, <1>6, <1>7, <1>8, QueriedStep

(* What is inserted is the row that was answered: the columns hold the     *)
(* amounts.                                                                *)
LEMMA PersistStep ==
  ASSUME AInv, NEW r \in Reports, PersistSettlement(r) \/ PersistReconciliation(r)
  PROVE  AInv'
<1>1. Answered(r) /\ report[r].pc = "persist"
  BY DEF AInv, ReportsOK, Unanswered, PersistSettlement, PersistReconciliation
<1>2. CASE PersistSettlement(r)
  <2>1. PICK row \in report[r].todo :
          /\ settlements' = settlements \cup {[report |-> r, row |-> Stored(row)]}
          /\ Persisted(r, row)
    BY <1>2 DEF PersistSettlement
  <2>2. report[r].kind = "settlement" /\ UNCHANGED << tables, runs >>
    BY <1>2 DEF PersistSettlement
  <2>3. row \in SettlementRow
    BY <1>1, <2>2 DEF Answered, RowType
  <2>4. Stored(row) = row
    <3>1. row.gross \in Nat /\ row.fees \in Nat /\ row.net \in Nat
      BY <2>3 DEF SettlementRow
    <3>2. /\ Column(AmountToNumeric(row.gross)) = row.gross
          /\ Column(AmountToNumeric(row.fees)) = row.fees
          /\ Column(AmountToNumeric(row.net)) = row.net
      BY <3>1, ColumnExact
    <3>3. QED
      BY <2>3, <3>2 DEF Stored, SettlementRow
  <2>5. PICK S, T : S = {[report |-> r, row |-> row]} /\ T = {}
    OBVIOUS
  <2>6. /\ S \in SUBSET [report : {r}, row : SettlementRow]
        /\ T \in SUBSET [report : {r}, row : Reconciliation]
        /\ {x.row : x \in S \cup T} = {row}
    BY <2>3, <2>5
  <2>7. settlements' = settlements \cup S /\ runs' = runs \cup T
    BY <2>1, <2>2, <2>4, <2>5
  <2>8. QED
    BY <1>1, <2>1, <2>2, <2>6, <2>7, PersistedStep
<1>3. CASE PersistReconciliation(r)
  <2>1. PICK rec \in report[r].todo :
          /\ runs' = runs \cup {[report |-> r, row |->
               [rec EXCEPT !.discrepancy = Column(AmountToNumeric(rec.discrepancy))]]}
          /\ Persisted(r, rec)
    BY <1>3 DEF PersistReconciliation
  <2>2. report[r].kind = "reconciliation" /\ UNCHANGED << tables, settlements >>
    BY <1>3 DEF PersistReconciliation
  <2>3. rec \in Reconciliation
    BY <1>1, <2>2 DEF Answered, RowType
  <2>4. [rec EXCEPT !.discrepancy = Column(AmountToNumeric(rec.discrepancy))] = rec
    <3>1. rec.discrepancy \in Nat
      BY <2>3 DEF Reconciliation
    <3>2. Column(AmountToNumeric(rec.discrepancy)) = rec.discrepancy
      BY <3>1, ColumnExact
    <3>3. QED
      BY <2>3, <3>2 DEF Reconciliation
  <2>5. PICK S, T : S = {} /\ T = {[report |-> r, row |-> rec]}
    OBVIOUS
  <2>6. /\ S \in SUBSET [report : {r}, row : SettlementRow]
        /\ T \in SUBSET [report : {r}, row : Reconciliation]
        /\ {x.row : x \in S \cup T} = {rec}
    BY <2>3, <2>5
  <2>7. settlements' = settlements \cup S /\ runs' = runs \cup T
    BY <2>1, <2>2, <2>4, <2>5
  <2>8. QED
    BY <1>1, <2>1, <2>2, <2>6, <2>7, PersistedStep
<1>4. QED
  BY <1>2, <1>3

-----------------------------------------------------------------------------
(***************************************************************************)
(* The invariant                                                           *)
(***************************************************************************)

(* Empty tables and idle reports satisfy it.                               *)
LEMMA InitInv == Init => AInv
<1> SUFFICES ASSUME Init PROVE AInv
  OBVIOUS
<1>1. TablesOK
  BY DEF Init, TablesOK
<1>2. \A r \in Reports : report[r] = Idle
  BY DEF Init
<1>3. ASSUME NEW r \in Reports PROVE Unanswered(r) /\ ReportRecord(report[r])
  <2>1. RowsOf(r) = {}
    BY DEF Init, RowsOf
  <2>2. QED
    BY <1>2, <2>1 DEF Unanswered, Idle, ReportRecord
<1>4. ReportsOK
  BY <1>3 DEF Init, ReportsOK, ReportRecord
<1>5. AnswersKept
  BY <1>3 DEF AnswersKept, Unanswered
<1>6. QED
  BY <1>1, <1>4, <1>5 DEF AInv

(* Every step preserves it.                                                *)
LEMMA NextInv == AInv /\ [Next]_vars => AInv'
<1> SUFFICES ASSUME AInv, [Next]_vars PROVE AInv'
  OBVIOUS
<1>1. ASSUME TableStep, UNCHANGED << settlements, runs, report >>
      PROVE  AInv'
  <2>1. \A r \in Reports : RowsOf(r)' = RowsOf(r) /\ report'[r] = report[r]
    BY <1>1 DEF RowsOf
  <2>2. \A r \in Reports : Unanswered(r) => Unanswered(r)'
    BY <2>1 DEF Unanswered
  <2>3. \A r \in Reports : Answered(r) => Answered(r)'
    BY <2>1 DEF Answered
  <2>4. ReportsOK'
    BY <1>1, <2>1, <2>2, <2>3 DEF AInv, ReportsOK
  <2>5. AnswersKept'
    BY <1>1, <2>1, KeepAnswers
  <2>6. QED
    BY <1>1, <2>4, <2>5 DEF AInv, TableStep
<1>2. CASE UNCHANGED vars
  <2>1. UNCHANGED tables /\ UNCHANGED << settlements, runs, report >>
    BY <1>2 DEF vars, tables
  <2>2. TableStep
    BY <2>1, TablesStay DEF AInv
  <2>3. QED
    BY <1>1, <2>1, <2>2
<1>3. CASE \/ \E m \in Merchants : Provision(m)
           \/ \E o \in Orders :
                \/ \E m \in Merchants, i \in Inputs : CreateOrder(o, m, i)
                \/ \E t \in Times : MatchMerchantOrder(o, t)
                \/ ProjectPaymentReceived(o)
           \/ \E f \in Refunds :
                \/ \E o \in Orders, a \in RefundAmounts : RefundSend(f, o, a)
                \/ InsertRefund(f)
                \/ MarkRefunded(f)
  BY <1>1, <1>3, WritersStep DEF AInv
<1>4. ASSUME NEW r \in Reports, Reject(r) PROVE AInv'
  BY <1>4, RejectStep
<1>5. ASSUME NEW r \in Reports, NEW m \in Merchants, NEW p \in Periods,
             Settlement(r, m, p) \/ Reconcile(r, m, p) \/ Export(r, m, p)
      PROVE  AInv'
  BY <1>5, SettlementStep, ReconcileStep, ExportStep
<1>6. ASSUME NEW r \in Reports, PersistSettlement(r) \/ PersistReconciliation(r)
      PROVE  AInv'
  BY <1>6, PersistStep
<1>7. QED
  BY <1>2, <1>3, <1>4, <1>5, <1>6 DEF Next

(* The books' invariant holds in every reachable state, for any number of  *)
(* merchants, orders, refunds and reports, any amounts, instants and       *)
(* exponents.                                                              *)
THEOREM AccountingInvariant == Spec => []AInv
<1>1. QED
  BY InitInv, NextInv, PTL DEF Spec

(* Type correctness: rows of the types of the tables, and answers of the   *)
(* type of their query.                                                    *)
THEOREM AccountingTypeCorrect == Spec => []TypeOK
<1>1. AInv => TypeOK
  <2> SUFFICES ASSUME AInv PROVE TypeOK
    OBVIOUS
  <2>1. TablesOK /\ ReportsOK
    BY DEF AInv
  <2>2. /\ merchants \subseteq Merchants /\ payments \subseteq Orders
        /\ \A o \in Orders : orders[o] = Nil \/ orders[o] \in Order
        /\ \A f \in Refunds : refunds[f] = Nil \/ refunds[f] \in Refund
    BY <2>1 DEF TablesOK
  <2>3. /\ \A x \in settlements : x.report \in Reports /\ x.row \in SettlementRow
        /\ \A x \in runs : x.report \in Reports /\ x.row \in Reconciliation
    BY <2>1 DEF ReportsOK
  <2>4. ASSUME NEW r \in Reports
        PROVE  /\ report[r].pc \in {"idle", "persist", "done", "error"}
               /\ report[r].merchant \in Merchants \cup {Nil}
               /\ report[r].period \in Periods \cup {Nil}
               /\ report[r].todo \subseteq report[r].answer
               /\ \A a \in report[r].answer :
                    CASE report[r].kind = "settlement"     -> a \in SettlementRow
                      [] report[r].kind = "reconciliation" -> a \in Reconciliation
                      [] report[r].kind = "export"         -> a \in ExportRow
    <3>1. Unanswered(r) \/ Answered(r)
      BY <2>1 DEF ReportsOK
    <3>2. CASE Unanswered(r)
      BY <3>2 DEF Unanswered
    <3>3. CASE Answered(r)
      <4>1. /\ report[r].pc \in {"persist", "done"} /\ report[r].kind \in Kinds
            /\ report[r].merchant \in Merchants /\ report[r].period \in Periods
            /\ report[r].todo \subseteq report[r].answer
            /\ report[r].answer \subseteq RowType(report[r].kind)
        BY <3>3 DEF Answered
      <4>2. QED
        BY <4>1 DEF Kinds, RowType
    <3>4. QED
      BY <3>1, <3>2, <3>3
  <2>5. QED
    BY <2>2, <2>3, <2>4 DEF TypeOK
<1>2. QED
  BY <1>1, AccountingInvariant, PTL

(* Settlement and Reconciliation insert their rows one by one, outside any *)
(* transaction: a report that has been answered is on record as it was     *)
(* answered, and one that stopped half way has recorded only rows of its   *)
(* query.                                                                  *)
THEOREM AnswersAreOnRecord == Spec => []AnswersPersisted
<1>1. AInv => AnswersPersisted
  <2> SUFFICES ASSUME AInv, NEW r \in Reports
               PROVE  /\ RowsOf(r) \subseteq report[r].answer
                      /\ (report[r].pc = "done" /\ report[r].kind # "export") =>
                           RowsOf(r) = report[r].answer
    BY DEF AnswersPersisted, RowsOf
  <2>1. Unanswered(r) \/ Answered(r)
    BY DEF AInv, ReportsOK
  <2>2. CASE Unanswered(r)
    BY <2>2 DEF Unanswered
  <2>3. CASE Answered(r)
    <3>1. report[r].pc = "done" => report[r].todo = {}
      BY <2>3 DEF Answered
    <3>2. QED
      BY <2>3, <3>1 DEF Answered
  <2>4. QED
    BY <2>1, <2>2, <2>3
<1>2. QED
  BY <1>1, AccountingInvariant, PTL

(* A report stays true: what matchMerchantOrder and Refund write later     *)
(* never takes an order out of its period nor makes a settlement, a        *)
(* reconciliation or an export smaller than one already answered.          *)
THEOREM ReportsStayTrue == Spec => []PeriodOnlyGrows
<1>1. AInv => PeriodOnlyGrows
  <2> SUFFICES ASSUME AInv PROVE PeriodOnlyGrows
    OBVIOUS
  <2>1. QueryFacts /\ RowFacts /\ RefundFacts
    BY QueryResults, RowsTyped, RefundRows DEF AInv
  <2> DEFINE Goal(k, m, p, a) ==
        CASE k = "settlement" ->
               \E s \in SettlementRows(m, p, 0) :
                 s.asset = a.asset /\ s.gross >= a.gross /\ s.fees >= a.fees
          [] k = "reconciliation" ->
               LET now == ReconciliationOf(m, p, 0)
               IN  /\ now.matched >= a.matched
                   /\ a.unmatched \subseteq PaidIn(m, p)
          [] k = "export" ->
               \E x \in ExportRows(m, p, 0) :
                 /\ x.order = a.order /\ x.asset = a.asset
                 /\ x.amount = a.amount /\ x.paidAt = a.paidAt
                 /\ x.refund >= a.refund
  <2>2. ASSUME NEW k \in Kinds, NEW m, NEW p, NEW a \in RowType(k), Kept(k, m, p, a)
        PROVE  Goal(k, m, p, a)
    <3>1. CASE k = "settlement"
      <4>1. SettlementRows(m, p, 0) = {SettledAt(m, p, b) : b \in AssetsPaidIn(m, p)}
        BY <2>1 DEF QueryFacts
      <4>2. PICK s : s = SettledAt(m, p, a.asset)
        OBVIOUS
      <4>3. /\ s \in SettlementRows(m, p, 0) /\ s \in SettlementRow
        BY <2>1, <2>2, <3>1, <4>1, <4>2 DEF Kept, RowFacts
      <4>4. /\ s.asset = a.asset /\ s.gross = GrossOf(GroupOf(m, p, a.asset))
            /\ s.fees = FeesOf(GroupOf(m, p, a.asset))
        BY <4>2 DEF SettledAt, SettledRow
      <4>5. a.gross <= s.gross /\ a.fees <= s.fees
        BY <2>2, <3>1, <4>4 DEF Kept
      <4>6. a.gross \in Nat /\ a.fees \in Nat /\ s.gross \in Nat /\ s.fees \in Nat
        BY <2>2, <3>1, <4>3 DEF RowType, SettlementRow
      <4>7. s.gross >= a.gross /\ s.fees >= a.fees
        BY <4>5, <4>6
      <4>8. QED
        BY <3>1, <4>3, <4>4, <4>7
    <3>2. CASE k = "reconciliation"
      <4>1. ReconciliationOf(m, p, 0) = ReconciledAt(m, p)
        BY <2>1 DEF QueryFacts
      <4>2. PICK now : now = ReconciliationOf(m, p, 0)
        OBVIOUS
      <4>3. now.matched = Cardinality(PaidIn(m, p) \cap payments) /\ now \in Reconciliation
        BY <2>1, <4>1, <4>2 DEF ReconciledAt, RowFacts
      <4>4. a.matched <= now.matched /\ a.unmatched \subseteq PaidIn(m, p)
        BY <2>2, <3>2, <4>3 DEF Kept
      <4>5. a.matched \in Nat /\ now.matched \in Nat
        BY <2>2, <3>2, <4>3 DEF RowType, Reconciliation
      <4>6. now.matched >= a.matched
        BY <4>4, <4>5
      <4>7. QED
        BY <3>2, <4>2, <4>4, <4>6
    <3>3. CASE k = "export"
      <4>1. ExportRows(m, p, 0) = {ExportedAt(o) : o \in PaidIn(m, p)}
        BY <2>1 DEF QueryFacts
      <4>2. PICK x : x = ExportedAt(a.order)
        OBVIOUS
      <4>3. x \in ExportRows(m, p, 0)
        BY <2>2, <3>3, <4>1, <4>2 DEF Kept
      <4>4. /\ x.order = a.order /\ x.asset = a.asset /\ x.amount = a.amount
            /\ x.paidAt = a.paidAt /\ x.refund = RefundSum(a.order)
        BY <2>2, <3>3, <4>2 DEF ExportedAt, Kept
      <4>5. x.refund \in Nat /\ a.refund \in Nat /\ a.refund <= x.refund
        BY <2>1, <2>2, <3>3, <4>4 DEF RefundFacts, RowType, ExportRow, Kept
      <4>6. x.refund >= a.refund
        BY <4>5
      <4>7. QED
        BY <3>3, <4>3, <4>4, <4>6
    <3>4. QED
      BY <3>1, <3>2, <3>3 DEF Kinds
  <2>3. ASSUME NEW r \in Reports, NEW a \in report[r].answer
        PROVE  Goal(report[r].kind, report[r].merchant, report[r].period, a)
    <3>1. Answered(r)
      BY <2>3 DEF AInv, ReportsOK, Unanswered
    <3>2. PICK k, m, p : k = report[r].kind /\ m = report[r].merchant /\ p = report[r].period
      OBVIOUS
    <3>3. k \in Kinds /\ a \in RowType(k)
      BY <3>1, <3>2 DEF Answered
    <3>4. Kept(k, m, p, a)
      BY <2>3, <3>2 DEF AInv, AnswersKept
    <3> HIDE DEF Goal
    <3>5. QED
      BY <2>2, <3>2, <3>3, <3>4
  <2>4. QED
    BY <2>3 DEF PeriodOnlyGrows
<1>2. QED
  BY <1>1, AccountingInvariant, PTL

(* net = gross - fees, unless an order has been refunded more than it is   *)
(* worth: only then does Settlement's cut-off at zero bite.                *)
THEOREM NetIsGrossMinusFees == Spec => []NetAccounts
<1>1. AInv => NetAccounts
  <2> SUFFICES ASSUME AInv, NEW m \in merchants, NEW p \in Periods, NEW e \in Exps,
                      \A o \in PaidIn(m, p) : RefundSum(o) <= orders[o].amount,
                      NEW s \in SettlementRows(m, p, e)
               PROVE  s.net + s.fees = s.gross
    BY DEF NetAccounts
  <2>1. QueryFacts /\ SumFacts /\ PaidFacts
    BY QueryResults, SumsOfRows, PaidRows DEF AInv
  <2>2. e \in Int
    BY AccountingAssumption
  <2>3. PICK a \in AssetsPaidIn(m, p) : s = SettledAt(m, p, a)
    BY <2>1, <2>2 DEF QueryFacts
  <2>4. PICK S, v, w, g, f : /\ S = GroupOf(m, p, a) /\ v = amountOf /\ w = refundOf
                             /\ g = GrossOf(S) /\ f = FeesOf(S)
    OBVIOUS
  <2>5. S \in SUBSET PaidIn(m, p)
    BY <2>4 DEF GroupOf
  <2>6. /\ IsFiniteSet(S) /\ S \subseteq Orders
        /\ g = SumFunctionOnSet(v, S) /\ f = SumFunctionOnSet(w, S)
        /\ g \in Nat /\ f \in Nat
        /\ \A o \in S : v[o] \in Nat /\ w[o] \in Nat
    BY <2>1, <2>4, <2>5 DEF SumFacts
  <2>7. \A o \in S : w[o] <= v[o]
    BY <2>1, <2>4, <2>5 DEF PaidFacts, amountOf, refundOf
  <2>8. f <= g
    BY <2>6, <2>7, SumGrows
  <2>9. s.net = NetAmount(g, f) /\ s.fees = f /\ s.gross = g
    BY <2>3, <2>4 DEF SettledAt, SettledRow
  <2>10. QED
    BY <2>6, <2>8, <2>9 DEF NetAmount
<1>2. QED
  BY <1>1, AccountingInvariant, PTL

-----------------------------------------------------------------------------
(***************************************************************************)
(* The three reports against each other                                    *)
(***************************************************************************)

(* The export rows of a set of orders add up to its gross and its fees.    *)
ExportFacts ==
  \A m, p : \A S \in SUBSET PaidIn(m, p) :
    LET T == {ExportedAt(o) : o \in S}
    IN  /\ SumFunction([x \in T |-> x.amount]) = GrossOf(S)
        /\ SumFunction([x \in T |-> x.refund]) = FeesOf(S)
        /\ Cardinality(T) = Cardinality(S)
(* Different orders have different export rows: the sum over the rows is   *)
(* the sum over the orders.                                                *)
LEMMA ExportSums == TablesOK => ExportFacts
<1> SUFFICES ASSUME TablesOK, NEW m, NEW p, NEW S \in SUBSET PaidIn(m, p),
                    NEW T, T = {ExportedAt(o) : o \in S}
             PROVE  /\ SumFunction([x \in T |-> x.amount]) = GrossOf(S)
                    /\ SumFunction([x \in T |-> x.refund]) = FeesOf(S)
                    /\ Cardinality(T) = Cardinality(S)
  BY DEF ExportFacts
<1>1. SumFacts /\ PaidFacts
  BY SumsOfRows, PaidRows
<1>2. PICK b, v, w, x, y : /\ b = [o \in S |-> ExportedAt(o)]
                           /\ v = amountOf /\ w = [z \in T |-> z.amount]
                           /\ x = refundOf /\ y = [z \in T |-> z.refund]
  OBVIOUS
<1>3. /\ IsFiniteSet(S) /\ S \subseteq Orders
      /\ GrossOf(S) = SumFunctionOnSet(v, S) /\ FeesOf(S) = SumFunctionOnSet(x, S)
      /\ \A o \in S : v[o] \in Nat /\ x[o] \in Nat
  BY <1>1, <1>2 DEF SumFacts
<1>4. \A o \in S : /\ b[o].order = o /\ b[o].amount = orders[o].amount
                   /\ b[o].refund = RefundSum(o) /\ b[o] \in T
  BY <1>2 DEF ExportedAt
<1>5. \A o \in S : v[o] = w[b[o]] /\ x[o] = y[b[o]]
  <2>1. \A o \in S : orders[o] # Nil
    BY <1>1 DEF PaidFacts
  <2>2. \A o \in S : v[o] = orders[o].amount /\ x[o] = RefundSum(o)
    BY <1>2, <1>3, <2>1 DEF amountOf, refundOf
  <2>3. QED
    BY <1>2, <1>4, <2>2
<1>6. \A o, q \in S : b[o] = b[q] => o = q
  BY <1>4
<1>7. T = {b[o] : o \in S}
  BY <1>2
<1>8. SumFunctionOnSet(v, S) = SumFunctionOnSet(w, T)
  <2>1. SumFunctionOnSet(v, S) = SumFunctionOnSet(w, {b[o] : o \in S})
    BY <1>3, <1>5, <1>6, SumRenamed
  <2>2. QED
    BY <1>7, <2>1
<1>9. SumFunctionOnSet(x, S) = SumFunctionOnSet(y, T)
  <2>1. SumFunctionOnSet(x, S) = SumFunctionOnSet(y, {b[o] : o \in S})
    BY <1>3, <1>5, <1>6, SumRenamed
  <2>2. QED
    BY <1>7, <2>1
<1>10. SumFunction(w) = SumFunctionOnSet(w, T) /\ SumFunction(y) = SumFunctionOnSet(y, T)
  BY <1>2, SumOverDomain
<1>11. Cardinality(T) = Cardinality(S)
  <2>1. Cardinality({b[o] : o \in S}) = Cardinality(S)
    BY <1>3, <1>6, ImageIsFinite
  <2>2. QED
    BY <1>7, <2>1
<1>12. QED
  BY <1>2, <1>3, <1>8, <1>9, <1>10, <1>11

(* BooksAgree for the results of one merchant and period.                  *)
Agree(exported, settled, rec) ==
  /\ {s.asset : s \in settled} = {x.asset : x \in exported}
  /\ \A s \in settled :
       LET own == {x \in exported : x.asset = s.asset}
       IN  /\ s.gross = SumFunction([x \in own |-> x.amount])
           /\ s.fees = SumFunction([x \in own |-> x.refund])
  /\ rec.matched + Cardinality(rec.unmatched) = Cardinality(exported)
  /\ rec.discrepancy =
       SumFunction([x \in {y \in exported : y.order \in rec.unmatched} |-> x.amount])

(* The three reports tell the same story, although each has a query and a  *)
(* conversion of its own: each settlement row is the sum of the export     *)
(* rows of its asset, and Reconciliation splits the exported orders.       *)
THEOREM BooksAlwaysAgree == Spec => []BooksAgree
<1>1. AInv => BooksAgree
  <2> SUFFICES ASSUME AInv, NEW m \in merchants, NEW p \in Periods, NEW e \in Exps
               PROVE  Agree(ExportRows(m, p, 0), SettlementRows(m, p, e), ReconciliationOf(m, p, e))
    BY Zenon DEF BooksAgree, Agree
  <2>0. PICK exported, settled, rec : /\ exported = ExportRows(m, p, 0)
                                      /\ settled = SettlementRows(m, p, e)
                                      /\ rec = ReconciliationOf(m, p, e)
    OBVIOUS
  <2>1. QueryFacts /\ ExportFacts /\ PaidFacts
    BY QueryResults, ExportSums, PaidRows DEF AInv
  <2>2. e \in Int
    BY AccountingAssumption
  <2>3. /\ exported = {ExportedAt(o) : o \in PaidIn(m, p)}
        /\ settled = {SettledAt(m, p, a) : a \in AssetsPaidIn(m, p)}
        /\ rec = ReconciledAt(m, p)
    BY <2>0, <2>1, <2>2 DEF QueryFacts
  <2>4. \A o \in PaidIn(m, p) : ExportedAt(o).asset = AssetOf(o) /\ ExportedAt(o).order = o
    BY <2>1 DEF PaidFacts, ExportedAt
  <2>5. \A a : SettledAt(m, p, a).asset = a
    BY DEF SettledAt, SettledRow
  <2>6. {s.asset : s \in settled} = {x.asset : x \in exported}
    <3>1. {s.asset : s \in settled} = AssetsPaidIn(m, p)
      BY <2>3, <2>5
    <3>2. {x.asset : x \in exported} = {AssetOf(o) : o \in PaidIn(m, p)}
      BY <2>3, <2>4
    <3>3. QED
      BY <3>1, <3>2 DEF AssetsPaidIn
  <2>7. ASSUME NEW s \in settled, NEW own, own = {x \in exported : x.asset = s.asset}
        PROVE  /\ s.gross = SumFunction([x \in own |-> x.amount])
               /\ s.fees = SumFunction([x \in own |-> x.refund])
    <3>1. PICK a \in AssetsPaidIn(m, p) : s = SettledAt(m, p, a)
      BY <2>3
    <3>2. PICK S : S = GroupOf(m, p, a)
      OBVIOUS
    <3>3. /\ S \in SUBSET PaidIn(m, p)
          /\ \A o \in PaidIn(m, p) : o \in S <=> AssetOf(o) = a
      BY <3>2 DEF GroupOf
    <3>4. own = {ExportedAt(o) : o \in S}
      BY <2>3, <2>4, <2>5, <2>7, <3>1, <3>3
    <3>5. s.gross = GrossOf(S) /\ s.fees = FeesOf(S)
      BY <3>1, <3>2 DEF SettledAt, SettledRow
    <3>6. /\ SumFunction([x \in own |-> x.amount]) = GrossOf(S)
          /\ SumFunction([x \in own |-> x.refund]) = FeesOf(S)
      BY <2>1, <3>3, <3>4, Zenon DEF ExportFacts
    <3>7. QED
      BY <3>5, <3>6
  <2>8. PICK P, U : P = PaidIn(m, p) /\ U = P \ payments
    OBVIOUS
  <2>9. /\ rec.matched = Cardinality(P \cap payments) /\ rec.unmatched = U
        /\ rec.discrepancy = GrossOf(U)
    BY <2>3, <2>8 DEF ReconciledAt
  <2>10. rec.matched + Cardinality(rec.unmatched) = Cardinality(exported)
    <3>1. IsFiniteSet(P) /\ IsFiniteSet(P \cap payments)
      BY <2>1, <2>8, FS_Intersection DEF PaidFacts
    <3>2. Cardinality(U) = Cardinality(P) - Cardinality(P \cap payments)
      BY <2>8, <3>1, FS_Difference
    <3>3. Cardinality(P) \in Nat /\ Cardinality(P \cap payments) \in Nat
      BY <3>1, FS_CardinalityType
    <3>4. Cardinality(exported) = Cardinality(P)
      BY <2>1, <2>3, <2>8, Zenon DEF ExportFacts
    <3>5. QED
      BY <2>9, <3>2, <3>3, <3>4
  <2>11. ASSUME NEW T, T = {y \in exported : y.order \in rec.unmatched}
         PROVE  rec.discrepancy = SumFunction([x \in T |-> x.amount])
    <3>1. T = {ExportedAt(o) : o \in U} /\ U \in SUBSET PaidIn(m, p)
      BY <2>3, <2>4, <2>8, <2>9, <2>11
    <3>2. SumFunction([x \in T |-> x.amount]) = GrossOf(U)
      BY <2>1, <3>1, Zenon DEF ExportFacts
    <3>3. QED
      BY <2>9, <3>2
  <2>12. QED
    <3>1. Agree(exported, settled, rec)
      BY <2>6, <2>7, <2>10, <2>11, Zenon DEF Agree
    <3>2. QED
      BY <2>0, <3>1
<1>2. QED
  BY <1>1, AccountingInvariant, PTL

(* The rows of one settlement add up to the orders of its period.          *)
BookFacts ==
  \A m, p :
    /\ SumFunction([s \in SettlementRows(m, p, 0) |-> s.gross])
         = SumFunctionOnSet(amountOf, PaidIn(m, p))
    /\ SumFunction([s \in SettlementRows(m, p, 0) |-> s.fees])
         = SumFunctionOnSet(refundOf, PaidIn(m, p))
(* The groups of GROUP BY asset are a partition of the orders of the       *)
(* period.                                                                 *)
LEMMA BookSums == TablesOK => BookFacts
<1> SUFFICES ASSUME TablesOK, NEW m, NEW p, NEW T, T = SettlementRows(m, p, 0)
             PROVE  /\ SumFunction([s \in T |-> s.gross]) = SumFunctionOnSet(amountOf, PaidIn(m, p))
                    /\ SumFunction([s \in T |-> s.fees]) = SumFunctionOnSet(refundOf, PaidIn(m, p))
  BY DEF BookFacts
<1>1. QueryFacts /\ SumFacts /\ PaidFacts
  BY QueryResults, SumsOfRows, PaidRows
<1>2. PICK K, b, P, S : /\ K = AssetsPaidIn(m, p) /\ S = PaidIn(m, p)
                        /\ b = [a \in K |-> SettledAt(m, p, a)]
                        /\ P = [a \in K |-> GroupOf(m, p, a)]
  OBVIOUS
<1>3. PICK v, w, x, y, g, h :
        /\ v = amountOf /\ w = [s \in T |-> s.gross] /\ g = [a \in K |-> GrossOf(GroupOf(m, p, a))]
        /\ x = refundOf /\ y = [s \in T |-> s.fees] /\ h = [a \in K |-> FeesOf(GroupOf(m, p, a))]
  OBVIOUS
<1>4. IsFiniteSet(S) /\ S \subseteq Orders
  BY <1>1, <1>2 DEF SumFacts
<1>5. IsFiniteSet(K)
  <2>1. PICK c : c = [o \in S |-> AssetOf(o)]
    OBVIOUS
  <2>2. K = {c[o] : o \in S}
    BY <1>2, <2>1 DEF AssetsPaidIn
  <2>3. IsFiniteSet({c[o] : o \in S})
    BY <1>4, ImageIsFinite
  <2>4. QED
    BY <2>2, <2>3
<1>6. T = {b[a] : a \in K}
  <2>1. T = {SettledAt(m, p, a) : a \in K}
    BY <1>1, <1>2 DEF QueryFacts
  <2>2. QED
    BY <1>2, <2>1
<1>7. \A a \in K : /\ P[a] \subseteq S
                   /\ g[a] = SumFunctionOnSet(v, P[a]) /\ g[a] \in Nat
                   /\ h[a] = SumFunctionOnSet(x, P[a]) /\ h[a] \in Nat
  <2>1. \A a : GroupOf(m, p, a) \in SUBSET PaidIn(m, p)
    BY DEF GroupOf
  <2>2. QED
    BY <1>1, <1>2, <1>3, <2>1 DEF SumFacts
<1>8. \A a \in K : b[a] \in T /\ b[a].asset = a /\ g[a] = w[b[a]] /\ h[a] = y[b[a]]
  <2>1. \A a \in K : /\ b[a].asset = a /\ b[a].gross = GrossOf(GroupOf(m, p, a))
                     /\ b[a].fees = FeesOf(GroupOf(m, p, a))
    BY <1>2 DEF SettledAt, SettledRow
  <2>2. \A a \in K : b[a] \in T
    BY <1>6
  <2>3. QED
    BY <1>3, <2>1, <2>2
<1>9. \A a, c \in K : b[a] = b[c] => a = c
  BY <1>8
<1>10. Partition(P, K, S) /\ \A o \in S : v[o] \in Nat /\ x[o] \in Nat
  <2>1. \A o \in S : v[o] \in Nat /\ x[o] \in Nat
    BY <1>1, <1>3, <1>4 DEF SumFacts
  <2>2. \A o \in S : AssetOf(o) \in K /\ o \in GroupOf(m, p, AssetOf(o))
    BY <1>2 DEF AssetsPaidIn, GroupOf
  <2>3. \A a, c \in K : a # c => P[a] \cap P[c] = {}
    BY <1>2 DEF GroupOf
  <2>4. Partition(P, K, S)
    BY <1>2, <1>7, <2>2, <2>3 DEF Partition
  <2>5. QED
    BY <2>1, <2>4
<1>11. SumFunctionOnSet(g, K) = SumFunctionOnSet(v, S)
  BY <1>4, <1>5, <1>7, <1>10, SumOfParts
<1>12. SumFunctionOnSet(h, K) = SumFunctionOnSet(x, S)
  BY <1>4, <1>5, <1>7, <1>10, SumOfParts
<1>13. SumFunctionOnSet(g, K) = SumFunctionOnSet(w, {b[a] : a \in K})
  <2>1. \A a \in K : g[a] = w[b[a]] /\ g[a] \in Nat
    BY <1>7, <1>8
  <2>2. QED
    BY <1>5, <1>9, <2>1, SumRenamed
<1>14. SumFunctionOnSet(h, K) = SumFunctionOnSet(y, {b[a] : a \in K})
  <2>1. \A a \in K : h[a] = y[b[a]] /\ h[a] \in Nat
    BY <1>7, <1>8
  <2>2. QED
    BY <1>5, <1>9, <2>1, SumRenamed
<1>15. SumFunction(w) = SumFunctionOnSet(w, T) /\ SumFunction(y) = SumFunctionOnSet(y, T)
  BY <1>3, SumOverDomain
<1>16. QED
  BY <1>2, <1>3, <1>6, <1>11, <1>12, <1>13, <1>14, <1>15

(* The orders that were ever paid, one part per merchant and period; and   *)
(* the recorded refunds, one part per such order.                          *)
PaidOrders == {o \in Orders : orders[o] # Nil /\ orders[o].status # "pending"}
RecordedRefunds == {f \in Refunds : refunds[f] # Nil /\ refunds[f].pc # "sent"}
refundAmount == [f \in Refunds |-> IF refunds[f] = Nil THEN 0 ELSE refunds[f].amount]
PartFacts ==
  /\ IsFiniteSet(PaidOrders) /\ IsFiniteSet(RecordedRefunds)
  /\ \A m, p : PaidIn(m, p) \subseteq PaidOrders
  /\ \A o \in PaidOrders : \E m \in Merchants, p \in Periods : o \in PaidIn(m, p)
  /\ \A m, p, n, q : PaidIn(m, p) \cap PaidIn(n, q) # {} => m = n /\ p = q
  /\ \A o : /\ RefundsOf(o) \subseteq RecordedRefunds
            /\ RefundSum(o) = SumFunctionOnSet(refundAmount, RefundsOf(o))
  /\ \A f \in RecordedRefunds : refundAmount[f] \in Nat /\ \E o \in PaidOrders : f \in RefundsOf(o)
  /\ \A o, q : o # q => RefundsOf(o) \cap RefundsOf(q) = {}
(* An order has one merchant and one payment time, a refund one order.     *)
LEMMA Parts == TablesOK => PartFacts
<1> SUFFICES ASSUME TablesOK PROVE PartFacts
  OBVIOUS
<1>1. PaidFacts /\ RefundFacts
  BY PaidRows, RefundRows
<1>2. IsFiniteSet(PaidOrders) /\ IsFiniteSet(RecordedRefunds)
  <2>1. PaidOrders \subseteq Orders /\ RecordedRefunds \subseteq Refunds
    BY DEF PaidOrders, RecordedRefunds
  <2>2. QED
    BY <2>1, AccountingAssumption, FS_Subset
<1>3. ASSUME NEW m, NEW p PROVE PaidIn(m, p) \subseteq PaidOrders
  BY <1>1 DEF PaidFacts, PaidOrders
<1>4. ASSUME NEW o \in PaidOrders
      PROVE  \E m \in Merchants, p \in Periods : o \in PaidIn(m, p)
  <2>1. o \in Orders /\ orders[o] # Nil /\ orders[o] \in Order /\ orders[o].paidAt # Nil
    BY DEF PaidOrders, TablesOK
  <2>2. orders[o].merchant \in Merchants /\ orders[o].paidAt \in Times
    BY <2>1 DEF Order
  <2>3. Month(orders[o].paidAt) \in Periods
    BY <2>2 DEF Periods
  <2>4. o \in PaidIn(orders[o].merchant, Month(orders[o].paidAt))
    BY <2>1 DEF PaidIn
  <2>5. QED
    BY <2>2, <2>3, <2>4
<1>5. ASSUME NEW m, NEW p, NEW n, NEW q, PaidIn(m, p) \cap PaidIn(n, q) # {}
      PROVE  m = n /\ p = q
  BY <1>5 DEF PaidIn
<1>6. ASSUME NEW o
      PROVE  /\ RefundsOf(o) \subseteq RecordedRefunds
             /\ RefundSum(o) = SumFunctionOnSet(refundAmount, RefundsOf(o))
  <2>1. RefundsOf(o) \subseteq RecordedRefunds
    BY DEF RefundsOf, RecordedRefunds
  <2>2. PICK S, v, w : S = RefundsOf(o) /\ v = [f \in S |-> refunds[f].amount] /\ w = refundAmount
    OBVIOUS
  <2>3. \A f \in S : f \in Refunds /\ refunds[f] # Nil
    BY <2>2 DEF RefundsOf
  <2>4. \A f \in S : v[f] = w[f]
    BY <2>2, <2>3 DEF refundAmount
  <2>5. IsFiniteSet(S)
    BY <1>1, <2>2 DEF RefundFacts
  <2>6. SumFunctionOnSet(v, S) = SumFunctionOnSet(w, S)
    BY <2>4, <2>5, SumSame
  <2>7. SumFunction(v) = SumFunctionOnSet(v, S)
    BY <2>2, SumOverDomain
  <2>8. RefundSum(o) = SumFunction(v)
    BY <2>2 DEF RefundSum
  <2>9. QED
    BY <2>1, <2>2, <2>6, <2>7, <2>8
<1>7. ASSUME NEW f \in RecordedRefunds
      PROVE  refundAmount[f] \in Nat /\ \E o \in PaidOrders : f \in RefundsOf(o)
  <2>1. f \in Refunds /\ refunds[f] # Nil /\ refunds[f] \in Refund /\ refunds[f].pc # "sent"
    BY DEF RecordedRefunds, TablesOK
  <2>2. PICK o : o = refunds[f].order
    OBVIOUS
  <2>3. o \in Orders /\ refundAmount[f] \in Nat
    BY <2>1, <2>2 DEF Refund, refundAmount
  <2>4. o \in PaidOrders
    BY <2>1, <2>2, <2>3 DEF TablesOK, PaidOrders
  <2>5. f \in RefundsOf(o)
    BY <2>1, <2>2 DEF RefundsOf
  <2>6. QED
    BY <2>3, <2>4, <2>5
<1>8. \A o, q : o # q => RefundsOf(o) \cap RefundsOf(q) = {}
  BY DEF RefundsOf
<1>9. QED
  BY <1>2, <1>3, <1>4, <1>5, <1>6, <1>7, <1>8 DEF PartFacts

(* Every order that was ever paid and every recorded refund is in exactly  *)
(* one settlement: over all merchants and months gross adds up to the paid *)
(* and refunded orders and fees to the refunds, wherever a refund request  *)
(* has stopped and whatever the session's time zone.                       *)
THEOREM EverythingCountedOnce == Spec => []CountedOnce
<1>1. AInv => CountedOnce
  <2> SUFFICES ASSUME AInv PROVE CountedOnce
    OBVIOUS
  <2>1. BookFacts /\ PartFacts /\ SumFacts
    BY BookSums, Parts, SumsOfRows DEF AInv
  <2>2. PICK B, P, v, x, g, h :
          /\ B = Merchants \X Periods /\ P = [b \in B |-> PaidIn(b[1], b[2])]
          /\ v = amountOf /\ x = refundOf
          /\ g = [b \in B |-> SumFunction([s \in SettlementRows(b[1], b[2], 0) |-> s.gross])]
          /\ h = [b \in B |-> SumFunction([s \in SettlementRows(b[1], b[2], 0) |-> s.fees])]
    OBVIOUS
  <2>3. PICK S, R, a, f : /\ S = PaidOrders /\ R = RecordedRefunds
                          /\ a = [o \in S |-> orders[o].amount]
                          /\ f = [q \in R |-> refunds[q].amount]
    OBVIOUS
  <2>4. IsFiniteSet(B)
    <3>1. PICK c : c = [t \in Times |-> Month(t)]
      OBVIOUS
    <3>2. Periods = {c[t] : t \in Times}
      BY <3>1 DEF Periods
    <3>3. IsFiniteSet({c[t] : t \in Times})
      BY AccountingAssumption, ImageIsFinite
    <3>4. IsFiniteSet(Periods)
      BY <3>2, <3>3
    <3>5. QED
      BY <2>2, <3>4, AccountingAssumption, FS_Product
  <2>5. IsFiniteSet(S) /\ IsFiniteSet(R) /\ S \subseteq Orders
    BY <2>1, <2>3 DEF PartFacts, PaidOrders
  <2>6. \A b \in B : /\ P[b] \subseteq S
                     /\ g[b] = SumFunctionOnSet(v, P[b])
                     /\ h[b] = SumFunctionOnSet(x, P[b])
    <3>1. ASSUME NEW b \in B
          PROVE  /\ P[b] \subseteq S
                 /\ g[b] = SumFunctionOnSet(v, P[b])
                 /\ h[b] = SumFunctionOnSet(x, P[b])
      <4>1. PICK m, p : m = b[1] /\ p = b[2]
        OBVIOUS
      <4>2. /\ P[b] = PaidIn(m, p)
            /\ g[b] = SumFunction([s \in SettlementRows(m, p, 0) |-> s.gross])
            /\ h[b] = SumFunction([s \in SettlementRows(m, p, 0) |-> s.fees])
        BY <2>2, <4>1
      <4>3. PaidIn(m, p) \subseteq S
        BY <2>1, <2>3 DEF PartFacts
      <4>4. /\ SumFunction([s \in SettlementRows(m, p, 0) |-> s.gross])
                 = SumFunctionOnSet(v, PaidIn(m, p))
            /\ SumFunction([s \in SettlementRows(m, p, 0) |-> s.fees])
                 = SumFunctionOnSet(x, PaidIn(m, p))
        BY <2>1, <2>2 DEF BookFacts
      <4>5. QED
        BY <4>2, <4>3, <4>4
    <3>2. QED
      BY <3>1
  <2>7. \A o \in S : v[o] \in Nat /\ x[o] \in Nat /\ \E b \in B : o \in P[b]
    <3>1. \A o \in S : v[o] \in Nat /\ x[o] \in Nat
      BY <2>1, <2>2, <2>5 DEF SumFacts
    <3>2. ASSUME NEW o \in S PROVE \E b \in B : o \in P[b]
      <4>1. PICK m \in Merchants, p \in Periods : o \in PaidIn(m, p)
        BY <2>1, <2>3 DEF PartFacts
      <4>2. << m, p >> \in B /\ P[<< m, p >>] = PaidIn(m, p)
        BY <2>2
      <4>3. QED
        BY <4>1, <4>2
    <3>3. QED
      BY <3>1, <3>2
  <2>8. \A b, c \in B : b # c => P[b] \cap P[c] = {}
    <3>1. ASSUME NEW b \in B, NEW c \in B, P[b] \cap P[c] # {} PROVE b = c
      <4>1. P[b] = PaidIn(b[1], b[2]) /\ P[c] = PaidIn(c[1], c[2])
        BY <2>2
      <4>2. b[1] = c[1] /\ b[2] = c[2]
        BY <2>1, <3>1, <4>1 DEF PartFacts
      <4>3. b = << b[1], b[2] >> /\ c = << c[1], c[2] >>
        BY <2>2
      <4>4. QED
        BY <4>2, <4>3
    <3>2. QED
      BY <3>1
  <2>8a. Partition(P, B, S)
    BY <2>6, <2>7, <2>8 DEF Partition
  <2>9. SumFunctionOnSet(g, B) = SumFunctionOnSet(v, S)
    BY <2>4, <2>5, <2>6, <2>7, <2>8a, SumOfParts
  <2>10. SumFunctionOnSet(h, B) = SumFunctionOnSet(x, S)
    BY <2>4, <2>5, <2>6, <2>7, <2>8a, SumOfParts
  <2>11. SumFunctionOnSet(v, S) = SumFunctionOnSet(a, S)
    <3>1. \A o \in S : v[o] = a[o]
      BY <2>2, <2>3, <2>5 DEF amountOf, PaidOrders
    <3>2. QED
      BY <2>5, <3>1, SumSame
  <2>12. SumFunctionOnSet(x, S) = SumFunctionOnSet(f, R)
    <3>1. PICK Q, w : Q = [o \in S |-> RefundsOf(o)] /\ w = refundAmount
      OBVIOUS
    <3>2. \A o \in S : x[o] = SumFunctionOnSet(w, Q[o])
      BY <2>1, <2>2, <2>3, <2>5, <3>1 DEF PartFacts, refundOf
    <3>3. Partition(Q, S, R) /\ \A q \in R : w[q] \in Nat
      BY <2>1, <2>3, <3>1 DEF PartFacts, Partition
    <3>5. SumFunctionOnSet(x, S) = SumFunctionOnSet(w, R)
      BY <2>5, <3>2, <3>3, SumOfParts
    <3>6. \A q \in R : w[q] = f[q]
      BY <2>3, <3>1 DEF refundAmount, RecordedRefunds
    <3>7. SumFunctionOnSet(w, R) = SumFunctionOnSet(f, R)
      BY <2>5, <3>6, SumSame
    <3>8. QED
      BY <3>5, <3>7
  <2>13. /\ SumFunction(g) = SumFunctionOnSet(g, B) /\ SumFunction(h) = SumFunctionOnSet(h, B)
         /\ SumFunction(a) = SumFunctionOnSet(a, S) /\ SumFunction(f) = SumFunctionOnSet(f, R)
    BY <2>2, <2>3, SumOverDomain
  <2>14. SumFunction(g) = SumFunction(a) /\ SumFunction(h) = SumFunction(f)
    BY <2>9, <2>10, <2>11, <2>12, <2>13
  <2>15. QED
    BY <2>2, <2>3, <2>14, Zenon DEF CountedOnce, PaidOrders, RecordedRefunds
<1>2. QED
  BY <1>1, AccountingInvariant, PTL
=============================================================================
