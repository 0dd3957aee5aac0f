----------------------------- MODULE Accounting -----------------------------
(***************************************************************************)
(* The merchant's books: per-asset settlements, the reconciliation of      *)
(* orders with indexed payments, and the accounting export, each computed  *)
(* from merchant_orders, refunds and payments by a query of its own, while *)
(* orders are created, paid and refunded.                                  *)
(*                                                                         *)
(* A report is one GET request.  Its query is one statement and sees one   *)
(* state of the tables; what it persists are further statements, outside   *)
(* any transaction.  A request that fails or whose process stops is one    *)
(* that takes no further step.  Module Merchant has the details of         *)
(* creating and refunding an order; here they matter for what they write.  *)
(***************************************************************************)
EXTENDS Amounts, FiniteSets, Functions

CONSTANTS
  Merchants,      \* merchants that may be provisioned
  Orders,         \* orders, and the payment hashes of their invoices
  Refunds,        \* refund requests, and the rows they insert
  Reports,        \* GET requests for a report
  Inputs,         \* what POST /orders may carry: [asset, amount]
  RefundAmounts,  \* amounts POST /orders/{id}/refund may carry
  Times,          \* instants at which an invoice may be settled
  MonthLength,    \* length of a month, in the unit of Times
  Zone,           \* offset of the database session's time zone
  Exps,           \* exponents a NUMERIC may come back with
  Nil             \* NULL

VARIABLES
  merchants,    \* merchants: the ids of the rows
  orders,       \* merchant_orders by id; Nil where there is no row
  refunds,      \* the refund requests; a row from "recorded" on
  payments,     \* payments: the hashes that have a row
  settlements,  \* settlements: the rows, with the report that wrote them
  runs,         \* reconciliation_runs, likewise
  report        \* the state of each report

tables == << merchants, orders, refunds, payments >>
vars   == << merchants, orders, refunds, payments, settlements, runs, report >>

(* to_char(paid_at, 'YYYY-MM'), in the session's time zone.                *)
Month(t) == (t + Zone) \div MonthLength
Periods == {Month(t) : t \in Times}

Assets == ({i.asset : i \in Inputs} \cup {"CKB"}) \ {""}

Order == [merchant : Merchants, asset : Assets, amount : Nat,
          status : {"pending", "paid", "refunded"}, paidAt : Times \cup {Nil}]

Refund == [order : Orders, amount : Nat, pc : {"sent", "recorded", "done"}]

ASSUME AccountingAssumption ==
  /\ IsFiniteSet(Merchants) /\ IsFiniteSet(Orders) /\ IsFiniteSet(Refunds)
  /\ \A i \in Inputs : i.amount \in Nat
  /\ RefundAmounts \subseteq Nat
  /\ Times \subseteq Nat /\ IsFiniteSet(Times)
  /\ MonthLength \in Nat \ {0}
  /\ Zone \in Int
  /\ Exps \subseteq Int
  /\ Nil \notin Order /\ Nil \notin Refund /\ Nil \notin Assets /\ Nil \notin Times

SettlementRow == [asset : Assets, gross : Nat, fees : Nat, net : Nat]
Reconciliation == [matched : Nat, unmatched : SUBSET Orders, discrepancy : Nat]
ExportRow == [order : Orders, asset : Assets \cup {""}, amount : Nat,
              status : {"paid", "refunded"}, paidAt : Times, refund : Nat]

(* A report: kind is Nil until its query has been answered, answer is what *)
(* the request will respond with, todo what it has still to persist before *)
(* it does.                                                                *)
TypeOK ==
  /\ merchants \subseteq Merchants
  /\ \A o \in Orders : orders[o] = Nil \/ orders[o] \in Order
  /\ \A f \in Refunds : refunds[f] = Nil \/ refunds[f] \in Refund
  /\ payments \subseteq Orders
  /\ \A x \in settlements : x.report \in Reports /\ x.row \in SettlementRow
  /\ \A x \in runs : x.report \in Reports /\ x.row \in Reconciliation
  /\ \A r \in Reports :
       /\ report[r].pc \in {"idle", "persist", "done", "error"}
       /\ report[r].merchant \in Merchants \cup {Nil}
       /\ report[r].period \in Periods \cup {Nil}
       /\ report[r].todo \subseteq report[r].answer
       /\ \A a \in report[r].answer :
            CASE report[r].kind = "settlement"     -> a \in SettlementRow
              [] report[r].kind = "reconciliation" -> a \in Reconciliation
              [] report[r].kind = "export"         -> a \in ExportRow

Idle == [kind |-> Nil, pc |-> "idle", merchant |-> Nil, period |-> Nil,
         answer |-> {}, todo |-> {}]

Init ==
  /\ merchants = {}
  /\ orders = [o \in Orders |-> Nil]
  /\ refunds = [f \in Refunds |-> Nil]
  /\ payments = {}
  /\ settlements = {}
  /\ runs = {}
  /\ report = [r \in Reports |-> Idle]

-----------------------------------------------------------------------------
(***************************************************************************)
(* Who writes the tables                                                   *)
(***************************************************************************)

(* Provision: a merchant with an API key of its own.                       *)
Provision(m) ==
  /\ m \notin merchants
  /\ merchants' = merchants \cup {m}
  /\ UNCHANGED << orders, refunds, payments, settlements, runs, report >>

(* The INSERT of CreateOrder, for the merchant the API key belongs to.  No *)
(* asset means the native one.                                             *)
CreateOrderAssetAsGiven(o, m, i) ==
  /\ m \in merchants
  /\ orders[o] = Nil
  /\ orders' = [orders EXCEPT ![o] =
       [merchant |-> m, asset |-> IF i.asset = "" THEN Nil ELSE i.asset,
        amount |-> Column(AmountToNumeric(i.amount)),
        status |-> "pending", paidAt |-> Nil]]
  /\ UNCHANGED << merchants, refunds, payments, settlements, runs, report >>
CreateOrder(o, m, i) ==
  /\ m \in merchants
  /\ orders[o] = Nil
  /\ orders' = [orders EXCEPT ![o] =
       [merchant |-> m, asset |-> IF i.asset = "" THEN "CKB" ELSE i.asset,
        amount |-> Column(AmountToNumeric(i.amount)),
        status |-> "pending", paidAt |-> Nil]]
  /\ UNCHANGED << merchants, refunds, payments, settlements, runs, report >>

(* matchMerchantOrder: invoice.paid, settled at t.  The same or another    *)
(* invoice.paid of the hash may be applied again at any time.              *)
MatchAnyStatus(o, t) ==
  /\ orders[o] # Nil
  /\ orders' = [orders EXCEPT ![o].status = "paid", ![o].paidAt = t]
  /\ UNCHANGED << merchants, refunds, payments, settlements, runs, report >>
MatchMerchantOrder(o, t) ==
  /\ orders[o] # Nil
  /\ orders[o].status = "pending"
  /\ orders' = [orders EXCEPT ![o].status = "paid", ![o].paidAt = t]
  /\ UNCHANGED << merchants, refunds, payments, settlements, runs, report >>

(* payment.received is projected, before or after invoice.paid or never.   *)
ProjectPaymentReceived(o) ==
  /\ o \notin payments
  /\ payments' = payments \cup {o}
  /\ UNCHANGED << merchants, orders, refunds, settlements, runs, report >>

(* Refund: the order is found 'paid' and the payment is sent.  The amount  *)
(* is not compared with the order's, nor with earlier refunds.  Whether    *)
(* the payments row names the payer is left open: Refund may refuse more   *)
(* than is refused here.                                                   *)
RefundSend(f, o, a) ==
  /\ refunds[f] = Nil
  /\ orders[o] # Nil
  /\ orders[o].status = "paid"
  /\ o \in payments
  /\ refunds' = [refunds EXCEPT ![f] =
       [order |-> o, amount |-> Column(AmountToNumeric(a)), pc |-> "sent"]]
  /\ UNCHANGED << merchants, orders, payments, settlements, runs, report >>

InsertRefund(f) ==
  /\ refunds[f] # Nil
  /\ refunds[f].pc = "sent"
  /\ refunds' = [refunds EXCEPT ![f].pc = "recorded"]
  /\ UNCHANGED << merchants, orders, payments, settlements, runs, report >>

MarkRefunded(f) ==
  /\ refunds[f] # Nil
  /\ refunds[f].pc = "recorded"
  /\ refunds' = [refunds EXCEPT ![f].pc = "done"]
  /\ orders' = [orders EXCEPT ![refunds[f].order].status = "refunded"]
  /\ UNCHANGED << merchants, payments, settlements, runs, report >>

-----------------------------------------------------------------------------
(***************************************************************************)
(* The three queries, reading NUMERICs with exponent e                     *)
(***************************************************************************)

(* The rows of refunds for an order.                                       *)
RefundsOf(o) ==
  {f \in Refunds : refunds[f] # Nil /\ refunds[f].order = o /\ refunds[f].pc # "sent"}
RefundSum(o) == SumFunction([f \in RefundsOf(o) |-> refunds[f].amount])

(* The WHERE clause the three of them repeat.                              *)
PaidInEveryMonth(m, p) ==
  {o \in Orders : orders[o] # Nil /\ orders[o].merchant = m /\ orders[o].paidAt # Nil}
PaidIn(m, p) ==
  {o \in Orders : /\ orders[o] # Nil
                  /\ orders[o].merchant = m
                  /\ orders[o].paidAt # Nil
                  /\ Month(orders[o].paidAt) = p}

(* Settlement: GROUP BY asset; fees are the refunds, and net is cut off at *)
(* zero.                                                                   *)
AssetOf(o) == IF orders[o].asset = Nil THEN "CKB" ELSE orders[o].asset
AssetsPaidIn(m, p) == {AssetOf(o) : o \in PaidIn(m, p)}
GroupOf(m, p, a) == {o \in PaidIn(m, p) : AssetOf(o) = a}
GrossOf(S) == SumFunction([o \in S |-> orders[o].amount])
FeesOf(S) == SumFunction([o \in S |-> RefundSum(o)])

NetAmount(gross, fees) == IF gross < fees THEN 0 ELSE gross - fees
SettledRow(a, gross, fees) ==
  [asset |-> a, gross |-> gross, fees |-> fees, net |-> NetAmount(gross, fees)]
SettlementRowsOfUnrefunded(m, p, e) ==
  {LET S == GroupOf(m, p, a)
   IN  SettledRow(a, GrossOf({o \in S : orders[o].status = "paid"}), FeesOf(S))
     : a \in AssetsPaidIn(m, p)}
SettlementRows(m, p, e) ==
  {LET S == GroupOf(m, p, a)
   IN  SettledRow(a, MustAmount(Numeric(GrossOf(S), e)), MustAmount(Numeric(FeesOf(S), e)))
     : a \in AssetsPaidIn(m, p)}

(* Reconciliation: the orders of the period without a payments row.        *)
ReconciliationOf(m, p, e) ==
  LET unmatched == PaidIn(m, p) \ payments
  IN  [matched |-> Cardinality(PaidIn(m, p) \cap payments),
       unmatched |-> unmatched,
       discrepancy |-> SumFunction(
         [o \in unmatched |-> MustAmount(Numeric(orders[o].amount, e))])]

(* exportRows: one row per order.                                          *)
ExportRows(m, p, e) ==
  {[order |-> o, asset |-> IF orders[o].asset = Nil THEN "" ELSE orders[o].asset,
    amount |-> MustAmount(Numeric(orders[o].amount, e)),
    status |-> orders[o].status, paidAt |-> orders[o].paidAt,
    refund |-> MustAmount(Numeric(RefundSum(o), e))] : o \in PaidIn(m, p)}

-----------------------------------------------------------------------------
(***************************************************************************)
(* The requests.  No statement changes or removes a merchants row, so that *)
(* authentication and query are taken together.                            *)
(***************************************************************************)

(* No valid API key, no period, an unknown format, or a query that fails.  *)
Reject(r) ==
  /\ report[r].pc = "idle"
  /\ report' = [report EXCEPT ![r].pc = "error"]
  /\ UNCHANGED << tables, settlements, runs >>

(* The query has answered with rows; todo are the ones to persist.         *)
Queried(r, kind, m, p, answer, todo) ==
  report' = [report EXCEPT ![r] =
    [kind |-> kind, pc |-> IF todo = {} THEN "done" ELSE "persist",
     merchant |-> m, period |-> p, answer |-> answer, todo |-> todo]]

Settlement(r, m, p) ==
  /\ report[r].pc = "idle"
  /\ m \in merchants
  /\ \E e \in Exps : LET rows == SettlementRows(m, p, e)
                     IN  Queried(r, "settlement", m, p, rows, rows)
  /\ UNCHANGED << tables, settlements, runs >>

Reconcile(r, m, p) ==
  /\ report[r].pc = "idle"
  /\ m \in merchants
  /\ \E e \in Exps : LET rec == ReconciliationOf(m, p, e)
                     IN  Queried(r, "reconciliation", m, p, {rec}, {rec})
  /\ UNCHANGED << tables, settlements, runs >>

Export(r, m, p) ==
  /\ report[r].pc = "idle"
  /\ m \in merchants
  /\ \E e \in Exps : Queried(r, "export", m, p, ExportRows(m, p, e), {})
  /\ UNCHANGED << tables, settlements, runs >>

(* The columns of one row, as AmountToNumeric writes them.                 *)
Stored(row) == [row EXCEPT !.gross = Column(AmountToNumeric(@)),
                           !.fees = Column(AmountToNumeric(@)),
                           !.net = Column(AmountToNumeric(@))]

Persisted(r, row) ==
  report' = [report EXCEPT ![r].todo = @ \ {row},
                           ![r].pc = IF report[r].todo = {row} THEN "done" ELSE @]

(* One INSERT of the loop over the settlement's rows.  ORDER BY asset      *)
(* follows the database's collation: any row may be next.                  *)
PersistSettlementIgnoringErrors(r) ==
  /\ report[r].pc = "persist"
  /\ report[r].kind = "settlement"
  /\ \E row \in report[r].todo :
       /\ settlements' \in {settlements, settlements \cup
                              {[report |-> r, row |-> Stored(row)]}}
       /\ Persisted(r, row)
  /\ UNCHANGED << tables, runs >>
PersistSettlement(r) ==
  /\ report[r].pc = "persist"
  /\ report[r].kind = "settlement"
  /\ \E row \in report[r].todo :
       /\ settlements' = settlements \cup {[report |-> r, row |-> Stored(row)]}
       /\ Persisted(r, row)
  /\ UNCHANGED << tables, runs >>

PersistReconciliation(r) ==
  /\ report[r].pc = "persist"
  /\ report[r].kind = "reconciliation"
  /\ \E rec \in report[r].todo :
       /\ runs' = runs \cup {[report |-> r, row |->
            [rec EXCEPT !.discrepancy = Column(AmountToNumeric(@))]]}
       /\ Persisted(r, rec)
  /\ UNCHANGED << tables, settlements >>

-----------------------------------------------------------------------------
Next ==
  \/ \E m \in Merchants : Provision(m)
  \/ \E o \in Orders :
       \/ \E m \in Merchants, i \in Inputs : CreateOrder(o, m, i)
       \/ \E t \in Times : MatchMerchantOrder(o, t)
       \/ ProjectPaymentReceived(o)
  \/ \E f \in Refunds :
       \/ \E o \in Orders, a \in RefundAmounts : RefundSend(f, o, a)
       \/ InsertRefund(f)
       \/ MarkRefunded(f)
  \/ \E r \in Reports :
       \/ Reject(r)
       \/ \E m \in Merchants, p \in Periods :
            Settlement(r, m, p) \/ Reconcile(r, m, p) \/ Export(r, m, p)
       \/ PersistSettlement(r)
       \/ PersistReconciliation(r)

Spec == Init /\ [][Next]_vars

-----------------------------------------------------------------------------
(***************************************************************************)
(* Properties                                                              *)
(***************************************************************************)

(* The three reports, taken from the same tables, tell the same story:     *)
(* each settlement row is the sum of the export rows of its asset, every   *)
(* exported order is either matched or unmatched, and the discrepancy is   *)
(* what the export shows for the unmatched ones.  Each report has a query  *)
(* and a conversion of its own.                                            *)
BooksAgree ==
  \A m \in merchants, p \in Periods, e \in Exps :
    LET exported == ExportRows(m, p, 0)
        settled  == SettlementRows(m, p, e)
        rec      == ReconciliationOf(m, p, e)
    IN  /\ {s.asset : s \in settled} = {x.asset : x \in exported}
        /\ \A s \in settled :
             LET own == {x \in exported : x.asset = s.asset}
             IN  /\ s.gross = SumFunction([x \in own |-> x.amount])
                 /\ s.fees = SumFunction([x \in own |-> x.refund])
        /\ rec.matched + Cardinality(rec.unmatched) = Cardinality(exported)
        /\ rec.discrepancy =
             SumFunction([x \in {y \in exported : y.order \in rec.unmatched} |-> x.amount])

(* Every order that was ever paid and every recorded refund is settled in  *)
(* one period of one merchant, once: over all merchants and periods gross  *)
(* adds up to the paid and refunded orders, and fees to the refunds,       *)
(* wherever a refund request has stopped and on either side of a month's   *)
(* end.  (docs/gates.md logs an order that is refunded and then settled    *)
(* with fees 0x0; here that takes a refund of zero.)                       *)
CountedOnce ==
  LET books == Merchants \X Periods
      Gross(b) == SumFunction([s \in SettlementRows(b[1], b[2], 0) |-> s.gross])
      Fees(b)  == SumFunction([s \in SettlementRows(b[1], b[2], 0) |-> s.fees])
      paid     == {o \in Orders : orders[o] # Nil /\ orders[o].status # "pending"}
      recorded == {f \in Refunds : refunds[f] # Nil /\ refunds[f].pc # "sent"}
  IN  /\ SumFunction([b \in books |-> Gross(b)]) =
           SumFunction([o \in paid |-> orders[o].amount])
      /\ SumFunction([b \in books |-> Fees(b)]) =
           SumFunction([f \in recorded |-> refunds[f].amount])

(* net = gross - fees, as Settlement's comment says, unless an order of    *)
(* that merchant has been refunded more than it is worth; then the row is  *)
(* cut off at zero.  Nothing else makes the cut-off bite.                  *)
NetAccounts ==
  \A m \in merchants, p \in Periods, e \in Exps :
    (\A o \in PaidIn(m, p) : RefundSum(o) <= orders[o].amount) =>
      \A s \in SettlementRows(m, p, e) : s.net + s.fees = s.gross

(* A report stays true: what a settlement, a reconciliation or an export   *)
(* has answered for a period is never more than the same report shows      *)
(* later.  An order does not leave its period, whatever invoice.paid is    *)
(* replayed and whatever is refunded.                                      *)
PeriodOnlyGrows ==
  \A r \in Reports : \A a \in report[r].answer :
    LET m == report[r].merchant
        p == report[r].period
    IN  CASE report[r].kind = "settlement" ->
               \E s \in SettlementRows(m, p, 0) :
                 s.asset = a.asset /\ s.gross >= a.gross /\ s.fees >= a.fees
          [] report[r].kind = "reconciliation" ->
               LET now == ReconciliationOf(m, p, 0)
               IN  /\ now.matched >= a.matched
                   /\ a.unmatched \subseteq PaidIn(m, p)
          [] report[r].kind = "export" ->
               \E x \in ExportRows(m, p, 0) :
                 /\ x.order = a.order /\ x.asset = a.asset
                 /\ x.amount = a.amount /\ x.paidAt = a.paidAt
                 /\ x.refund >= a.refund

(* A report that has been answered is on record in full, as it was         *)
(* answered, although its rows are inserted one by one; and a report that  *)
(* stopped half way has recorded nothing but rows of its one query.        *)
AnswersPersisted ==
  \A r \in Reports :
    LET rows == {x.row : x \in {y \in settlements \cup runs : y.report = r}}
    IN  /\ rows \subseteq report[r].answer
        /\ (report[r].pc = "done" /\ report[r].kind # "export") =>
             rows = report[r].answer
=============================================================================
