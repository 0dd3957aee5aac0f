------------------------------ MODULE Merchant ------------------------------
(***************************************************************************)
(* The merchant backend: orders backed by Fiber invoices, the matching of  *)
(* paid invoices by the indexer, and refunds.                              *)
(*                                                                         *)
(* An HTTP request is a process.  Each database statement and each call of *)
(* the Fiber node is one step of it, since nothing joins them in a         *)
(* transaction; between two steps other requests and the indexer run, and  *)
(* the request may end (a crash, a cancelled context, a database error).   *)
(*                                                                         *)
(* A create request r makes at most one order and at most one invoice, so  *)
(* r also names them: id.New() and the node's payment hash are fresh.  An  *)
(* invoice is paid once, so r names whoever has paid it, too.              *)
(* Amounts are left out: no guard compares them.                           *)
(***************************************************************************)
EXTENDS Integers, FiniteSets

CONSTANTS
  Creates,    \* POST /orders requests, and the orders and invoices they make
  Refunds,    \* POST /orders/{id}/refund requests, and the rows they insert
  Merchants,  \* merchant ids, as authMerchant finds them by API key
  ExtIds,     \* external_order_id values
  NoExt,      \* the empty external_order_id
  None,       \* an input that has not been read, or no order at all
  MaxFaults   \* bound: requests that end by a fault, calls that fail

ASSUME MerchantAssumption ==
  /\ NoExt \notin ExtIds
  /\ None \notin Creates \cup Merchants \cup ExtIds
  /\ MaxFaults \in Nat

VARIABLES
  create,    \* the state of each create request
  refund,    \* the state of each refund request
  orders,    \* merchant_orders: the rows, a set of order records
  refunds,   \* refunds: the rows, a set of [id, order]
  payments,  \* payments: the hashes whose row has a payer's pubkey now
  minted,    \* node: the invoices it has made
  settled,   \* node: the invoices paid
  payouts,   \* node: the refund requests whose keysend it has accepted
  matched,   \* history: invoices whose invoice.paid the indexer has applied
  faults     \* faults so far

vars == << create, refund, orders, refunds, payments, minted, settled,
           payouts, matched, faults >>

(* A row of merchant_orders; invoice_payment_hash is the invoice of the    *)
(* request that inserted it, which is also its id.                         *)
Order == [id : Creates, merchant : Merchants, ext : ExtIds \cup {NoExt},
          status : {"pending", "paid", "refunded"}]

CreatePC == {"idle", "lookup", "mint", "insert", "reread", "get", "done", "error"}
RefundPC == {"idle", "check", "payer", "send", "senderror", "insert", "update",
             "done", "error"}

(* A create request: where it is, its inputs, and what it answered: the    *)
(* order, the invoice hash, and whether the invoice address was included.  *)
CreateState ==
  [pc : CreatePC, merchant : Merchants \cup {None},
   ext : ExtIds \cup {NoExt, None}, order : Creates \cup {None},
   invoice : Creates \cup {None}, address : BOOLEAN]

(* A refund request: where it is, its inputs, and the payer it has read.   *)
RefundState ==
  [pc : RefundPC, merchant : Merchants \cup {None}, order : Creates \cup {None},
   payer : Creates \cup {None}]

TypeOK ==
  /\ create \in [Creates -> CreateState]
  /\ refund \in [Refunds -> RefundState]
  /\ orders \subseteq Order
  /\ refunds \subseteq [id : Refunds, order : Creates]
  /\ payments \subseteq Creates
  /\ minted \subseteq Creates
  /\ settled \subseteq minted
  /\ payouts \subseteq Refunds
  /\ matched \subseteq settled
  /\ faults \in 0..MaxFaults

Init ==
  /\ create = [r \in Creates |-> [pc |-> "idle", merchant |-> None, ext |-> None,
                                  order |-> None, invoice |-> None, address |-> FALSE]]
  /\ refund = [f \in Refunds |-> [pc |-> "idle", merchant |-> None, order |-> None,
                                  payer |-> None]]
  /\ orders = {}
  /\ refunds = {}
  /\ payments = {}
  /\ minted = {}
  /\ settled = {}
  /\ payouts = {}
  /\ matched = {}
  /\ faults = 0

node == << minted, settled, payouts >>
projections == << payments, matched >>

-----------------------------------------------------------------------------
(***************************************************************************)
(* Queries                                                                 *)
(***************************************************************************)

(* GetOrder: by id, within the merchant's own orders.                      *)
GetOrderAnyMerchant(m, o) == {q \in orders : q.id = o}
GetOrder(m, o) == {q \in orders : q.id = o /\ q.merchant = m}

(* orderByExternalID.                                                      *)
OrderByExternalID(m, x) == {q \in orders : q.merchant = m /\ q.ext = x}

(* payerPubkey: the payer on the row of the invoice.  No row and a row     *)
(* without a payer are refused alike.                                      *)
PayerPubkeyAnyInvoice(h) == payments
PayerPubkey(h) == {p \in payments : p = h}

-----------------------------------------------------------------------------
(***************************************************************************)
(* CreateOrder                                                             *)
(***************************************************************************)

CreateGoto(r, pc) == create' = [create EXCEPT ![r].pc = pc]

(* The answer: the order with the invoice, and its address if it is known. *)
Respond(r, o, i, known) ==
  create' = [create EXCEPT ![r].pc = "done", ![r].order = o,
                           ![r].invoice = i, ![r].address = known]

(* The request arrives: the API key is resolved to a merchant, the amount  *)
(* parses or the request ends there.  Without an external id there is      *)
(* nothing to look up.                                                     *)
CreateBegin(r) ==
  /\ create[r].pc = "idle"
  /\ \E m \in Merchants, x \in ExtIds \cup {NoExt} :
       \E pc \in {"error", IF x = NoExt THEN "mint" ELSE "lookup"} :
         create' = [create EXCEPT ![r].pc = pc, ![r].merchant = m, ![r].ext = x]
  /\ UNCHANGED << refund, orders, refunds, projections, node, faults >>

(* A repeat is answered from the table, without the invoice address.       *)
CreateLookup(r) ==
  /\ create[r].pc = "lookup"
  /\ LET found == OrderByExternalID(create[r].merchant, create[r].ext)
     IN  \/ found = {} /\ CreateGoto(r, "mint")
         \/ \E q \in found : Respond(r, q.id, q.id, FALSE)
  /\ UNCHANGED << refund, orders, refunds, projections, node, faults >>

(* NewInvoice, by the node.  An error ends the request.                    *)
NewInvoiceAnsweredEarly(r) ==
  /\ create[r].pc = "mint"
  /\ minted' = minted \cup {r}
  /\ create' = [create EXCEPT ![r].pc = "insert", ![r].invoice = r, ![r].address = TRUE]
  /\ UNCHANGED << refund, orders, refunds, projections, settled, payouts, faults >>
NewInvoice(r) ==
  /\ create[r].pc = "mint"
  /\ minted' = minted \cup {r}
  /\ CreateGoto(r, "insert")
  /\ UNCHANGED << refund, orders, refunds, projections, settled, payouts, faults >>

(* INSERT ... ON CONFLICT (merchant_id, external_order_id) DO NOTHING; a   *)
(* NULL external id conflicts with nothing.                                *)
InsertOrderUnchecked(r) ==
  /\ create[r].pc = "insert"
  /\ orders' = orders \cup {[id |-> r, merchant |-> create[r].merchant,
                             ext |-> create[r].ext, status |-> "pending"]}
  /\ CreateGoto(r, IF create[r].ext = NoExt THEN "get" ELSE "reread")
  /\ UNCHANGED << refund, refunds, projections, node, faults >>
InsertOrder(r) ==
  /\ create[r].pc = "insert"
  /\ LET conflict == /\ create[r].ext # NoExt
                     /\ OrderByExternalID(create[r].merchant, create[r].ext) # {}
     IN  orders' = IF conflict THEN orders
                   ELSE orders \cup {[id |-> r, merchant |-> create[r].merchant,
                                      ext |-> create[r].ext, status |-> "pending"]}
  /\ CreateGoto(r, IF create[r].ext = NoExt THEN "get" ELSE "reread")
  /\ UNCHANGED << refund, refunds, projections, node, faults >>

(* The order that now has the external id is returned, with the invoice    *)
(* this request minted.  If the query fails the request goes on.           *)
CreateReread(r) ==
  /\ create[r].pc = "reread"
  /\ \/ /\ \E q \in OrderByExternalID(create[r].merchant, create[r].ext) :
             Respond(r, q.id, r, TRUE)
        /\ UNCHANGED faults
     \/ /\ faults < MaxFaults
        /\ CreateGoto(r, "get")
        /\ faults' = faults + 1
  /\ UNCHANGED << refund, orders, refunds, projections, node >>

(* The request's own order, which is there unless its INSERT lost.         *)
CreateGet(r) ==
  /\ create[r].pc = "get"
  /\ IF GetOrder(create[r].merchant, r) # {} THEN Respond(r, r, r, TRUE)
                                             ELSE CreateGoto(r, "error")
  /\ UNCHANGED << refund, orders, refunds, projections, node, faults >>

(* The request ends early: a failed query or call, or the process stops.   *)
CreateAbort(r) ==
  /\ faults < MaxFaults
  /\ create[r].pc \notin {"idle", "done", "error"}
  /\ CreateGoto(r, "error")
  /\ faults' = faults + 1
  /\ UNCHANGED << refund, orders, refunds, projections, node >>

-----------------------------------------------------------------------------
(***************************************************************************)
(* The payer and the indexer                                               *)
(***************************************************************************)

(* The customer pays an invoice whose address a response has given.        *)
Pay(i) ==
  /\ i \in minted \ settled
  /\ \E r \in Creates : create[r].invoice = i /\ create[r].address
  /\ settled' = settled \cup {i}
  /\ UNCHANGED << create, refund, orders, refunds, projections, minted,
                  payouts, faults >>

(* matchMerchantOrder, in the transaction that applies invoice.paid.  The  *)
(* event may be applied again whenever the stream is replayed.             *)
MatchAnyStatus(i) ==
  /\ i \in settled
  /\ orders' = {IF q.id = i THEN [q EXCEPT !.status = "paid"] ELSE q : q \in orders}
  /\ matched' = matched \cup {i}
  /\ UNCHANGED << create, refund, refunds, payments, node, faults >>
MatchAnyPending(i) ==
  /\ i \in settled
  /\ orders' = {IF q.status = "pending" THEN [q EXCEPT !.status = "paid"] ELSE q
                : q \in orders}
  /\ matched' = matched \cup {i}
  /\ UNCHANGED << create, refund, refunds, payments, node, faults >>
MatchMerchantOrder(i) ==
  /\ i \in settled
  /\ orders' = {IF q.id = i /\ q.status = "pending"
                THEN [q EXCEPT !.status = "paid"] ELSE q : q \in orders}
  /\ matched' = matched \cup {i}
  /\ UNCHANGED << create, refund, refunds, payments, node, faults >>

(* payment.received is projected.  The upsert overwrites the payer with    *)
(* that of the event, which may name none: peer is then NULL, also where   *)
(* an earlier event had named one.                                         *)
ProjectPaymentReceived(i) ==
  /\ i \in settled
  /\ payments' \in {payments \cup {i}, payments \ {i}}
  /\ UNCHANGED << create, refund, orders, refunds, node, matched, faults >>

-----------------------------------------------------------------------------
(***************************************************************************)
(* Refund                                                                  *)
(***************************************************************************)

RefundGoto(f, pc) == refund' = [refund EXCEPT ![f].pc = pc]

RefundBegin(f) ==
  /\ refund[f].pc = "idle"
  /\ \E m \in Merchants, o \in Creates :
       refund' = [refund EXCEPT ![f].pc = "check", ![f].merchant = m, ![f].order = o]
  /\ UNCHANGED << create, orders, refunds, projections, node, faults >>

(* The order must be found and 'paid', and the amount must parse.          *)
RefundCheckNotPending(f) ==
  /\ refund[f].pc = "check"
  /\ \/ /\ \E q \in GetOrder(refund[f].merchant, refund[f].order) : q.status # "pending"
        /\ RefundGoto(f, "payer")
     \/ RefundGoto(f, "error")
  /\ UNCHANGED << create, orders, refunds, projections, node, faults >>
RefundCheck(f) ==
  /\ refund[f].pc = "check"
  /\ \/ /\ \E q \in GetOrder(refund[f].merchant, refund[f].order) : q.status = "paid"
        /\ RefundGoto(f, "payer")
     \/ RefundGoto(f, "error")
  /\ UNCHANGED << create, orders, refunds, projections, node, faults >>

(* The payer is read once; the row may change before the keysend.          *)
RefundPayer(f) ==
  /\ refund[f].pc = "payer"
  /\ \/ \E p \in PayerPubkey(refund[f].order) :
          refund' = [refund EXCEPT ![f].pc = "send", ![f].payer = p]
     \/ PayerPubkey(refund[f].order) = {} /\ RefundGoto(f, "error")
  /\ UNCHANGED << create, orders, refunds, projections, node, faults >>

(* SendPayment.  No error means that the node has accepted the keysend:    *)
(* the status in its answer is not read.  On an error it may or may not    *)
(* have sent.                                                              *)
SendPaymentUnrecorded(f) ==
  /\ refund[f].pc = "send"
  /\ RefundGoto(f, "update")
  /\ payouts' = payouts \cup {f}
  /\ UNCHANGED << create, orders, refunds, projections, minted, settled, faults >>
SendPayment(f) ==
  /\ refund[f].pc = "send"
  /\ \/ /\ RefundGoto(f, "insert")
        /\ payouts' = payouts \cup {f}
        /\ UNCHANGED faults
     \/ /\ faults < MaxFaults
        /\ RefundGoto(f, "senderror")
        /\ payouts' \in {payouts, payouts \cup {f}}
        /\ faults' = faults + 1
  /\ UNCHANGED << create, orders, refunds, projections, minted, settled >>

InsertRefund(f) ==
  /\ refund[f].pc = "insert"
  /\ refunds' = refunds \cup {[id |-> f, order |-> refund[f].order]}
  /\ RefundGoto(f, "update")
  /\ UNCHANGED << create, orders, projections, node, faults >>

(* UPDATE merchant_orders SET status = 'refunded' WHERE id = ...           *)
MarkRefundedAsSent(f) ==
  /\ refund[f].pc = "update"
  /\ orders' = {IF q.id = refund[f].order THEN [q EXCEPT !.status = "sent"] ELSE q
                : q \in orders}
  /\ RefundGoto(f, "done")
  /\ UNCHANGED << create, refunds, projections, node, faults >>
MarkRefunded(f) ==
  /\ refund[f].pc = "update"
  /\ orders' = {IF q.id = refund[f].order THEN [q EXCEPT !.status = "refunded"] ELSE q
                : q \in orders}
  /\ RefundGoto(f, "done")
  /\ UNCHANGED << create, refunds, projections, node, faults >>

RefundAbort(f) ==
  /\ faults < MaxFaults
  /\ refund[f].pc \in {"payer", "insert", "update"}
  /\ RefundGoto(f, "error")
  /\ faults' = faults + 1
  /\ UNCHANGED << create, orders, refunds, projections, node >>

-----------------------------------------------------------------------------
CreateStep(r) ==
  \/ CreateBegin(r) \/ CreateLookup(r) \/ NewInvoice(r) \/ InsertOrder(r)
  \/ CreateReread(r) \/ CreateGet(r) \/ CreateAbort(r)

RefundStep(f) ==
  \/ RefundBegin(f) \/ RefundCheck(f) \/ RefundPayer(f) \/ SendPayment(f)
  \/ InsertRefund(f) \/ MarkRefunded(f) \/ RefundAbort(f)

Next ==
  \/ \E r \in Creates : CreateStep(r)
  \/ \E f \in Refunds : RefundStep(f)
  \/ \E i \in Creates : Pay(i) \/ MatchMerchantOrder(i) \/ ProjectPaymentReceived(i)

Spec == Init /\ [][Next]_vars

-----------------------------------------------------------------------------
(***************************************************************************)
(* Properties                                                              *)
(***************************************************************************)

Answered == {r \in Creates : create[r].pc = "done"}

(* Requests with the same merchant and external id are answered with the   *)
(* same order, however their lookups, inserts and re-reads interleave.     *)
ResponsesAgree ==
  \A r1, r2 \in Answered :
    (/\ create[r1].merchant = create[r2].merchant
     /\ create[r1].ext = create[r2].ext
     /\ create[r1].ext # NoExt) => create[r1].order = create[r2].order

(* An order is paid or refunded exactly if invoice.paid of its own invoice *)
(* has been applied, whatever other orders are paid and however events are *)
(* replayed.  The indexer misses none: its UPDATE matches whatever rows    *)
(* exist when it runs, so this rests on the invoice being handed out only  *)
(* after the order is inserted.                                            *)
PaidIffMatched ==
  \A q \in orders : q.status # "pending" <=> q.id \in matched

(* A refund row stands for a keysend that the node accepted, and a         *)
(* refunded order has such a row, wherever a refund request ends.          *)
RefundsAccounted ==
  /\ \A x \in refunds : x.id \in payouts
  /\ \A q \in orders : q.status = "refunded" => \E x \in refunds : x.order = q.id

(* Money leaves only for an order that was paid, to the payer of that very *)
(* order's invoice, at the request of the merchant whose order it is.      *)
(* Refund has read order and payer before it sends: the order may have     *)
(* been refunded and the payer on record erased in between.                *)
PayoutsOwed ==
  \A f \in payouts :
    /\ refund[f].order \in settled
    /\ refund[f].payer = refund[f].order
    /\ \E q \in orders : q.id = refund[f].order /\ q.merchant = refund[f].merchant

(* A refunded order never becomes paid again, although invoice.paid may be *)
(* replayed at any time.                                                   *)
RefundedIsFinal ==
  [][\A q \in orders : q.status = "refunded" => q \in orders']_vars

(* Once Refund has answered that an order is refunded, no later request    *)
(* for it passes the check of the status, whatever is replayed meanwhile.  *)
RefundAnsweredOnce ==
  [][\A f, g \in Refunds :
       (/\ refund[f].pc = "done"
        /\ refund[g].order = refund[f].order
        /\ refund[g].pc = "check") => refund'[g].pc # "payer"]_vars

(* Automatic payment matching: an order is flipped to paid when its        *)
(* invoice is settled, so a paid invoice that the indexer has applied      *)
(* belongs to an order that is not pending.                                *)
EveryPaymentMatched ==
  \A i \in matched : \E q \in orders : q.id = i /\ q.status # "pending"

(* Refund's comment: the order must be paid when the keysend is sent.      *)
RefundOnlyPaid ==
  [][\A f \in Refunds : (f \in payouts' \ payouts) =>
       \E q \in orders : q.id = refund[f].order /\ q.status = "paid"]_vars

(* Refund's comment: it sends the refund and records it, so a request that *)
(* has ended after the node confirmed the payment has recorded it.         *)
SentIsRecorded ==
  \A f \in payouts : refund[f].pc = "error" =>
    \E x \in refunds : x.id = f
=============================================================================
