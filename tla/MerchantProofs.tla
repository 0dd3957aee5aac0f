--------------------------- MODULE MerchantProofs ---------------------------
(***************************************************************************)
(* Proofs about the merchant backend, for any number of requests,          *)
(* merchants, external ids and faults.                                     *)
(***************************************************************************)
EXTENDS Merchant, TLAPS

(***************************************************************************)
(* The inductive invariant                                                 *)
(***************************************************************************)

(* The same row of merchant_orders, whatever its status.                   *)
SameOrder(p, q) == p.id = q.id /\ p.merchant = q.merchant /\ p.ext = q.ext

(* The constraints of the table: the primary key, and UNIQUE (merchant_id, *)
(* external_order_id), in which NULLs differ.                              *)
UniqueOrders ==
  \A p, q \in orders :
    (p.id = q.id \/ (p.merchant = q.merchant /\ p.ext = q.ext /\ p.ext # NoExt)) => p = q

(* A row comes from the request it is named after, which is past its       *)
(* INSERT.                                                                 *)
OrdersInserted ==
  \A q \in orders :
    /\ create[q.id].pc \in {"reread", "get", "done", "error"}
    /\ create[q.id].merchant = q.merchant
    /\ create[q.id].ext = q.ext

(* An invoice address is given out only by the request that minted it, and *)
(* with its answer; so a paid invoice belongs to a request that is over.   *)
InvoicesGivenOut ==
  /\ \A r \in Creates :
       create[r].address => create[r].pc = "done" /\ create[r].invoice = r
  /\ \A i \in settled : create[i].pc = "done"

(* The order a request has answered with exists and is the one its inputs  *)
(* ask for.                                                                *)
AnsweredOrder(r) ==
  \E q \in orders : /\ q.id = create[r].order
                    /\ q.merchant = create[r].merchant
                    /\ q.ext = create[r].ext
AnswersExist == \A r \in Creates : create[r].pc = "done" => AnsweredOrder(r)

(* What a refund request has found: the merchant's own order, not pending. *)
RefundsOwnOrder(f) ==
  \E q \in orders : /\ q.id = refund[f].order
                    /\ q.merchant = refund[f].merchant
                    /\ q.status # "pending"

(* An order whose refund has been answered is on record as refunded.       *)
OrderRefunded(f) == \E q \in orders : q.id = refund[f].order /\ q.status = "refunded"

(* What a refund request relies on at each of its statements.  The payer   *)
(* is the one it has read itself: the row it came from may change.         *)
RefundInv(f) ==
  /\ (refund[f].pc \in {"payer", "send", "senderror", "insert", "update", "done"}
        \/ f \in payouts) => RefundsOwnOrder(f)
  /\ (refund[f].pc \in {"send", "senderror", "insert", "update", "done"}
        \/ f \in payouts) => refund[f].payer = refund[f].order
  /\ refund[f].pc = "insert" => f \in payouts
  /\ refund[f].pc = "update" => \E x \in refunds : x.order = refund[f].order
  /\ refund[f].pc = "done" => OrderRefunded(f)
  /\ f \in payouts => refund[f].pc # "idle"

(* A request under way has been authenticated and has read its inputs.     *)
InputsRead ==
  \A r \in Creates : create[r].pc # "idle" =>
    create[r].merchant \in Merchants /\ create[r].ext \in ExtIds \cup {NoExt}

IInv ==
  /\ TypeOK
  /\ InputsRead
  /\ UniqueOrders
  /\ OrdersInserted
  /\ InvoicesGivenOut
  /\ AnswersExist
  /\ \A f \in Refunds : RefundInv(f)
  /\ PaidIffMatched
  /\ RefundsAccounted

-----------------------------------------------------------------------------
(* The initial state: no request has begun and every table is empty.       *)
LEMMA InitInv == Init => IInv
<1> SUFFICES ASSUME Init PROVE IInv
  OBVIOUS
<1>1. TypeOK
  BY MerchantAssumption DEF Init, TypeOK, CreateState, RefundState, CreatePC, RefundPC
<1>2. UniqueOrders /\ OrdersInserted /\ PaidIffMatched
  BY DEF Init, UniqueOrders, OrdersInserted, PaidIffMatched
<1>3. InputsRead /\ InvoicesGivenOut /\ AnswersExist /\ RefundsAccounted
  BY DEF Init, InputsRead, InvoicesGivenOut, AnswersExist, RefundsAccounted
<1>4. ASSUME NEW f \in Refunds PROVE RefundInv(f)
  BY DEF Init, RefundInv
<1>5. QED
  BY <1>1, <1>2, <1>3, <1>4 DEF IInv

(* A step of one create request that leaves the tables and the node's      *)
(* payments alone keeps the invariant if it ends no request twice, keeps   *)
(* the inputs of a request whose row is in the table, and answers with an  *)
(* existing order and its own invoice.                                     *)
LEMMA CreateMove ==
  ASSUME IInv, NEW r \in Creates, create' \in [Creates -> CreateState],
         \A x \in Creates : x # r => create'[x] = create[x],
         create[r].pc # "done",
         create[r].pc # "idle" => /\ create'[r].merchant = create[r].merchant
                                  /\ create'[r].ext = create[r].ext,
         create'[r].merchant \in Merchants, create'[r].ext \in ExtIds \cup {NoExt},
         create[r].pc \in {"reread", "get", "error"} =>
           create'[r].pc \in {"reread", "get", "done", "error"},
         create'[r].address => create'[r].pc = "done" /\ create'[r].invoice = r,
         create'[r].pc = "done" => AnsweredOrder(r)',
         minted \subseteq minted', minted' \subseteq Creates, faults' \in 0..MaxFaults,
         UNCHANGED << refund, orders, refunds, projections, settled, payouts >>
  PROVE  IInv'
<1> USE DEF IInv
<1>1. TypeOK'
  BY DEF TypeOK, projections
<1>2. UniqueOrders'
  BY DEF UniqueOrders
<1>3. OrdersInserted'
  <2> SUFFICES ASSUME NEW q \in orders
               PROVE  /\ create'[q.id].pc \in {"reread", "get", "done", "error"}
                      /\ create'[q.id].merchant = q.merchant
                      /\ create'[q.id].ext = q.ext
    BY DEF OrdersInserted
  <2>1. /\ q.id \in Creates
        /\ create[q.id].pc \in {"reread", "get", "done", "error"}
        /\ create[q.id].merchant = q.merchant /\ create[q.id].ext = q.ext
    BY DEF TypeOK, Order, OrdersInserted
  <2>2. QED
    BY <2>1
<1>4. InvoicesGivenOut'
  BY DEF InvoicesGivenOut, TypeOK
<1>5. AnswersExist'
  <2> SUFFICES ASSUME NEW x \in Creates, create'[x].pc = "done" PROVE AnsweredOrder(x)'
    BY DEF AnswersExist
  <2>1. CASE x # r
    BY <2>1 DEF AnswersExist, AnsweredOrder
  <2>2. QED
    BY <2>1
<1>6. ASSUME NEW f \in Refunds PROVE RefundInv(f)'
  <2>1. RefundInv(f)
    OBVIOUS
  <2>2. QED
    BY <2>1 DEF RefundInv, RefundsOwnOrder, OrderRefunded, projections
<1>7. PaidIffMatched' /\ RefundsAccounted'
  BY DEF PaidIffMatched, RefundsAccounted, projections
<1>8. InputsRead'
  BY DEF InputsRead
<1>9. QED
  BY <1>1, <1>2, <1>3, <1>4, <1>5, <1>6, <1>7, <1>8

(* Changing the place of one request keeps everything else about it.       *)
LEMMA CreateGotoFacts ==
  ASSUME TypeOK, NEW r \in Creates, NEW pc \in CreatePC, CreateGoto(r, pc)
  PROVE  /\ create' \in [Creates -> CreateState]
         /\ \A x \in Creates : x # r => create'[x] = create[x]
         /\ create'[r].pc = pc
         /\ create'[r].merchant = create[r].merchant
         /\ create'[r].ext = create[r].ext
         /\ create'[r].address = create[r].address
BY DEF TypeOK, CreateGoto, CreateState

(* What an answer sets.                                                    *)
LEMMA RespondFacts ==
  ASSUME TypeOK, NEW r \in Creates, NEW o \in Creates, NEW i \in Creates,
         NEW known \in BOOLEAN, Respond(r, o, i, known)
  PROVE  /\ create' \in [Creates -> CreateState]
         /\ \A x \in Creates : x # r => create'[x] = create[x]
         /\ create'[r].pc = "done"
         /\ create'[r].merchant = create[r].merchant
         /\ create'[r].ext = create[r].ext
         /\ create'[r].order = o
         /\ create'[r].invoice = i
         /\ create'[r].address = known
<1>1. create[r] \in CreateState
  BY DEF TypeOK
<1>2. create' = [create EXCEPT ![r] = [create[r] EXCEPT !.pc = "done", !.order = o,
                                         !.invoice = i, !.address = known]]
  BY DEF Respond, TypeOK
<1>3. [create[r] EXCEPT !.pc = "done", !.order = o,
                        !.invoice = i, !.address = known] \in CreateState
  BY <1>1 DEF CreateState, CreatePC
<1>4. create[r] \in [pc : CreatePC, merchant : Merchants \cup {None},
   ext : ExtIds \cup {NoExt, None}, order : Creates \cup {None},
   invoice : Creates \cup {None}, address : BOOLEAN]
  BY <1>1 DEF CreateState
<1>5. QED
  BY <1>2, <1>3, <1>4 DEF TypeOK

(* A request that has not been answered has given out no address.          *)
LEMMA NoAddressYet ==
  ASSUME IInv, NEW r \in Creates, create[r].pc # "done"
  PROVE  create[r].address = FALSE
<1>1. create[r].address \in BOOLEAN
  BY DEF IInv, TypeOK, CreateState
<1>2. QED
  BY <1>1 DEF IInv, InvoicesGivenOut

-----------------------------------------------------------------------------
(***************************************************************************)
(* Create requests                                                         *)
(***************************************************************************)

(* A request arrives: it has no row yet.                                   *)
LEMMA CreateBeginStep ==
  ASSUME IInv, NEW r \in Creates, CreateBegin(r)
  PROVE  IInv'
<1>1. PICK m \in Merchants, x \in ExtIds \cup {NoExt}, pc \in {"error", "mint", "lookup"} :
        create' = [create EXCEPT ![r].pc = pc, ![r].merchant = m, ![r].ext = x]
  BY DEF CreateBegin
<1>2. /\ create' \in [Creates -> CreateState]
      /\ \A y \in Creates : y # r => create'[y] = create[y]
      /\ create'[r].pc = pc
      /\ create'[r].merchant = m
      /\ create'[r].ext = x
      /\ create'[r].address = create[r].address
  <2>1. create[r] \in CreateState
    BY DEF IInv, TypeOK
  <2>2. create' = [create EXCEPT ![r] = [create[r] EXCEPT !.pc = pc, !.merchant = m,
                                                          !.ext = x]]
    BY <1>1 DEF IInv, TypeOK
  <2>3. [create[r] EXCEPT !.pc = pc, !.merchant = m, !.ext = x] \in CreateState
    BY <2>1 DEF CreateState, CreatePC
  <2>4. QED
    BY <2>1, <2>2, <2>3 DEF CreateState, IInv, TypeOK
<1>3. create[r].pc = "idle"
  BY DEF CreateBegin
<1>4. create[r].address = FALSE
  BY <1>3, NoAddressYet
<1>5. QED
  BY <1>2, <1>3, <1>4, CreateMove DEF CreateBegin, node, IInv, TypeOK

(* A repeat is answered with the order that has its external id.           *)
LEMMA CreateLookupStep ==
  ASSUME IInv, NEW r \in Creates, CreateLookup(r)
  PROVE  IInv'
<1>0. /\ TypeOK /\ create[r].pc = "lookup" /\ create[r].address = FALSE
      /\ create[r].merchant \in Merchants /\ create[r].ext \in ExtIds \cup {NoExt}
      /\ minted' = minted /\ minted \subseteq Creates /\ faults' \in 0..MaxFaults
      /\ UNCHANGED << refund, orders, refunds, projections, settled, payouts >>
  BY NoAddressYet DEF CreateLookup, node, IInv, TypeOK, InputsRead
<1>1. CASE CreateGoto(r, "mint")
  <2>1. "mint" \in CreatePC
    BY DEF CreatePC
  <2>2. QED
    BY <1>0, <1>1, <2>1, CreateGotoFacts, CreateMove
<1>2. ASSUME NEW q \in OrderByExternalID(create[r].merchant, create[r].ext),
             Respond(r, q.id, q.id, FALSE)
      PROVE  IInv'
  <2>1. /\ q \in orders /\ q.id \in Creates
        /\ q.merchant = create[r].merchant /\ q.ext = create[r].ext
    BY <1>0 DEF OrderByExternalID, TypeOK, Order
  <2>2. /\ create' \in [Creates -> CreateState]
        /\ \A x \in Creates : x # r => create'[x] = create[x]
        /\ create'[r].pc = "done"
        /\ create'[r].merchant = create[r].merchant
        /\ create'[r].ext = create[r].ext
        /\ create'[r].order = q.id
        /\ create'[r].address = FALSE
    BY <1>0, <1>2, <2>1, RespondFacts
  <2>3. AnsweredOrder(r)'
    BY <1>0, <2>1, <2>2 DEF AnsweredOrder
  <2>4. QED
    BY <1>0, <2>2, <2>3, CreateMove
<1>3. QED
  BY <1>1, <1>2 DEF CreateLookup

(* The node mints the invoice of the request.                              *)
LEMMA NewInvoiceStep ==
  ASSUME IInv, NEW r \in Creates, NewInvoice(r)
  PROVE  IInv'
<1>1. /\ TypeOK /\ create[r].pc = "mint" /\ create[r].address = FALSE
      /\ create[r].merchant \in Merchants /\ create[r].ext \in ExtIds \cup {NoExt}
      /\ minted \subseteq minted' /\ minted' \subseteq Creates /\ faults' \in 0..MaxFaults
      /\ UNCHANGED << refund, orders, refunds, projections, settled, payouts >>
  BY NoAddressYet DEF NewInvoice, IInv, TypeOK, InputsRead
<1>2. "insert" \in CreatePC /\ CreateGoto(r, "insert")
  BY DEF CreatePC, NewInvoice
<1>3. QED
  BY <1>1, <1>2, CreateGotoFacts, CreateMove

(* The INSERT keeps both keys unique: the request has no row yet, and a    *)
(* conflict on the external id inserts nothing.  The invoice of the new    *)
(* order has not been paid, for nobody has been given it.                  *)
LEMMA InsertOrderStep ==
  ASSUME IInv, NEW r \in Creates, InsertOrder(r)
  PROVE  IInv'
<1> DEFINE new == [id |-> r, merchant |-> create[r].merchant,
                   ext |-> create[r].ext, status |-> "pending"]
           next == IF create[r].ext = NoExt THEN "get" ELSE "reread"
<1>0. /\ TypeOK /\ create[r].pc = "insert" /\ create[r].address = FALSE
      /\ create[r].merchant \in Merchants /\ create[r].ext \in ExtIds \cup {NoExt}
      /\ minted' = minted /\ minted \subseteq Creates /\ faults' \in 0..MaxFaults
      /\ UNCHANGED << refund, refunds, projections, settled, payouts >>
      /\ next \in CreatePC /\ CreateGoto(r, next)
  BY NoAddressYet DEF InsertOrder, node, IInv, TypeOK, CreatePC, InputsRead
<1>1. /\ create' \in [Creates -> CreateState]
      /\ \A x \in Creates : x # r => create'[x] = create[x]
      /\ create'[r].pc \in {"get", "reread"}
      /\ create'[r].merchant = create[r].merchant
      /\ create'[r].ext = create[r].ext
      /\ create'[r].address = FALSE
  BY <1>0, CreateGotoFacts
<1>2. CASE orders' = orders
  BY <1>0, <1>1, <1>2, CreateMove
<1>3. CASE /\ orders' = orders \cup {new}
           /\ create[r].ext = NoExt
              \/ OrderByExternalID(create[r].merchant, create[r].ext) = {}
  <2> USE DEF IInv
  <2>1. new \in Order
    BY <1>0 DEF Order
  <2>2. TypeOK'
    BY <1>0, <1>1, <1>3, <2>1 DEF TypeOK, projections
  <2>3. ASSUME NEW q \in orders
        PROVE  /\ q.id # r /\ q.id \in Creates
               /\ q.merchant = create[r].merchant /\ q.ext = create[r].ext =>
                    create[r].ext = NoExt
    BY <1>0, <1>3 DEF OrdersInserted, OrderByExternalID, TypeOK, Order
  <2>4. UniqueOrders'
    BY <1>3, <2>3 DEF UniqueOrders
  <2>5. OrdersInserted'
    <3>1. ASSUME NEW q \in orders
          PROVE  /\ create'[q.id].pc \in {"reread", "get", "done", "error"}
                 /\ create'[q.id].merchant = q.merchant /\ create'[q.id].ext = q.ext
      BY <1>1, <2>3 DEF OrdersInserted
    <3>2. QED
      BY <1>1, <1>3, <3>1 DEF OrdersInserted
  <2>6. r \notin settled
    BY <1>0 DEF InvoicesGivenOut
  <2>7. InvoicesGivenOut' /\ InputsRead'
    BY <1>0, <1>1, <2>6 DEF InvoicesGivenOut, InputsRead, TypeOK
  <2>8. AnswersExist'
    BY <1>1, <1>3 DEF AnswersExist, AnsweredOrder
  <2>9. ASSUME NEW f \in Refunds PROVE RefundInv(f)'
    <3>1. RefundInv(f)
      OBVIOUS
    <3>2. /\ RefundsOwnOrder(f) => RefundsOwnOrder(f)'
          /\ OrderRefunded(f) => OrderRefunded(f)'
      BY <1>0, <1>3 DEF RefundsOwnOrder, OrderRefunded
    <3>3. QED
      BY <1>0, <3>1, <3>2 DEF RefundInv, projections
  <2>10. PaidIffMatched'
    BY <1>0, <1>3, <2>6 DEF PaidIffMatched, projections, TypeOK
  <2>11. RefundsAccounted'
    BY <1>0, <1>3 DEF RefundsAccounted
  <2>12. QED
    BY <2>2, <2>4, <2>5, <2>7, <2>8, <2>9, <2>10, <2>11
<1>4. QED
  BY <1>2, <1>3 DEF InsertOrder

(* The loser of a race answers with the winner's order, and its own        *)
(* invoice.                                                                *)
LEMMA CreateRereadStep ==
  ASSUME IInv, NEW r \in Creates, CreateReread(r)
  PROVE  IInv'
<1>0. /\ TypeOK /\ create[r].pc = "reread" /\ create[r].address = FALSE
      /\ create[r].merchant \in Merchants /\ create[r].ext \in ExtIds \cup {NoExt}
      /\ minted' = minted /\ minted \subseteq Creates
      /\ UNCHANGED << refund, orders, refunds, projections, settled, payouts >>
  BY NoAddressYet DEF CreateReread, node, IInv, TypeOK, InputsRead
<1>f. faults' \in 0..MaxFaults
  <2>1. faults' = faults \/ (faults < MaxFaults /\ faults' = faults + 1)
    BY DEF CreateReread
  <2>2. QED
    BY <2>1, MerchantAssumption DEF IInv, TypeOK
<1>1. CASE CreateGoto(r, "get")
  <2>1. "get" \in CreatePC
    BY DEF CreatePC
  <2>2. QED
    BY <1>0, <1>f, <1>1, <2>1, CreateGotoFacts, CreateMove
<1>2. ASSUME NEW q \in OrderByExternalID(create[r].merchant, create[r].ext),
             Respond(r, q.id, r, TRUE)
      PROVE  IInv'
  <2>1. /\ q \in orders /\ q.id \in Creates
        /\ q.merchant = create[r].merchant /\ q.ext = create[r].ext
    BY <1>0 DEF OrderByExternalID, TypeOK, Order
  <2>2. /\ create' \in [Creates -> CreateState]
        /\ \A x \in Creates : x # r => create'[x] = create[x]
        /\ create'[r].pc = "done"
        /\ create'[r].merchant = create[r].merchant
        /\ create'[r].ext = create[r].ext
        /\ create'[r].order = q.id
        /\ create'[r].invoice = r
    BY <1>0, <1>2, <2>1, RespondFacts
  <2>3. AnsweredOrder(r)'
    BY <1>0, <2>1, <2>2 DEF AnsweredOrder
  <2>4. QED
    BY <1>0, <1>f, <2>2, <2>3, CreateMove
<1>3. QED
  BY <1>1, <1>2 DEF CreateReread

(* The request's own order, if its INSERT has won.                         *)
LEMMA CreateGetStep ==
  ASSUME IInv, NEW r \in Creates, CreateGet(r)
  PROVE  IInv'
<1>0. /\ TypeOK /\ create[r].pc = "get" /\ create[r].address = FALSE
      /\ create[r].merchant \in Merchants /\ create[r].ext \in ExtIds \cup {NoExt}
      /\ minted' = minted /\ minted \subseteq Creates /\ faults' \in 0..MaxFaults
      /\ UNCHANGED << refund, orders, refunds, projections, settled, payouts >>
  BY NoAddressYet DEF CreateGet, node, IInv, TypeOK, InputsRead
<1>1. CASE CreateGoto(r, "error")
  <2>1. "error" \in CreatePC
    BY DEF CreatePC
  <2>2. QED
    BY <1>0, <1>1, <2>1, CreateGotoFacts, CreateMove
<1>2. CASE GetOrder(create[r].merchant, r) # {} /\ Respond(r, r, r, TRUE)
  <2>1. PICK q \in orders : q.id = r /\ q.merchant = create[r].merchant
    BY <1>2 DEF GetOrder
  <2>2. q.ext = create[r].ext
    BY <2>1 DEF IInv, OrdersInserted
  <2>3. /\ create' \in [Creates -> CreateState]
        /\ \A x \in Creates : x # r => create'[x] = create[x]
        /\ create'[r].pc = "done"
        /\ create'[r].merchant = create[r].merchant
        /\ create'[r].ext = create[r].ext
        /\ create'[r].order = r
        /\ create'[r].invoice = r
    BY <1>0, <1>2, RespondFacts
  <2>4. AnsweredOrder(r)'
    BY <1>0, <2>1, <2>2, <2>3 DEF AnsweredOrder
  <2>5. QED
    BY <1>0, <2>3, <2>4, CreateMove
<1>3. QED
  BY <1>1, <1>2 DEF CreateGet

(* A request that ends early leaves its row, if it has one, behind.        *)
LEMMA CreateAbortStep ==
  ASSUME IInv, NEW r \in Creates, CreateAbort(r)
  PROVE  IInv'
<1>0. /\ TypeOK /\ create[r].pc \notin {"idle", "done"} /\ create[r].address = FALSE
      /\ create[r].merchant \in Merchants /\ create[r].ext \in ExtIds \cup {NoExt}
      /\ minted' = minted /\ minted \subseteq Creates
      /\ UNCHANGED << refund, orders, refunds, projections, settled, payouts >>
  BY NoAddressYet DEF CreateAbort, node, IInv, TypeOK, InputsRead
<1>f. faults' \in 0..MaxFaults
  BY MerchantAssumption DEF CreateAbort, IInv, TypeOK
<1>1. "error" \in CreatePC /\ CreateGoto(r, "error")
  BY DEF CreatePC, CreateAbort
<1>2. QED
  BY <1>0, <1>f, <1>1, CreateGotoFacts, CreateMove

-----------------------------------------------------------------------------
(***************************************************************************)
(* The payer and the indexer                                               *)
(***************************************************************************)

(* Only an invoice that an answered request has given out is paid.         *)
LEMMA PayStep ==
  ASSUME IInv, NEW i \in Creates, Pay(i)
  PROVE  IInv'
<1> USE DEF IInv
<1>1. create[i].pc = "done"
  BY DEF Pay, InvoicesGivenOut
<1>2. TypeOK'
  BY DEF Pay, TypeOK, projections
<1>3. InputsRead' /\ UniqueOrders' /\ OrdersInserted'
  BY DEF Pay, InputsRead, UniqueOrders, OrdersInserted
<1>4. InvoicesGivenOut'
  BY <1>1 DEF Pay, InvoicesGivenOut
<1>5. AnswersExist'
  BY DEF Pay, AnswersExist, AnsweredOrder
<1>6. ASSUME NEW f \in Refunds PROVE RefundInv(f)'
  <2>1. RefundInv(f)
    OBVIOUS
  <2>2. QED
    BY <2>1 DEF Pay, RefundInv, RefundsOwnOrder, OrderRefunded, projections
<1>7. PaidIffMatched' /\ RefundsAccounted'
  BY DEF Pay, PaidIffMatched, RefundsAccounted, projections
<1>8. QED
  BY <1>2, <1>3, <1>4, <1>5, <1>6, <1>7

(* What an UPDATE of the status of some rows does to the table: the rows   *)
(* stay, and only the selected ones get the new status.                    *)
LEMMA StatusUpdate ==
  ASSUME TypeOK, NEW S \in SUBSET orders, NEW s \in {"pending", "paid", "refunded"},
         orders' = {IF q \in S THEN [q EXCEPT !.status = s] ELSE q : q \in orders}
  PROVE  /\ orders' \subseteq Order
         /\ \A p \in orders' : \E q \in orders :
              /\ SameOrder(p, q)
              /\ IF q \in S THEN p.status = s ELSE p = q
         /\ \A q \in orders : \E p \in orders' :
              /\ SameOrder(p, q)
              /\ IF q \in S THEN p.status = s ELSE p = q
<1>1. ASSUME NEW q \in orders
      PROVE  /\ [q EXCEPT !.status = s] \in Order
             /\ SameOrder([q EXCEPT !.status = s], q)
             /\ [q EXCEPT !.status = s].status = s
             /\ q \in Order /\ SameOrder(q, q)
  BY DEF TypeOK, Order, SameOrder
<1>2. QED
  BY <1>1

(* An UPDATE that makes no order pending and leaves refunded ones refunded *)
(* keeps what the invariant says of the requests.                          *)
LEMMA UpdateFrame ==
  ASSUME IInv, orders' \subseteq Order,
         \A p \in orders' : \E q \in orders : SameOrder(p, q),
         \A q \in orders : \E p \in orders' :
           /\ SameOrder(p, q)
           /\ q.status # "pending" => p.status # "pending"
           /\ q.status = "refunded" => p.status = "refunded",
         \A p1, p2 \in orders' : p1.id = p2.id => p1 = p2,
         UNCHANGED << create, settled, payments >>
  PROVE  /\ InputsRead' /\ UniqueOrders' /\ OrdersInserted'
         /\ InvoicesGivenOut' /\ AnswersExist'
         /\ \A f \in Refunds :
              /\ refund'[f].order = refund[f].order
              /\ refund'[f].merchant = refund[f].merchant
              => /\ RefundsOwnOrder(f) => RefundsOwnOrder(f)'
                 /\ OrderRefunded(f) => OrderRefunded(f)'
<1> USE DEF IInv
<1>1. InputsRead' /\ InvoicesGivenOut'
  BY DEF InputsRead, InvoicesGivenOut
<1>2. OrdersInserted'
  BY DEF OrdersInserted, SameOrder
<1>3. UniqueOrders'
  <2> SUFFICES ASSUME NEW p1 \in orders', NEW p2 \in orders', p1.merchant = p2.merchant,
                      p1.ext = p2.ext, p1.ext # NoExt
               PROVE  p1 = p2
    BY DEF UniqueOrders
  <2>1. PICK q1 \in orders : SameOrder(p1, q1)
    OBVIOUS
  <2>2. PICK q2 \in orders : SameOrder(p2, q2)
    OBVIOUS
  <2>3. q1 = q2
    <3>1. q1.merchant = q2.merchant /\ q1.ext = q2.ext /\ q1.ext # NoExt
      BY <2>1, <2>2 DEF SameOrder
    <3>2. UniqueOrders
      OBVIOUS
    <3>3. QED
      BY <3>1, <3>2 DEF UniqueOrders
  <2>4. QED
    BY <2>1, <2>2, <2>3 DEF SameOrder
<1>4. AnswersExist'
  <2> SUFFICES ASSUME NEW r \in Creates, create[r].pc = "done" PROVE AnsweredOrder(r)'
    BY DEF AnswersExist
  <2>1. PICK q \in orders : /\ q.id = create[r].order
                            /\ q.merchant = create[r].merchant
                            /\ q.ext = create[r].ext
    BY DEF AnswersExist, AnsweredOrder
  <2>2. QED
    BY <2>1 DEF AnsweredOrder, SameOrder
<1>5. ASSUME NEW f \in Refunds, refund'[f].order = refund[f].order,
             refund'[f].merchant = refund[f].merchant, RefundsOwnOrder(f)
      PROVE  RefundsOwnOrder(f)'
  BY <1>5 DEF RefundsOwnOrder, SameOrder
<1>6. ASSUME NEW f \in Refunds, refund'[f].order = refund[f].order, OrderRefunded(f)
      PROVE  OrderRefunded(f)'
  BY <1>6 DEF OrderRefunded, SameOrder
<1>7. QED
  BY <1>1, <1>2, <1>3, <1>4, <1>5, <1>6

(* The indexer's UPDATE: a pending order whose invoice was paid.           *)
LEMMA MatchStep ==
  ASSUME IInv, NEW i \in Creates, MatchMerchantOrder(i)
  PROVE  IInv'
<1> USE DEF IInv
<1> DEFINE S == {q \in orders : q.id = i /\ q.status = "pending"}
<1>1. orders' = {IF q \in S THEN [q EXCEPT !.status = "paid"] ELSE q : q \in orders}
  BY DEF MatchMerchantOrder
<1>2. /\ orders' \subseteq Order
      /\ \A p \in orders' : \E q \in orders :
           SameOrder(p, q) /\ IF q \in S THEN p.status = "paid" ELSE p = q
      /\ \A q \in orders : \E p \in orders' :
           SameOrder(p, q) /\ IF q \in S THEN p.status = "paid" ELSE p = q
  BY <1>1, StatusUpdate, ZenonT(30)
<1>3. /\ i \in settled
      /\ matched' = matched \cup {i}
      /\ UNCHANGED << create, refund, refunds, payments, minted, settled, payouts, faults >>
  BY DEF MatchMerchantOrder, node
<1>4. \A p1, p2 \in orders' : p1.id = p2.id => p1 = p2
  BY <1>1 DEF UniqueOrders, TypeOK, Order
<1>5. TypeOK'
  BY <1>2, <1>3 DEF TypeOK
<1>6. /\ InputsRead' /\ UniqueOrders' /\ OrdersInserted'
      /\ InvoicesGivenOut' /\ AnswersExist'
      /\ \A f \in Refunds : /\ RefundsOwnOrder(f) => RefundsOwnOrder(f)'
                            /\ OrderRefunded(f) => OrderRefunded(f)'
  BY <1>2, <1>3, <1>4, UpdateFrame
<1>7. ASSUME NEW f \in Refunds PROVE RefundInv(f)'
  <2>1. RefundInv(f)
    OBVIOUS
  <2>2. QED
    BY <1>3, <1>6, <2>1 DEF RefundInv
<1>8. PaidIffMatched'
  BY <1>2, <1>3 DEF PaidIffMatched, SameOrder
<1>9. RefundsAccounted'
  BY <1>2, <1>3 DEF RefundsAccounted, SameOrder
<1>10. QED
  BY <1>5, <1>6, <1>7, <1>8, <1>9

(* The payer on record of an invoice is set or erased; what a refund has   *)
(* read of it stays.                                                       *)
LEMMA ProjectPaymentStep ==
  ASSUME IInv, NEW i \in Creates, ProjectPaymentReceived(i)
  PROVE  IInv'
<1> USE DEF IInv, ProjectPaymentReceived, node
<1>1. TypeOK'
  BY DEF TypeOK
<1>2. InputsRead' /\ UniqueOrders' /\ OrdersInserted' /\ InvoicesGivenOut'
  BY DEF InputsRead, UniqueOrders, OrdersInserted, InvoicesGivenOut
<1>3. AnswersExist'
  BY DEF AnswersExist, AnsweredOrder
<1>4. ASSUME NEW f \in Refunds PROVE RefundInv(f)'
  <2>1. RefundInv(f)
    OBVIOUS
  <2>2. QED
    BY <2>1 DEF RefundInv, RefundsOwnOrder, OrderRefunded
<1>5. PaidIffMatched' /\ RefundsAccounted'
  BY DEF PaidIffMatched, RefundsAccounted
<1>6. QED
  BY <1>1, <1>2, <1>3, <1>4, <1>5
-----------------------------------------------------------------------------
(***************************************************************************)
(* Refund requests                                                         *)
(***************************************************************************)

(* Changing the place of one refund keeps its inputs and the others.       *)
LEMMA RefundGotoFacts ==
  ASSUME TypeOK, NEW f \in Refunds, NEW pc \in RefundPC, RefundGoto(f, pc)
  PROVE  /\ refund' \in [Refunds -> RefundState]
         /\ \A x \in Refunds : x # f => refund'[x] = refund[x]
         /\ refund'[f].pc = pc
         /\ refund'[f].merchant = refund[f].merchant
         /\ refund'[f].order = refund[f].order
         /\ refund'[f].payer = refund[f].payer
BY DEF TypeOK, RefundGoto, RefundState

(* A step of one refund request that changes neither the orders nor what   *)
(* the create requests and the payer did keeps the invariant if it keeps   *)
(* that of the request itself.                                             *)
LEMMA RefundMove ==
  ASSUME IInv, NEW f \in Refunds, refund' \in [Refunds -> RefundState],
         \A x \in Refunds : x # f => refund'[x] = refund[x],
         RefundInv(f)',
         refunds \subseteq refunds', refunds' \subseteq [id : Refunds, order : Creates],
         payouts \subseteq payouts', payouts' \subseteq payouts \cup {f},
         \A x \in refunds' : x.id \in payouts',
         faults' \in 0..MaxFaults,
         UNCHANGED << create, orders, projections, minted, settled >>
  PROVE  IInv'
<1> USE DEF IInv
<1>1. TypeOK'
  BY DEF TypeOK, projections
<1>2. InputsRead' /\ UniqueOrders' /\ OrdersInserted' /\ InvoicesGivenOut'
  BY DEF InputsRead, UniqueOrders, OrdersInserted, InvoicesGivenOut
<1>3. AnswersExist'
  BY DEF AnswersExist, AnsweredOrder
<1>4. ASSUME NEW x \in Refunds, x # f PROVE RefundInv(x)'
  <2>1. RefundInv(x)
    OBVIOUS
  <2>2. refund'[x] = refund[x] /\ (x \in payouts' <=> x \in payouts)
    BY <1>4
  <2>3. /\ RefundsOwnOrder(x) => RefundsOwnOrder(x)'
        /\ OrderRefunded(x) => OrderRefunded(x)'
    BY <2>2 DEF RefundsOwnOrder, OrderRefunded
  <2>4. QED
    BY <2>1, <2>2, <2>3 DEF RefundInv, projections
<1>5. PaidIffMatched' /\ RefundsAccounted'
  BY DEF PaidIffMatched, RefundsAccounted, projections
<1>6. QED
  BY <1>1, <1>2, <1>3, <1>4, <1>5

(* A refund request arrives.                                               *)
LEMMA RefundBeginStep ==
  ASSUME IInv, NEW f \in Refunds, RefundBegin(f)
  PROVE  IInv'
<1>1. PICK m \in Merchants, o \in Creates :
        refund' = [refund EXCEPT ![f].pc = "check", ![f].merchant = m, ![f].order = o]
  BY DEF RefundBegin
<1>2. refund[f] \in RefundState
  BY DEF IInv, TypeOK
<1>3. [refund[f] EXCEPT !.pc = "check", !.merchant = m, !.order = o] \in RefundState
  BY <1>2 DEF RefundState, RefundPC
<1>4. /\ refund' \in [Refunds -> RefundState]
      /\ \A x \in Refunds : x # f => refund'[x] = refund[x]
      /\ refund'[f].pc = "check"
  BY <1>1, <1>2, <1>3 DEF IInv, TypeOK, RefundState
<1>5. f \notin payouts
  BY DEF RefundBegin, IInv, RefundInv
<1>6. RefundInv(f)'
  BY <1>4, <1>5 DEF RefundInv, RefundBegin, node
<1>7. QED
  BY <1>4, <1>6, RefundMove DEF RefundBegin, node, IInv, TypeOK, RefundsAccounted

(* The steps that neither read, send nor record: check and abort.          *)
LEMMA RefundGotoStep ==
  ASSUME IInv, NEW f \in Refunds, NEW pc \in {"payer", "error"}, RefundGoto(f, pc),
         refund[f].pc # "idle",
         pc = "payer" => RefundsOwnOrder(f),
         faults' \in 0..MaxFaults,
         UNCHANGED << create, orders, refunds, projections, node >>
  PROVE  IInv'
<1>1. pc \in RefundPC /\ TypeOK /\ RefundInv(f)
  BY DEF RefundPC, IInv
<1>2. /\ refund' \in [Refunds -> RefundState]
      /\ \A x \in Refunds : x # f => refund'[x] = refund[x]
      /\ refund'[f].pc = pc
      /\ refund'[f].merchant = refund[f].merchant
      /\ refund'[f].order = refund[f].order
      /\ refund'[f].payer = refund[f].payer
  BY <1>1, RefundGotoFacts
<1>3. RefundsOwnOrder(f) => RefundsOwnOrder(f)'
  BY <1>2 DEF RefundsOwnOrder
<1>4. RefundInv(f)'
  BY <1>1, <1>2, <1>3 DEF RefundInv, projections, node
<1>5. QED
  BY <1>2, <1>4, RefundMove DEF node, IInv, TypeOK, RefundsAccounted

(* RefundCheck finds the merchant's own order, paid.                       *)
LEMMA RefundCheckStep ==
  ASSUME IInv, NEW f \in Refunds, RefundCheck(f)
  PROVE  IInv'
<1>1. CASE RefundGoto(f, "error")
  BY <1>1, RefundGotoStep DEF RefundCheck, IInv, TypeOK
<1>2. CASE /\ \E q \in GetOrder(refund[f].merchant, refund[f].order) : q.status = "paid"
           /\ RefundGoto(f, "payer")
  <2>1. RefundsOwnOrder(f)
    BY <1>2 DEF GetOrder, RefundsOwnOrder
  <2>2. QED
    BY <1>2, <2>1, RefundGotoStep DEF RefundCheck, IInv, TypeOK
<1>3. QED
  BY <1>1, <1>2 DEF RefundCheck

(* RefundPayer goes on only with the payer of its order's invoice.         *)
LEMMA RefundPayerStep ==
  ASSUME IInv, NEW f \in Refunds, RefundPayer(f)
  PROVE  IInv'
<1>1. /\ TypeOK /\ RefundInv(f) /\ refund[f].pc = "payer" /\ RefundsOwnOrder(f)
      /\ faults' \in 0..MaxFaults
      /\ UNCHANGED << create, orders, refunds, projections, node >>
  BY DEF RefundPayer, IInv, RefundInv, TypeOK
<1>2. CASE RefundGoto(f, "error")
  BY <1>1, <1>2, RefundGotoStep
<1>3. ASSUME NEW p \in PayerPubkey(refund[f].order),
             refund' = [refund EXCEPT ![f].pc = "send", ![f].payer = p]
      PROVE  IInv'
  <2>1. p = refund[f].order /\ p \in Creates
    BY <1>1 DEF PayerPubkey, TypeOK
  <2>2. refund[f] \in RefundState
    BY <1>1 DEF TypeOK
  <2>3. [refund[f] EXCEPT !.pc = "send", !.payer = p] \in RefundState
    BY <2>1, <2>2 DEF RefundState, RefundPC
  <2>4. /\ refund' \in [Refunds -> RefundState]
        /\ \A x \in Refunds : x # f => refund'[x] = refund[x]
        /\ refund'[f].pc = "send"
        /\ refund'[f].merchant = refund[f].merchant
        /\ refund'[f].order = refund[f].order
        /\ refund'[f].payer = refund'[f].order
    BY <1>1, <1>3, <2>1, <2>2, <2>3 DEF TypeOK, RefundState
  <2>5. RefundsOwnOrder(f)'
    BY <1>1, <2>4 DEF RefundsOwnOrder
  <2>6. RefundInv(f)'
    BY <1>1, <2>4, <2>5 DEF RefundInv, node
  <2>7. QED
    BY <1>1, <2>4, <2>6, RefundMove DEF node, IInv, TypeOK, RefundsAccounted
<1>4. QED
  BY <1>2, <1>3 DEF RefundPayer

(* A request may end after any of its statements.                          *)
LEMMA RefundAbortStep ==
  ASSUME IInv, NEW f \in Refunds, RefundAbort(f)
  PROVE  IInv'
<1>1. faults' \in 0..MaxFaults
  BY MerchantAssumption DEF RefundAbort, IInv, TypeOK
<1>2. QED
  BY <1>1, RefundGotoStep DEF RefundAbort

(* Money leaves, or may have left although the call failed.                *)
LEMMA SendPaymentStep ==
  ASSUME IInv, NEW f \in Refunds, SendPayment(f)
  PROVE  IInv'
<1>1. /\ TypeOK /\ RefundInv(f) /\ refund[f].pc = "send"
      /\ RefundsOwnOrder(f) /\ refund[f].payer = refund[f].order
  BY DEF SendPayment, IInv, RefundInv
<1>2. PICK pc \in {"insert", "senderror"} :
        RefundGoto(f, pc) /\ (pc = "insert" => f \in payouts')
  BY DEF SendPayment
<1>3. pc \in RefundPC
  BY DEF RefundPC
<1>4. /\ refund' \in [Refunds -> RefundState]
      /\ \A x \in Refunds : x # f => refund'[x] = refund[x]
      /\ refund'[f].pc = pc
      /\ refund'[f].merchant = refund[f].merchant
      /\ refund'[f].order = refund[f].order
      /\ refund'[f].payer = refund[f].payer
  BY <1>1, <1>2, <1>3, RefundGotoFacts
<1>5. /\ payouts \subseteq payouts' /\ payouts' \subseteq payouts \cup {f}
      /\ UNCHANGED << create, orders, refunds, projections, minted, settled >>
  BY DEF SendPayment
<1>6. faults' \in 0..MaxFaults
  BY MerchantAssumption DEF SendPayment, IInv, TypeOK
<1>7. RefundsOwnOrder(f)'
  BY <1>1, <1>4, <1>5 DEF RefundsOwnOrder
<1>8. RefundInv(f)'
  BY <1>1, <1>2, <1>4, <1>5, <1>7 DEF RefundInv, projections
<1>9. \A x \in refunds' : x.id \in payouts'
  BY <1>5 DEF IInv, RefundsAccounted
<1>10. QED
  BY <1>4, <1>5, <1>6, <1>8, <1>9, RefundMove DEF IInv, TypeOK

(* The row is inserted for a keysend the node has accepted.                *)
LEMMA InsertRefundStep ==
  ASSUME IInv, NEW f \in Refunds, InsertRefund(f)
  PROVE  IInv'
<1>1. /\ TypeOK /\ RefundInv(f) /\ refund[f].pc = "insert" /\ f \in payouts
      /\ RefundsOwnOrder(f) /\ refund[f].payer = refund[f].order
  BY DEF InsertRefund, IInv, RefundInv
<1>2. "update" \in RefundPC /\ RefundGoto(f, "update")
  BY DEF RefundPC, InsertRefund
<1>3. /\ refund' \in [Refunds -> RefundState]
      /\ \A x \in Refunds : x # f => refund'[x] = refund[x]
      /\ refund'[f].pc = "update"
      /\ refund'[f].merchant = refund[f].merchant
      /\ refund'[f].order = refund[f].order
      /\ refund'[f].payer = refund[f].payer
  BY <1>1, <1>2, RefundGotoFacts
<1>4. /\ refunds' = refunds \cup {[id |-> f, order |-> refund[f].order]}
      /\ UNCHANGED << create, orders, projections, minted, settled, payouts, faults >>
  BY DEF InsertRefund, node
<1>5. refund[f].order \in Creates
  BY <1>1 DEF RefundsOwnOrder, TypeOK, Order
<1>6. RefundsOwnOrder(f)'
  BY <1>1, <1>3, <1>4 DEF RefundsOwnOrder
<1>7. RefundInv(f)'
  <2>1. [id |-> f, order |-> refund[f].order] \in refunds'
    BY <1>4
  <2>2. \E x \in refunds' : x.order = refund'[f].order
    BY <1>3, <2>1
  <2>3. QED
    BY <1>1, <1>3, <1>4, <1>6, <2>2 DEF RefundInv, projections
<1>8. \A x \in refunds' : x.id \in payouts'
  BY <1>1, <1>4 DEF IInv, RefundsAccounted
<1>9. refunds' \subseteq [id : Refunds, order : Creates]
  BY <1>1, <1>4, <1>5 DEF TypeOK
<1>10. QED
  BY <1>3, <1>4, <1>7, <1>8, <1>9, RefundMove DEF IInv, TypeOK

(* The order becomes refunded: it was paid, and the refund is recorded.    *)
LEMMA MarkRefundedStep ==
  ASSUME IInv, NEW f \in Refunds, MarkRefunded(f)
  PROVE  IInv'
<1> USE DEF IInv
<1> DEFINE S == {q \in orders : q.id = refund[f].order}
<1>1. /\ TypeOK /\ RefundInv(f) /\ refund[f].pc = "update" /\ RefundsOwnOrder(f)
      /\ \E x \in refunds : x.order = refund[f].order
  BY DEF MarkRefunded, RefundInv
<1>2. orders' = {IF q \in S THEN [q EXCEPT !.status = "refunded"] ELSE q : q \in orders}
  BY DEF MarkRefunded
<1>3. /\ orders' \subseteq Order
      /\ \A p \in orders' : \E q \in orders :
           SameOrder(p, q) /\ IF q \in S THEN p.status = "refunded" ELSE p = q
      /\ \A q \in orders : \E p \in orders' :
           SameOrder(p, q) /\ IF q \in S THEN p.status = "refunded" ELSE p = q
  BY <1>2, StatusUpdate, ZenonT(30)
<1>4. \A p1, p2 \in orders' : p1.id = p2.id => p1 = p2
  BY <1>2 DEF UniqueOrders, TypeOK, Order
<1>5. "done" \in RefundPC /\ RefundGoto(f, "done")
  BY DEF RefundPC, MarkRefunded
<1>6. /\ refund' \in [Refunds -> RefundState]
      /\ \A x \in Refunds : x # f => refund'[x] = refund[x]
      /\ refund'[f].pc = "done"
      /\ refund'[f].merchant = refund[f].merchant
      /\ refund'[f].order = refund[f].order
      /\ refund'[f].payer = refund[f].payer
  BY <1>5, RefundGotoFacts
<1>7. UNCHANGED << create, refunds, payments, matched, minted, settled, payouts, faults >>
  BY DEF MarkRefunded, node, projections
<1>8. TypeOK'
  BY <1>3, <1>6, <1>7 DEF TypeOK
<1>9. /\ InputsRead' /\ UniqueOrders' /\ OrdersInserted'
      /\ InvoicesGivenOut' /\ AnswersExist'
      /\ \A x \in Refunds : /\ RefundsOwnOrder(x) => RefundsOwnOrder(x)'
                            /\ OrderRefunded(x) => OrderRefunded(x)'
  BY <1>3, <1>4, <1>6, <1>7, UpdateFrame
<1>10. ASSUME NEW x \in Refunds PROVE RefundInv(x)'
  <2>1. /\ RefundInv(x)
        /\ RefundsOwnOrder(x) => RefundsOwnOrder(x)'
        /\ OrderRefunded(x) => OrderRefunded(x)'
    BY <1>9
  <2>2. CASE x # f
    BY <1>6, <1>7, <2>1, <2>2 DEF RefundInv
  <2>3. CASE x = f
    <3>1. OrderRefunded(f)'
      BY <1>1, <1>3, <1>6 DEF RefundsOwnOrder, OrderRefunded, SameOrder
    <3>2. QED
      BY <1>1, <1>6, <1>7, <2>1, <2>3, <3>1 DEF RefundInv
  <2>4. QED
    BY <2>2, <2>3
<1>11. refund[f].order \in matched
  BY <1>1 DEF RefundsOwnOrder, PaidIffMatched
<1>12. PaidIffMatched'
  BY <1>3, <1>7, <1>11 DEF PaidIffMatched, SameOrder
<1>13. RefundsAccounted'
  BY <1>1, <1>3, <1>7 DEF RefundsAccounted, SameOrder
<1>14. QED
  BY <1>8, <1>9, <1>10, <1>12, <1>13
-----------------------------------------------------------------------------
(***************************************************************************)
(* The theorems                                                            *)
(***************************************************************************)

(* The invariant is inductive: one step per action.                        *)
LEMMA NextInv == IInv /\ [Next]_vars => IInv'
<1> SUFFICES ASSUME IInv, [Next]_vars PROVE IInv'
  OBVIOUS
<1>1. ASSUME NEW r \in Creates, CreateStep(r) PROVE IInv'
  BY <1>1, CreateBeginStep, CreateLookupStep, NewInvoiceStep, InsertOrderStep,
     CreateRereadStep, CreateGetStep, CreateAbortStep DEF CreateStep
<1>2. ASSUME NEW f \in Refunds, RefundStep(f) PROVE IInv'
  BY <1>2, RefundBeginStep, RefundCheckStep, RefundPayerStep, SendPaymentStep,
     InsertRefundStep, MarkRefundedStep, RefundAbortStep DEF RefundStep
<1>3. ASSUME NEW i \in Creates, Pay(i) \/ MatchMerchantOrder(i) \/ ProjectPaymentReceived(i)
      PROVE  IInv'
  BY <1>3, PayStep, MatchStep, ProjectPaymentStep
<1>4. CASE UNCHANGED vars
  <2> USE <1>4 DEF IInv, vars
  <2>1. TypeOK' /\ InputsRead' /\ UniqueOrders' /\ OrdersInserted' /\ InvoicesGivenOut'
    BY DEF TypeOK, InputsRead, UniqueOrders, OrdersInserted, InvoicesGivenOut
  <2>2. AnswersExist' /\ PaidIffMatched' /\ RefundsAccounted'
    BY DEF AnswersExist, AnsweredOrder, PaidIffMatched, RefundsAccounted
  <2>3. ASSUME NEW f \in Refunds PROVE RefundInv(f)'
    <3>1. RefundInv(f)
      OBVIOUS
    <3>2. QED
      BY <3>1 DEF RefundInv, RefundsOwnOrder, OrderRefunded
  <2>4. QED
    BY <2>1, <2>2, <2>3
<1>5. QED
  BY <1>1, <1>2, <1>3, <1>4 DEF Next

(* The inductive invariant holds in every reachable state, however many    *)
(* create and refund requests, payments and replays interleave.            *)
THEOREM MerchantInvariant == Spec => []IInv
<1>1. Init => IInv
  BY InitInv
<1>2. IInv /\ [Next]_vars => IInv'
  BY NextInv
<1>3. QED
  BY <1>1, <1>2, PTL DEF Spec

(* Type correctness.  It is not inductive alone: that a refunds row names  *)
(* an order rests on what RefundCheck found.                               *)
THEOREM TypeCorrect == Spec => []TypeOK
<1>1. IInv => TypeOK
  BY DEF IInv
<1>2. QED
  BY <1>1, MerchantInvariant, PTL

(* Idempotent creation: requests with the same external id are answered    *)
(* with the same order, however lookups, inserts and re-reads interleave.  *)
THEOREM CreateIdempotent == Spec => []ResponsesAgree
<1>1. IInv => ResponsesAgree
  <2> SUFFICES ASSUME IInv, NEW r1 \in Answered, NEW r2 \in Answered,
                      create[r1].merchant = create[r2].merchant,
                      create[r1].ext = create[r2].ext,
                      create[r1].ext # NoExt
               PROVE  create[r1].order = create[r2].order
    BY DEF ResponsesAgree
  <2>1. AnsweredOrder(r1) /\ AnsweredOrder(r2)
    BY DEF Answered, IInv, AnswersExist
  <2>2. PICK q1 \in orders : /\ q1.id = create[r1].order
                             /\ q1.merchant = create[r1].merchant
                             /\ q1.ext = create[r1].ext
    BY <2>1 DEF AnsweredOrder
  <2>3. PICK q2 \in orders : /\ q2.id = create[r2].order
                             /\ q2.merchant = create[r2].merchant
                             /\ q2.ext = create[r2].ext
    BY <2>1 DEF AnsweredOrder
  <2>4. q1 = q2
    BY <2>2, <2>3 DEF IInv, UniqueOrders
  <2>5. QED
    BY <2>2, <2>3, <2>4
<1>2. QED
  BY <1>1, MerchantInvariant, PTL

(* An order is paid or refunded exactly if its own invoice.paid has been   *)
(* applied.  The indexer's UPDATE comes too early for no order: the        *)
(* invoice is given out only after the order has been inserted.            *)
THEOREM MatchIsExact == Spec => []PaidIffMatched
<1>1. IInv => PaidIffMatched
  BY DEF IInv
<1>2. QED
  BY <1>1, MerchantInvariant, PTL

(* A refunds row stands for a payout, and a refunded order has a row.      *)
THEOREM RefundsRecorded == Spec => []RefundsAccounted
<1>1. IInv => RefundsAccounted
  BY DEF IInv
<1>2. QED
  BY <1>1, MerchantInvariant, PTL

(* Money leaves only for a paid order of the asking merchant, to the payer *)
(* of its invoice, also when the outcome of the call is unknown and when   *)
(* the payer on record is erased after it was read.                        *)
THEOREM PayoutsJustified == Spec => []PayoutsOwed
<1>1. IInv => PayoutsOwed
  <2> SUFFICES ASSUME IInv, NEW f \in payouts
               PROVE  /\ refund[f].order \in settled
                      /\ refund[f].payer = refund[f].order
                      /\ \E q \in orders : /\ q.id = refund[f].order
                                            /\ q.merchant = refund[f].merchant
    BY DEF PayoutsOwed
  <2>1. f \in Refunds /\ RefundInv(f)
    BY DEF IInv, TypeOK
  <2>2. RefundsOwnOrder(f) /\ refund[f].payer = refund[f].order
    BY <2>1 DEF RefundInv
  <2>3. QED
    BY <2>2 DEF RefundsOwnOrder, IInv, PaidIffMatched, TypeOK
<1>2. QED
  BY <1>1, MerchantInvariant, PTL

(* The row of a refunded order is left alone by every step.                *)
LEMMA RefundedStep ==
  ASSUME IInv, [Next]_vars, NEW q \in orders, q.status = "refunded"
  PROVE  q \in orders'
<1>1. ASSUME NEW i \in Creates, MatchMerchantOrder(i) PROVE q \in orders'
  BY <1>1 DEF MatchMerchantOrder
<1>2. ASSUME NEW f \in Refunds, MarkRefunded(f) PROVE q \in orders'
  <2>1. q \in Order
    BY DEF IInv, TypeOK
  <2>2. [q EXCEPT !.status = "refunded"] = q
    BY <2>1 DEF Order
  <2>3. QED
    BY <1>2, <2>2 DEF MarkRefunded
<1>3. ASSUME NEW r \in Creates, InsertOrder(r) PROVE q \in orders'
  BY <1>3 DEF InsertOrder
<1>4. ASSUME NEW r \in Creates, CreateStep(r), ~InsertOrder(r) PROVE orders' = orders
  BY <1>4 DEF CreateStep, CreateBegin, CreateLookup, NewInvoice, CreateReread, CreateGet,
              CreateAbort
<1>5. ASSUME NEW f \in Refunds, RefundStep(f), ~MarkRefunded(f) PROVE orders' = orders
  BY <1>5 DEF RefundStep, RefundBegin, RefundCheck, RefundPayer, SendPayment, InsertRefund,
              RefundAbort
<1>6. ASSUME NEW i \in Creates, Pay(i) \/ ProjectPaymentReceived(i) PROVE orders' = orders
  BY <1>6 DEF Pay, ProjectPaymentReceived
<1>7. CASE UNCHANGED vars
  BY <1>7 DEF vars
<1>8. QED
  BY <1>1, <1>2, <1>3, <1>4, <1>5, <1>6, <1>7 DEF Next

(* A refunded order stays refunded: no replayed invoice.paid and no second *)
(* refund changes its row.                                                 *)
THEOREM RefundedStays == Spec => RefundedIsFinal
<1>1. IInv /\ [Next]_vars =>
        [\A q \in orders : q.status = "refunded" => q \in orders']_vars
  BY RefundedStep
<1>2. QED
  BY <1>1, MerchantInvariant, PTL DEF Spec, RefundedIsFinal
(* A request goes from the check to the payer only through RefundCheck,    *)
(* which has found the order paid; an order has one row, so it is not one  *)
(* that an answered refund has left refunded.                              *)
LEMMA CheckFindsPaid ==
  ASSUME IInv, [Next]_vars, NEW f \in Refunds, NEW g \in Refunds,
         refund[f].pc = "done", refund[g].order = refund[f].order,
         refund[g].pc = "check", refund'[g].pc = "payer"
  PROVE  FALSE
<1>1. refund' # refund
  OBVIOUS
<1>2. PICK h \in Refunds : RefundStep(h)
  <2>1. ASSUME NEW r \in Creates, CreateStep(r) PROVE refund' = refund
    BY <2>1 DEF CreateStep, CreateBegin, CreateLookup, NewInvoice, InsertOrder,
                CreateReread, CreateGet, CreateAbort
  <2>2. ASSUME NEW i \in Creates,
               Pay(i) \/ MatchMerchantOrder(i) \/ ProjectPaymentReceived(i)
        PROVE  refund' = refund
    BY <2>2 DEF Pay, MatchMerchantOrder, ProjectPaymentReceived
  <2>3. QED
    BY <1>1, <2>1, <2>2 DEF Next, vars
<1>3. h = g
  <2>1. \A x \in Refunds : x # h => refund'[x] = refund[x]
    BY <1>2 DEF RefundStep, RefundBegin, RefundCheck, RefundPayer, SendPayment,
                InsertRefund, MarkRefunded, RefundAbort, RefundGoto, IInv, TypeOK
  <2>2. QED
    BY <2>1
<1>4. RefundCheck(g)
  BY <1>2, <1>3 DEF RefundStep, RefundBegin, RefundPayer, SendPayment, InsertRefund,
                    MarkRefunded, RefundAbort
<1>5. \E q \in orders : q.id = refund[g].order /\ q.status = "paid"
  <2>1. ASSUME RefundGoto(g, "error") PROVE FALSE
    BY <2>1 DEF RefundGoto, IInv, TypeOK, RefundState
  <2>2. QED
    BY <1>4, <2>1 DEF RefundCheck, GetOrder
<1>6. \E q \in orders : q.id = refund[f].order /\ q.status = "refunded"
  BY DEF IInv, RefundInv, OrderRefunded
<1>7. QED
  BY <1>5, <1>6 DEF IInv, UniqueOrders

(* An order whose refund has been answered is not refunded by a request    *)
(* that looks at it later, whatever invoice.paid is replayed meanwhile.    *)
THEOREM RefundNotRepeated == Spec => RefundAnsweredOnce
<1>1. IInv /\ [Next]_vars =>
        [\A f, g \in Refunds :
           (/\ refund[f].pc = "done"
            /\ refund[g].order = refund[f].order
            /\ refund[g].pc = "check") => refund'[g].pc # "payer"]_vars
  BY CheckFindsPaid
<1>2. QED
  BY <1>1, MerchantInvariant, PTL DEF Spec, RefundAnsweredOnce
=============================================================================
