---------------------------- MODULE IndexerProofs ---------------------------
(***************************************************************************)
(* Proofs about webhook subscriptions with their test requests, and about  *)
(* the indexer, which reads the subscriptions, for any streams, endpoints, *)
(* event types, requests and faults.                                       *)
(***************************************************************************)
EXTENDS Indexer, TLAPS

(***************************************************************************)
(* Subscriptions                                                           *)
(***************************************************************************)

(* The endpoint a row refers to exists and has the secret s.               *)
Signs(u, s) == u \in Urls /\ endpoint[u] # Nil /\ s = endpoint[u].secret

(* What is known of a test request: until it is answered it holds the      *)
(* secret of an existing endpoint, its event row is written before its     *)
(* delivery row, and the delivery is signed with the secret it holds.      *)
TestInv(t) ==
  /\ test[t].pc \in {"event", "delivery", "done"} => Signs(test[t].url, test[t].secret)
  /\ test[t].pc \in {"delivery", "done"} => t \in testEvents
  /\ testDlvs[t] # Nil => test[t].pc = "done" /\ testDlvs[t] = test[t].secret

TestsInv == \A t \in Tests : TestInv(t)

SubInv == SubTypeOK /\ TestsInv

(* No endpoint row disappears, and none changes its secret.                *)
SecretsKept ==
  \A u \in Urls : endpoint[u] # Nil =>
    endpoint'[u] # Nil /\ endpoint'[u].secret = endpoint[u].secret

-----------------------------------------------------------------------------
(* Initially there are no endpoints and no requests.                       *)
LEMMA SubInitInv == SubInit => SubInv
<1> SUFFICES ASSUME SubInit PROVE SubInv
  OBVIOUS
<1>1. SubTypeOK
  BY SubscriptionsAssumption DEF SubInit, SubTypeOK, TestState
<1>2. TestsInv
  BY DEF SubInit, TestsInv, TestInv
<1>3. QED
  BY <1>1, <1>2 DEF SubInv

(* A step that keeps the secrets and the test requests keeps what is known *)
(* of them.                                                                *)
LEMMA TestFrame ==
  ASSUME SubInv, SecretsKept, UNCHANGED << test, testEvents, testDlvs >>
  PROVE  TestsInv'
BY DEF SubInv, TestsInv, TestInv, Signs, SecretsKept

(* The upsert: an existing row keeps its secret, whatever its types and    *)
(* its response say.                                                       *)
LEMMA CreateStep ==
  ASSUME SubInv, NEW u \in Urls, NEW types \in SUBSET Types, Create(u, types)
  PROVE  SubInv' /\ SecretsKept
<1> DEFINE row == [types |-> types, active |-> TRUE,
                   secret |-> IF endpoint[u] = Nil THEN creates + 1 ELSE endpoint[u].secret]
<1>0. creates \in Nat /\ creates' \in 0..MaxCreates
  BY SubscriptionsAssumption DEF SubInv, SubTypeOK, Create
<1>1. row \in Endpoint
  <2>1. endpoint[u] # Nil => endpoint[u].secret \in Nat
    BY DEF SubInv, SubTypeOK, Endpoint
  <2>2. (IF endpoint[u] = Nil THEN creates + 1 ELSE endpoint[u].secret) \in Nat
    BY <1>0, <2>1
  <2>3. types \in (SUBSET Types) \ {{}}
    BY DEF Create
  <2>4. QED
    BY <2>2, <2>3 DEF Endpoint
<1>2. endpoint' = [endpoint EXCEPT ![u] = row]
  BY DEF Create
<1>3. SubTypeOK'
  <2>1. endpoint' \in [Urls -> Endpoint \cup {Nil}]
    BY <1>1, <1>2 DEF SubInv, SubTypeOK
  <2>2. told' \in [Urls -> Nat \cup {Nil}]
    BY <1>0 DEF SubInv, SubTypeOK, Create
  <2>3. QED
    BY <1>0, <2>1, <2>2 DEF SubInv, SubTypeOK, Create
<1>4. SecretsKept
  BY <1>1, <1>2, SubscriptionsAssumption DEF SubInv, SubTypeOK, SecretsKept
<1>5. TestsInv'
  BY <1>4, TestFrame DEF Create
<1>6. QED
  BY <1>3, <1>4, <1>5 DEF SubInv

(* The soft delete keeps the row.                                          *)
LEMMA RemoveStep ==
  ASSUME SubInv, NEW u \in Urls, Remove(u)
  PROVE  SubInv' /\ SecretsKept
<1>1. endpoint[u] \in Endpoint
  BY DEF SubInv, SubTypeOK, Remove
<1>2. /\ [endpoint[u] EXCEPT !.active = FALSE] \in Endpoint
      /\ [endpoint[u] EXCEPT !.active = FALSE].secret = endpoint[u].secret
  BY <1>1 DEF Endpoint
<1>3. endpoint' = [endpoint EXCEPT ![u] = [endpoint[u] EXCEPT !.active = FALSE]]
  BY DEF Remove, SubInv, SubTypeOK
<1>4. SubTypeOK'
  BY <1>2, <1>3 DEF SubInv, SubTypeOK, Remove
<1>5. SecretsKept
  BY <1>2, <1>3, SubscriptionsAssumption DEF SubInv, SubTypeOK, SecretsKept
<1>6. TestsInv'
  BY <1>5, TestFrame DEF Remove
<1>7. QED
  BY <1>4, <1>5, <1>6 DEF SubInv

(* The steps of a test request leave the endpoints alone.                  *)
TestStepOf(t) ==
  \/ \E u \in Urls : TestSelect(t, u)
  \/ TestEvent(t) \/ TestDelivery(t) \/ TestAbort(t)

(* Changing the place of a test request keeps what it has read.            *)
LEMMA TestGoto ==
  ASSUME SubTypeOK, NEW t \in Tests, NEW pc \in {"idle", "event", "delivery", "done", "error"},
         test' = [test EXCEPT ![t].pc = pc]
  PROVE  /\ test' \in [Tests -> TestState]
         /\ \A x \in Tests : x # t => test'[x] = test[x]
         /\ test'[t].pc = pc
         /\ test'[t].url = test[t].url
         /\ test'[t].secret = test[t].secret
BY DEF SubTypeOK, TestState

(* The three statements of a test request, and its early end.              *)
LEMMA TestStepInv ==
  ASSUME SubInv, NEW t \in Tests, TestStepOf(t)
  PROVE  SubInv' /\ UNCHANGED endpoint
<1> USE DEF SubInv
<1>0. endpoint' = endpoint /\ TestInv(t)
  BY DEF TestStepOf, TestSelect, TestEvent, TestDelivery, TestAbort, TestsInv
<1>1. ASSUME \A x \in Tests : x # t => test'[x] = test[x] /\ testDlvs'[x] = testDlvs[x],
             testEvents \subseteq testEvents', TestInv(t)'
      PROVE  TestsInv'
  <2> SUFFICES ASSUME NEW x \in Tests PROVE TestInv(x)'
    BY DEF TestsInv
  <2>1. CASE x # t
    <3>1. TestInv(x)
      BY DEF TestsInv
    <3>2. QED
      BY <1>0, <1>1, <2>1, <3>1 DEF TestInv, Signs
  <2>2. QED
    BY <1>1, <2>1
<1>2. ASSUME NEW u \in Urls, TestSelect(t, u) PROVE SubInv'
  <2> DEFINE s == IF Active(u)
                  THEN [pc |-> "event", url |-> u, secret |-> endpoint[u].secret]
                  ELSE [pc |-> "error", url |-> u, secret |-> Nil]
  <2>1. test' = [test EXCEPT ![t] = s]
    BY <1>2 DEF TestSelect
  <2>2. Active(u) => endpoint[u] # Nil /\ endpoint[u].secret \in Nat
    BY DEF Active, SubTypeOK, Endpoint
  <2>3. s \in TestState
    BY <2>2 DEF TestState
  <2>4. SubTypeOK'
    BY <1>2, <2>1, <2>3 DEF SubTypeOK, TestSelect
  <2>5. test'[t] = s /\ \A x \in Tests : x # t => test'[x] = test[x]
    BY <2>1 DEF SubTypeOK
  <2>6. testDlvs[t] = Nil
    BY <1>0, <1>2 DEF TestInv, TestSelect
  <2>7. TestInv(t)'
    BY <1>0, <1>2, <2>2, <2>5, <2>6 DEF TestInv, Signs, TestSelect
  <2>8. QED
    BY <1>1, <1>2, <2>4, <2>5, <2>7 DEF TestSelect
<1>3. CASE TestEvent(t)
  <2>1. /\ test' \in [Tests -> TestState] /\ test'[t].pc = "delivery"
        /\ \A x \in Tests : x # t => test'[x] = test[x]
        /\ test'[t].url = test[t].url /\ test'[t].secret = test[t].secret
    BY <1>3, TestGoto DEF TestEvent
  <2>2. SubTypeOK'
    BY <1>3, <2>1 DEF SubTypeOK, TestEvent
  <2>3. TestInv(t)'
    BY <1>0, <1>3, <2>1 DEF TestInv, Signs, TestEvent
  <2>4. QED
    BY <1>1, <1>3, <2>1, <2>2, <2>3 DEF TestEvent
<1>4. CASE TestDelivery(t)
  <2>1. /\ test' \in [Tests -> TestState] /\ test'[t].pc = "done"
        /\ \A x \in Tests : x # t => test'[x] = test[x]
        /\ test'[t].url = test[t].url /\ test'[t].secret = test[t].secret
    BY <1>4, TestGoto DEF TestDelivery
  <2>2. /\ testDlvs' \in [Tests -> Nat \cup {Nil}] /\ testDlvs'[t] = test[t].secret
        /\ \A x \in Tests : x # t => testDlvs'[x] = testDlvs[x]
    BY <1>4 DEF TestDelivery, SubTypeOK, TestState
  <2>3. SubTypeOK'
    BY <1>4, <2>1, <2>2 DEF SubTypeOK, TestDelivery
  <2>4. TestInv(t)'
    BY <1>0, <1>4, <2>1, <2>2 DEF TestInv, Signs, TestDelivery
  <2>5. QED
    BY <1>1, <1>4, <2>1, <2>2, <2>3, <2>4 DEF TestDelivery
<1>5. CASE TestAbort(t)
  <2>1. /\ test' \in [Tests -> TestState] /\ test'[t].pc = "error"
        /\ \A x \in Tests : x # t => test'[x] = test[x]
    BY <1>5, TestGoto DEF TestAbort
  <2>2. SubTypeOK'
    BY <1>5, <2>1 DEF SubTypeOK, TestAbort
  <2>3. TestInv(t)'
    BY <1>0, <1>5, <2>1 DEF TestInv, TestAbort
  <2>4. QED
    BY <1>1, <1>5, <2>1, <2>2, <2>3 DEF TestAbort
<1>6. QED
  BY <1>0, <1>2, <1>3, <1>4, <1>5 DEF TestStepOf

(* A step that changes nothing of the subscriptions.                       *)
LEMMA SubUnchanged ==
  ASSUME SubInv, UNCHANGED subVars
  PROVE  SubInv' /\ UNCHANGED endpoint
BY DEF SubInv, SubTypeOK, TestsInv, TestInv, Signs, subVars

(* The inductive invariant of the subscriptions by themselves.             *)
THEOREM SubscriptionsInvariant == SubSpec => []SubInv
<1>1. SubInit => SubInv
  BY SubInitInv
<1>2. SubInv /\ [SubNext]_subVars => SubInv'
  BY CreateStep, RemoveStep, TestStepInv, SubUnchanged DEF SubNext, TestStepOf
<1>3. QED
  BY <1>1, <1>2, PTL DEF SubSpec

(* What the invariant says of a queued test delivery.                      *)
LEMMA TestsAreBacked == SubInv => TestDeliveryBacked
BY DEF SubInv, TestsInv, TestInv, Signs, TestDeliveryBacked

(* A queued test delivery has its event and its endpoint, and is signed    *)
(* with the endpoint's secret, whatever happens between the statements of  *)
(* the request.                                                            *)
THEOREM TestDeliveriesBacked == SubSpec => []TestDeliveryBacked
<1>1. SubInv => TestDeliveryBacked
  BY TestsAreBacked
<1>2. QED
  BY <1>1, SubscriptionsInvariant, PTL

-----------------------------------------------------------------------------
(***************************************************************************)
(* The indexer: the inductive invariant                                    *)
(***************************************************************************)

(* The tables the indexer writes: a record of exactly these fields.        *)
IsDb(d) ==
  d = [events |-> d.events, payments |-> d.payments, invoices |-> d.invoices,
       channels |-> d.channels, deliveries |-> d.deliveries,
       checkpoint |-> d.checkpoint]

(* The keys of the events of a type that tables d hold.                    *)
KeysIn(d, type) ==
  {e.key : e \in {x \in StreamEvents : x.type = type /\ x.id \in Ids(d.events)}}

(* Tables that some number of whole events has produced: of every event    *)
(* either all of its rows are there or none, and the deliveries are those  *)
(* of existing endpoints.  It holds of the committed tables and of what an *)
(* open transaction sees.                                                  *)
Whole(d) ==
  /\ IsDb(d)
  /\ \A x \in d.events : x.seq \in 1..Len(stream) /\ \E e \in StreamEvents : x.id = e.id
  /\ DOMAIN d.invoices = KeysIn(d, "invoice.paid")
  /\ DOMAIN d.payments = KeysIn(d, "payment.received")
  /\ DOMAIN d.channels = KeysIn(d, "channel.opened")
  /\ \A x \in d.deliveries : x.event \in Ids(d.events) /\ Signs(x.url, x.secret)

(* Every event of change n is in tables d.                                 *)
Holds(d, n) == \A i \in 1..Len(stream[n]) : stream[n][i].id \in Ids(d.events)

(* The buffer is the beginning of the change the Runner is at.             *)
BufInv ==
  /\ buf \in Seq(StreamEvents)
  /\ buf # <<>> =>
       /\ pos <= Len(stream)
       /\ Len(buf) <= Len(stream[pos])
       /\ \A i \in 1..Len(buf) : buf[i] = stream[pos][i]

(* How many events of its change the open transaction has applied.         *)
Applied == Len(stream[pos]) - Len(tx.todo)

(* The open transaction has applied the events of the change that it has   *)
(* not yet to do, on top of the committed tables; the orders it marks paid *)
(* have their invoice, and the events it adds have a delivery for every    *)
(* endpoint that has not changed meanwhile.                                *)
TxInv ==
  tx # Nil =>
    /\ running /\ buf = <<>> /\ pos <= Len(stream)
    /\ Whole(tx.db)
    /\ db.events \subseteq tx.db.events /\ db.deliveries \subseteq tx.db.deliveries
    /\ tx.todo \in Seq(StreamEvents) /\ Len(tx.todo) <= Len(stream[pos])
    /\ \A i \in 1..Len(tx.todo) : tx.todo[i] = stream[pos][Applied + i]
    /\ \A i \in 1..Applied : stream[pos][i].id \in Ids(tx.db.events)
    /\ tx.paid \subseteq DOMAIN tx.db.invoices
    /\ \A e \in StreamEvents : e.id \in Ids(tx.db.events) \ Ids(db.events) =>
         \A u \in steady : (Active(u) /\ e.type \in endpoint[u].types) =>
           \E x \in tx.db.deliveries : x.event = e.id /\ x.url = u

(* The changes before the one the Runner is at, and those up to the        *)
(* checkpoint, have been committed.                                        *)
CommittedInv ==
  /\ \A n \in 1..pos - 1 : Holds(db, n)
  /\ \A n \in 1..db.checkpoint : Holds(db, n)

(* The part of the type invariant that is about the indexer.               *)
IndexerTypes ==
  /\ stream \in Streams
  /\ running \in BOOLEAN
  /\ pos \in 1..Len(stream) + 1
  /\ db.checkpoint \in 0..Len(stream)
  /\ order \in [Hashes -> {"none", "pending", "paid"}]
  /\ steady \subseteq Urls
  /\ faults \in 0..MaxFaults

PaidHaveInvoice == \A k \in Hashes : order[k] = "paid" => k \in DOMAIN db.invoices

IndexerInv ==
  /\ IndexerTypes
  /\ BufInv
  /\ Whole(db)
  /\ TxInv
  /\ CommittedInv
  /\ PaidHaveInvoice

IInv == SubInv /\ IndexerInv
-----------------------------------------------------------------------------
(***************************************************************************)
(* What applyEvent does to the tables                                      *)
(***************************************************************************)

(* Changing one table keeps the record of the tables.                      *)
LEMMA DbExcept ==
  ASSUME NEW d, IsDb(d), NEW v
  PROVE  /\ [d EXCEPT !.events = v] =
              [events |-> v, payments |-> d.payments, invoices |-> d.invoices,
               channels |-> d.channels, deliveries |-> d.deliveries,
               checkpoint |-> d.checkpoint]
         /\ [d EXCEPT !.payments = v] =
              [events |-> d.events, payments |-> v, invoices |-> d.invoices,
               channels |-> d.channels, deliveries |-> d.deliveries,
               checkpoint |-> d.checkpoint]
         /\ [d EXCEPT !.invoices = v] =
              [events |-> d.events, payments |-> d.payments, invoices |-> v,
               channels |-> d.channels, deliveries |-> d.deliveries,
               checkpoint |-> d.checkpoint]
         /\ [d EXCEPT !.channels = v] =
              [events |-> d.events, payments |-> d.payments, invoices |-> d.invoices,
               channels |-> v, deliveries |-> d.deliveries,
               checkpoint |-> d.checkpoint]
         /\ [d EXCEPT !.deliveries = v] =
              [events |-> d.events, payments |-> d.payments, invoices |-> d.invoices,
               channels |-> d.channels, deliveries |-> v,
               checkpoint |-> d.checkpoint]
         /\ [d EXCEPT !.checkpoint = v] =
              [events |-> d.events, payments |-> d.payments, invoices |-> d.invoices,
               channels |-> d.channels, deliveries |-> d.deliveries,
               checkpoint |-> v]
BY DEF IsDb

(* The insertion of an event row.                                          *)
EventInserted(d, e, seq, n) ==
  /\ Ids(n.events) = Ids(d.events) \cup {e.id}
  /\ d.events \subseteq n.events
  /\ \A x \in n.events : x \in d.events \/ (x.id = e.id /\ x.seq = seq)
  /\ n.payments = d.payments /\ n.invoices = d.invoices /\ n.channels = d.channels
  /\ n.deliveries = d.deliveries /\ n.checkpoint = d.checkpoint

(* ON CONFLICT DO NOTHING: an id that is there leaves the table alone.     *)
LEMMA InsertEventFacts ==
  ASSUME NEW d, IsDb(d), NEW e, NEW seq, NEW n, n = InsertEvent(d, e, seq)
  PROVE  IsDb(n) /\ EventInserted(d, e, seq, n)
<1> USE DEF EventInserted
<1>1. CASE e.id \in Ids(d.events)
  BY <1>1 DEF InsertEvent
<1>2. CASE e.id \notin Ids(d.events)
  <2> DEFINE row == [id |-> e.id, seq |-> seq]
  <2>1. n = [events |-> d.events \cup {row}, payments |-> d.payments,
             invoices |-> d.invoices, channels |-> d.channels,
             deliveries |-> d.deliveries, checkpoint |-> d.checkpoint]
    BY <1>2, DbExcept DEF InsertEvent
  <2>2. row.id = e.id /\ row.seq = seq
    OBVIOUS
  <2> HIDE DEF row
  <2>3. Ids(d.events \cup {row}) = Ids(d.events) \cup {e.id}
    BY <2>2 DEF Ids
  <2>4. QED
    BY <2>1, <2>2, <2>3 DEF IsDb
<1>3. QED
  BY <1>1, <1>2

(* The projection of an event touches the table of its type, and adds the  *)
(* key of the event there.                                                 *)
KeyIf(e, type) == IF e.type = type THEN {e.key} ELSE {}

Projected(d, e, n) ==
  /\ n.events = d.events /\ n.deliveries = d.deliveries
  /\ n.checkpoint = d.checkpoint
  /\ DOMAIN n.invoices = DOMAIN d.invoices \cup KeyIf(e, "invoice.paid")
  /\ DOMAIN n.payments = DOMAIN d.payments \cup KeyIf(e, "payment.received")
  /\ DOMAIN n.channels = DOMAIN d.channels \cup KeyIf(e, "channel.opened")

(* Projecting adds at most the row of the event's key and touches no other *)
(* table.                                                                  *)
LEMMA ProjectFacts ==
  ASSUME NEW d, IsDb(d), NEW e, NEW n, n = Project(d, e)
  PROVE  IsDb(n) /\ Projected(d, e, n)
<1> USE DEF Projected, KeyIf
<1>1. CASE e.type = "invoice.paid"
  <2>1. n = ProjectInvoicePaid(d, e)
    BY <1>1 DEF Project
  <2>2. PICK v : n = [d EXCEPT !.invoices = Put(d.invoices, e.key, v)]
    BY <2>1 DEF ProjectInvoicePaid
  <2>3. n = [events |-> d.events, payments |-> d.payments, invoices |-> Put(d.invoices, e.key, v),
             channels |-> d.channels, deliveries |-> d.deliveries, checkpoint |-> d.checkpoint]
    BY <2>2, DbExcept
  <2>4. DOMAIN n.invoices = DOMAIN d.invoices \cup {e.key}
    <3>1. n.invoices = Put(d.invoices, e.key, v)
      BY <2>3
    <3>2. QED
      BY <3>1 DEF Put
  <2>5. QED
    BY <1>1, <2>3, <2>4 DEF IsDb
<1>2. CASE e.type = "payment.received"
  <2>1. n = ProjectPaymentReceived(d, e)
    BY <1>2 DEF Project
  <2>2. PICK v : n = [d EXCEPT !.payments = Put(d.payments, e.key, v)]
    BY <2>1 DEF ProjectPaymentReceived
  <2>3. n = [events |-> d.events, payments |-> Put(d.payments, e.key, v), invoices |-> d.invoices,
             channels |-> d.channels, deliveries |-> d.deliveries, checkpoint |-> d.checkpoint]
    BY <2>2, DbExcept
  <2>4. DOMAIN n.payments = DOMAIN d.payments \cup {e.key}
    <3>1. n.payments = Put(d.payments, e.key, v)
      BY <2>3
    <3>2. QED
      BY <3>1 DEF Put
  <2>5. QED
    BY <1>2, <2>3, <2>4 DEF IsDb
<1>3. CASE e.type = "channel.opened"
  <2>1. n = ProjectChannelOpened(d, e)
    BY <1>3 DEF Project
  <2>2. PICK v : n = [d EXCEPT !.channels = Put(d.channels, e.key, v)]
    BY <2>1 DEF ProjectChannelOpened
  <2>3. n = [events |-> d.events, payments |-> d.payments, invoices |-> d.invoices,
             channels |-> Put(d.channels, e.key, v), deliveries |-> d.deliveries, checkpoint |-> d.checkpoint]
    BY <2>2, DbExcept
  <2>4. DOMAIN n.channels = DOMAIN d.channels \cup {e.key}
    <3>1. n.channels = Put(d.channels, e.key, v)
      BY <2>3
    <3>2. QED
      BY <3>1 DEF Put
  <2>5. QED
    BY <1>3, <2>3, <2>4 DEF IsDb
<1>4. CASE e.type \notin {"invoice.paid", "payment.received", "channel.opened"}
  <2>1. n = d
    BY <1>4 DEF Project
  <2>2. QED
    BY <1>4, <2>1
<1>5. QED
  BY <1>1, <1>2, <1>3, <1>4

(* The fan-out gives every matching endpoint a delivery of the event, with *)
(* the endpoint's secret, and keeps the ones there are.                    *)
Enqueued(d, e, n) ==
  /\ n.events = d.events /\ n.checkpoint = d.checkpoint
  /\ n.payments = d.payments /\ n.invoices = d.invoices /\ n.channels = d.channels
  /\ d.deliveries \subseteq n.deliveries
  /\ \A x \in n.deliveries : x \in d.deliveries \/
       /\ x.event = e.id
       /\ x.url \in Matching(e.type)
       /\ x.secret = endpoint[x.url].secret
  /\ \A u \in Matching(e.type) : \E x \in n.deliveries : x.event = e.id /\ x.url = u

(* The fan-out adds one row for each matching endpoint that has none, with *)
(* that endpoint's secret.                                                 *)
LEMMA EnqueueFacts ==
  ASSUME NEW d, IsDb(d), NEW e, NEW n, n = EnqueueDeliveries(d, e)
  PROVE  IsDb(n) /\ Enqueued(d, e, n)
<1> DEFINE queued == {x.url : x \in {y \in d.deliveries : y.event = e.id}}
           row(u) == [event |-> e.id, url |-> u, secret |-> endpoint[u].secret]
           new == {row(u) : u \in Matching(e.type) \ queued}
<1>1. n = [events |-> d.events, payments |-> d.payments, invoices |-> d.invoices,
           channels |-> d.channels, deliveries |-> d.deliveries \cup new,
           checkpoint |-> d.checkpoint]
  BY DbExcept DEF EnqueueDeliveries
<1>2. \A u : row(u).event = e.id /\ row(u).url = u /\ row(u).secret = endpoint[u].secret
  OBVIOUS
<1> HIDE DEF row
<1>3. \A x \in new : /\ x.event = e.id
                     /\ x.url \in Matching(e.type)
                     /\ x.secret = endpoint[x.url].secret
  BY <1>2
<1>4. ASSUME NEW u \in Matching(e.type)
      PROVE  \E x \in d.deliveries \cup new : x.event = e.id /\ x.url = u
  <2>1. CASE u \in queued
    BY <2>1
  <2>2. CASE u \notin queued
    BY <1>2, <2>2
  <2>3. QED
    BY <2>1, <2>2
<1> HIDE DEF new
<1>5. QED
  BY <1>1, <1>3, <1>4 DEF IsDb, Enqueued

(* The streams are sequences of changes, which are sequences of events, and *)
(* an id names one event.                                                  *)
LEMMA StreamFacts ==
  ASSUME stream \in Streams
  PROVE  /\ stream \in Seq(Seq(StreamEvents))
         /\ \A n \in 1..Len(stream) : stream[n] \in Seq(StreamEvents) /\ Len(stream[n]) > 0
         /\ \A e1, e2 \in StreamEvents : e1.id = e2.id => e1 = e2
<1>1. /\ stream \in Seq(Seq(StreamEvents))
      /\ \A n \in 1..Len(stream) : Len(stream[n]) > 0
      /\ \A e1, e2 \in StreamEvents : e1.id = e2.id => e1 = e2
  BY IndexerAssumption DEF StreamEvents
<1>2. QED
  BY <1>1

(* One more event row adds the event's key to those of its type.           *)
LEMMA KeysAdd ==
  ASSUME stream \in Streams, NEW d, NEW n, NEW e \in StreamEvents, NEW type,
         Ids(n.events) = Ids(d.events) \cup {e.id}
  PROVE  KeysIn(n, type) = KeysIn(d, type) \cup KeyIf(e, type)
<1>1. ASSUME NEW x \in StreamEvents
      PROVE  x.id \in Ids(n.events) <=> (x.id \in Ids(d.events) \/ x = e)
  BY StreamFacts
<1>2. QED
  BY <1>1 DEF KeysIn, KeyIf

(* The three steps of applyEvent together: whole tables become whole       *)
(* tables with one event more.                                             *)
EventApplied(d, e, n) ==
  /\ Whole(n)
  /\ Ids(n.events) = Ids(d.events) \cup {e.id}
  /\ d.events \subseteq n.events
  /\ d.deliveries \subseteq n.deliveries
  /\ DOMAIN d.invoices \subseteq DOMAIN n.invoices
  /\ e.type = "invoice.paid" => e.key \in DOMAIN n.invoices
  /\ \A u \in Matching(e.type) : \E x \in n.deliveries : x.event = e.id /\ x.url = u

(* The three statements together keep the tables whole.                    *)
LEMMA ApplyFacts ==
  ASSUME SubTypeOK, stream \in Streams, NEW d, Whole(d), NEW e \in StreamEvents,
         NEW seq \in 1..Len(stream), NEW d1, NEW d2, NEW n,
         d1 = InsertEvent(d, e, seq), d2 = Project(d1, e), n = EnqueueDeliveries(d2, e)
  PROVE  EventApplied(d, e, n)
<1>1. IsDb(d) /\ IsDb(d1) /\ EventInserted(d, e, seq, d1)
  BY InsertEventFacts DEF Whole
<1>2. IsDb(d2) /\ Projected(d1, e, d2)
  BY <1>1, ProjectFacts
<1>3. IsDb(n) /\ Enqueued(d2, e, n)
  BY <1>2, EnqueueFacts
<1>4. /\ Ids(n.events) = Ids(d.events) \cup {e.id}
      /\ d.events \subseteq n.events
      /\ d.deliveries \subseteq n.deliveries
  BY <1>1, <1>2, <1>3 DEF EventInserted, Projected, Enqueued
<1>5. \A x \in n.events : x.seq \in 1..Len(stream) /\ \E y \in StreamEvents : x.id = y.id
  <2> SUFFICES ASSUME NEW x \in n.events
               PROVE  x.seq \in 1..Len(stream) /\ \E y \in StreamEvents : x.id = y.id
    OBVIOUS
  <2>1. x \in d.events \/ (x.id = e.id /\ x.seq = seq)
    BY <1>1, <1>2, <1>3 DEF EventInserted, Projected, Enqueued
  <2>2. QED
    BY <2>1 DEF Whole
<1>6. /\ DOMAIN n.invoices = DOMAIN d.invoices \cup KeyIf(e, "invoice.paid")
      /\ DOMAIN n.payments = DOMAIN d.payments \cup KeyIf(e, "payment.received")
      /\ DOMAIN n.channels = DOMAIN d.channels \cup KeyIf(e, "channel.opened")
  BY <1>1, <1>2, <1>3 DEF EventInserted, Projected, Enqueued
<1>7. /\ DOMAIN n.invoices = KeysIn(n, "invoice.paid")
      /\ DOMAIN n.payments = KeysIn(n, "payment.received")
      /\ DOMAIN n.channels = KeysIn(n, "channel.opened")
  <2>1. /\ DOMAIN d.invoices = KeysIn(d, "invoice.paid")
        /\ DOMAIN d.payments = KeysIn(d, "payment.received")
        /\ DOMAIN d.channels = KeysIn(d, "channel.opened")
    BY DEF Whole
  <2>2. \A type : KeysIn(n, type) = KeysIn(d, type) \cup KeyIf(e, type)
    <3>1. ASSUME NEW type PROVE KeysIn(n, type) = KeysIn(d, type) \cup KeyIf(e, type)
      <4>1. Ids(n.events) = Ids(d.events) \cup {e.id}
        BY <1>4
      <4>2. QED
        BY <4>1, KeysAdd
    <3>2. QED
      BY <3>1
  <2>3. QED
    BY <1>6, <2>1, <2>2
<1>8. ASSUME NEW x \in n.deliveries
      PROVE  x.event \in Ids(n.events) /\ Signs(x.url, x.secret)
  <2>1. CASE x \in d.deliveries
    BY <1>4, <2>1 DEF Whole
  <2>2. CASE x \notin d.deliveries
    <3>1. /\ x.event = e.id
          /\ x.url \in Matching(e.type)
          /\ x.secret = endpoint[x.url].secret
      BY <1>1, <1>2, <1>3, <2>2 DEF EventInserted, Projected, Enqueued
    <3>2. QED
      BY <1>4, <3>1 DEF Matching, Active, Signs
  <2>3. QED
    BY <2>1, <2>2
<1>9. Whole(n)
  BY <1>3, <1>5, <1>7, <1>8 DEF Whole
<1>10. \A u \in Matching(e.type) : \E x \in n.deliveries : x.event = e.id /\ x.url = u
  BY <1>3 DEF Enqueued
<1>11. QED
  BY <1>4, <1>6, <1>9, <1>10 DEF KeyIf, EventApplied

-----------------------------------------------------------------------------
(***************************************************************************)
(* The steps                                                               *)
(***************************************************************************)

projectorVars == << stream, running, pos, buf, tx, db, order, steady, faults >>

(* Initially nothing has been written.                                     *)
LEMMA IndexerInitInv == Init => IInv
<1> SUFFICES ASSUME Init PROVE IInv
  OBVIOUS
<1>1. SubInv
  BY SubInitInv DEF Init
<1>2. stream \in Seq(Seq(StreamEvents)) /\ Len(stream) \in Nat
  BY StreamFacts DEF Init
<1>3. /\ db.events = {} /\ db.deliveries = {} /\ db.checkpoint = 0
      /\ DOMAIN db.invoices = {} /\ DOMAIN db.payments = {} /\ DOMAIN db.channels = {}
      /\ IsDb(db)
  <2>1. /\ db.events = {} /\ db.deliveries = {} /\ db.checkpoint = 0
        /\ db.invoices = <<>> /\ db.payments = <<>> /\ db.channels = <<>>
    BY DEF Init, EmptyDb
  <2>2. IsDb(db)
    BY <2>1 DEF Init, EmptyDb, IsDb
  <2>3. DOMAIN << >> = {}
    OBVIOUS
  <2>4. QED
    BY <2>1, <2>2, <2>3
<1>4. IndexerTypes
  <2>1. MaxFaults \in Nat
    BY IndexerAssumption
  <2>2. order \in [Hashes -> {"none", "pending", "paid"}]
    BY DEF Init
  <2>3. 0 \in 0..MaxFaults /\ 0 \in 0..Len(stream) /\ 1 \in 1..Len(stream) + 1
    BY <1>2, <2>1
  <2>4. QED
    BY <1>3, <2>2, <2>3 DEF Init, IndexerTypes
<1>5. BufInv
  BY DEF Init, BufInv
<1>6. Whole(db)
  BY <1>3 DEF Whole, KeysIn, Ids
<1>7. TxInv
  BY DEF Init, TxInv
<1>8. CommittedInv
  BY <1>3 DEF Init, CommittedInv
<1>9. PaidHaveInvoice
  BY DEF Init, PaidHaveInvoice
<1>10. QED
  BY <1>1, <1>4, <1>5, <1>6, <1>7, <1>8, <1>9 DEF IInv, IndexerInv

(* Committed tables that do not change stay whole while no endpoint loses  *)
(* its secret, and so does what they hold.                                 *)
LEMMA DbFrame ==
  ASSUME Whole(db), SecretsKept, UNCHANGED << stream, db >>
  PROVE  Whole(db)'
<1>1. \A u, s : Signs(u, s) => Signs(u, s)'
  BY DEF Signs, SecretsKept
<1>2. QED
  BY <1>1 DEF Whole, KeysIn, StreamEvents, IsDb

(* A step of a test request, or any other that leaves the endpoints and    *)
(* the indexer alone.                                                      *)
LEMMA IndexerFrame ==
  ASSUME IndexerInv, UNCHANGED << projectorVars, endpoint >>
  PROVE  IndexerInv'
<1> USE DEF IndexerInv, projectorVars
<1>0. SecretsKept
  BY DEF SecretsKept
<1>1. Whole(db)'
  BY <1>0, DbFrame
<1>2. IndexerTypes' /\ BufInv' /\ CommittedInv' /\ PaidHaveInvoice'
  BY DEF IndexerTypes, BufInv, CommittedInv, PaidHaveInvoice, Holds, StreamEvents, Hashes
<1>3. TxInv'
  <2> SUFFICES ASSUME tx # Nil PROVE TxInv'
    BY DEF TxInv
  <2>1. Whole(tx.db)'
    BY DEF TxInv, Whole, KeysIn, StreamEvents, IsDb, Signs
  <2>2. StreamEvents' = StreamEvents /\ Applied' = Applied /\ \A u : Active(u)' = Active(u)
    BY DEF StreamEvents, Applied, Active
  <2>3. QED
    BY <2>1, <2>2 DEF TxInv
<1>4. QED
  BY <1>1, <1>2, <1>3

(* The start of the process: no transaction is open, and the changes       *)
(* before the chosen one have been committed.                              *)
LEMMA StartStep ==
  ASSUME IInv, Start
  PROVE  IndexerInv'
<1> USE DEF IInv, IndexerInv
<1>0. /\ stream' = stream /\ db' = db /\ tx' = tx /\ endpoint' = endpoint
      /\ order' = order /\ tx = Nil
  BY DEF Start, subVars, TxInv
<1>1. Whole(db)'
  BY <1>0, DbFrame DEF SecretsKept
<1>2. Len(stream) \in Nat
  BY StreamFacts DEF IndexerTypes
<1>3. pos' \in 1..Len(stream) + 1
  BY <1>2 DEF Start, IndexerTypes
<1>4. IndexerTypes'
  BY <1>0, <1>3 DEF Start, IndexerTypes, Hashes, StreamEvents
<1>5. BufInv' /\ TxInv'
  BY <1>0, SubscriptionsAssumption DEF Start, BufInv, TxInv
<1>6. CommittedInv'
  <2>1. pos' = 1 \/ pos' = db.checkpoint + 1
    BY DEF Start
  <2>2. 1..pos' - 1 = {} \/ 1..pos' - 1 = 1..db.checkpoint
    BY <2>1, <1>2 DEF IndexerTypes
  <2>3. QED
    BY <1>0, <2>2 DEF CommittedInv, Holds
<1>7. PaidHaveInvoice'
  BY <1>0 DEF PaidHaveInvoice, Hashes, StreamEvents
<1>8. QED
  BY <1>1, <1>4, <1>5, <1>6, <1>7

(* Handle appends the next event of the change.                            *)
LEMMA HandleStep ==
  ASSUME IInv, Handle
  PROVE  IndexerInv'
<1> USE DEF IInv, IndexerInv
<1>0. /\ stream' = stream /\ db' = db /\ tx' = tx /\ endpoint' = endpoint
      /\ order' = order /\ pos' = pos /\ tx = Nil
  BY DEF Handle, subVars
<1>1. Whole(db)'
  BY <1>0, DbFrame DEF SecretsKept
<1>2. IndexerTypes' /\ TxInv' /\ CommittedInv' /\ PaidHaveInvoice'
  BY <1>0 DEF Handle, IndexerTypes, Hashes, StreamEvents, TxInv, CommittedInv, Holds,
              PaidHaveInvoice
<1>3. BufInv'
  <2>1. Len(stream) \in Nat /\ stream[pos] \in Seq(StreamEvents)
    BY StreamFacts DEF IndexerTypes, Handle
  <2>2. StreamEvents' = StreamEvents
    BY <1>0 DEF StreamEvents
  <2>3. buf \in Seq(StreamEvents) /\ \A i \in 1..Len(buf) : buf[i] = stream[pos][i]
    BY DEF BufInv
  <2>4. stream[pos][Len(buf) + 1] \in StreamEvents
    BY <2>1, <2>3 DEF Handle
  <2>5. /\ buf' \in Seq(StreamEvents) /\ Len(buf') = Len(buf) + 1
        /\ \A i \in 1..Len(buf') : buf'[i] = stream[pos][i]
    BY <2>3, <2>4 DEF Handle
  <2>6. QED
    BY <1>0, <2>1, <2>2, <2>3, <2>5 DEF BufInv, Handle
<1>4. QED
  BY <1>1, <1>2, <1>3

(* Save hands the whole change to the transaction, which starts from the   *)
(* committed tables.                                                       *)
LEMMA SaveBeginStep ==
  ASSUME IInv, SaveBegin
  PROVE  IndexerInv'
<1> USE DEF IInv, IndexerInv
<1>0. /\ stream' = stream /\ db' = db /\ endpoint' = endpoint
      /\ order' = order /\ pos' = pos /\ running' = running /\ faults' = faults
      /\ buf' = <<>> /\ steady' = Urls /\ running /\ pos <= Len(stream)
      /\ tx'.todo = buf /\ tx'.db = db /\ tx'.paid = {}
  BY DEF SaveBegin, subVars
<1>1. Whole(db)'
  BY <1>0, DbFrame DEF SecretsKept
<1>2. IndexerTypes' /\ CommittedInv' /\ PaidHaveInvoice'
  BY <1>0 DEF IndexerTypes, Hashes, StreamEvents, CommittedInv, Holds, PaidHaveInvoice
<1>3. BufInv'
  BY <1>0 DEF BufInv
<1>4. TxInv'
  <2>1. StreamEvents' = StreamEvents
    BY <1>0 DEF StreamEvents
  <2>2. Len(stream) \in Nat /\ stream[pos] \in Seq(StreamEvents) /\ Len(stream[pos]) > 0
    BY <1>0, StreamFacts DEF IndexerTypes
  <2>3. /\ buf \in Seq(StreamEvents) /\ Len(buf) = Len(stream[pos])
        /\ \A i \in 1..Len(buf) : buf[i] = stream[pos][i]
    BY <2>2 DEF BufInv, SaveBegin
  <2>4. Applied' = 0
    BY <1>0, <2>2, <2>3 DEF Applied
  <2>5. Whole(tx.db)'
    BY <1>0, <1>1 DEF Whole, IsDb, KeysIn
  <2>6. /\ tx'.todo \in Seq(StreamEvents) /\ Len(tx'.todo) <= Len(stream[pos])
        /\ \A i \in 1..Len(tx'.todo) : tx'.todo[i] = stream[pos][Applied' + i]
        /\ 1..Applied' = {}
    BY <1>0, <2>2, <2>3, <2>4
  <2>7. QED
    BY <1>0, <2>1, <2>5, <2>6 DEF TxInv
<1>5. QED
  BY <1>1, <1>2, <1>3, <1>4

(* applyEvent applies the first event that is left to do; nothing of it    *)
(* can be seen outside the transaction.                                    *)
LEMMA ApplyStep ==
  ASSUME IInv, ApplyEvent
  PROVE  IndexerInv'
<1> USE DEF IInv, IndexerInv
<1> DEFINE e == Head(tx.todo)
<1>0. /\ stream' = stream /\ db' = db /\ endpoint' = endpoint
      /\ order' = order /\ pos' = pos /\ running' = running /\ faults' = faults
      /\ buf' = buf /\ steady' = steady /\ tx # Nil /\ tx.todo # <<>>
      /\ tx'.todo = Tail(tx.todo)
      /\ tx'.db = EnqueueDeliveries(Project(InsertEvent(tx.db, e, pos), e), e)
      /\ tx'.paid = IF e.type = "invoice.paid" /\ order[e.key] = "pending"
                    THEN tx.paid \cup {e.key} ELSE tx.paid
  BY DEF ApplyEvent, subVars
<1>1. Whole(db)'
  BY <1>0, DbFrame DEF SecretsKept
<1>2. IndexerTypes' /\ CommittedInv' /\ PaidHaveInvoice' /\ BufInv'
  BY <1>0 DEF IndexerTypes, Hashes, StreamEvents, CommittedInv, Holds, PaidHaveInvoice, BufInv
<1>3. TxInv'
  <2>1. StreamEvents' = StreamEvents
    BY <1>0 DEF StreamEvents
  <2>2. /\ running /\ buf = <<>> /\ pos <= Len(stream)
        /\ Whole(tx.db) /\ tx.paid \subseteq DOMAIN tx.db.invoices
        /\ db.events \subseteq tx.db.events /\ db.deliveries \subseteq tx.db.deliveries
        /\ tx.todo \in Seq(StreamEvents) /\ Len(tx.todo) <= Len(stream[pos])
        /\ \A i \in 1..Len(tx.todo) : tx.todo[i] = stream[pos][Applied + i]
        /\ \A i \in 1..Applied : stream[pos][i].id \in Ids(tx.db.events)
    BY <1>0 DEF TxInv
  <2>3. pos \in 1..Len(stream) /\ stream[pos] \in Seq(StreamEvents)
    BY <2>2, StreamFacts DEF IndexerTypes
  <2>4. /\ e \in StreamEvents /\ e = stream[pos][Applied + 1]
        /\ Len(tx'.todo) = Len(tx.todo) - 1 /\ tx'.todo \in Seq(StreamEvents)
        /\ \A i \in 1..Len(tx'.todo) : tx'.todo[i] = tx.todo[i + 1]
        /\ Len(tx.todo) \in Nat /\ Len(tx.todo) > 0
    BY <1>0, <2>2
  <2>5. Applied \in Nat /\ Applied' = Applied + 1
    <3>1. Len(stream[pos]) \in Nat /\ stream'[pos'] = stream[pos]
      BY <1>0, <2>3
    <3>2. QED
      BY <2>2, <2>4, <3>1 DEF Applied
  <2> HIDE DEF e
  <2>6. EventApplied(tx.db, e, tx'.db)
    <3>1. SubTypeOK /\ stream \in Streams
      BY DEF SubInv, IndexerTypes
    <3>2. PICK d1, d2 : /\ d1 = InsertEvent(tx.db, e, pos)
                        /\ d2 = Project(d1, e)
                        /\ tx'.db = EnqueueDeliveries(d2, e)
      BY <1>0
    <3>3. QED
      BY <2>2, <2>3, <2>4, <3>1, <3>2, ApplyFacts
  <2>7. Whole(tx.db)'
    BY <1>0, <2>6 DEF EventApplied, Whole, IsDb, KeysIn, StreamEvents, Signs
  <2>8. \A i \in 1..Len(tx'.todo) : tx'.todo[i] = stream[pos][Applied' + i]
    BY <2>2, <2>4, <2>5
  <2>9. \A i \in 1..Applied' : stream[pos][i].id \in Ids(tx'.db.events)
    BY <2>2, <2>4, <2>5, <2>6 DEF EventApplied
  <2>10. tx'.paid \subseteq DOMAIN tx'.db.invoices
    BY <1>0, <2>2, <2>6 DEF EventApplied
  <2>11. ASSUME NEW y \in StreamEvents, y.id \in Ids(tx'.db.events) \ Ids(db.events),
                NEW u \in steady, Active(u), y.type \in endpoint[u].types
         PROVE  \E x \in tx'.db.deliveries : x.event = y.id /\ x.url = u
    <3>1. CASE y.id \in Ids(tx.db.events)
      BY <1>0, <2>6, <2>11, <3>1 DEF TxInv, EventApplied
    <3>2. CASE y.id \notin Ids(tx.db.events)
      <4>1. y = e
        BY <2>4, <2>6, <2>11, <3>2, StreamFacts DEF IndexerTypes, EventApplied
      <4>2. u \in Matching(e.type)
        BY <2>11, <4>1 DEF Matching, IndexerTypes
      <4>3. QED
        BY <2>6, <4>1, <4>2 DEF EventApplied
    <3>3. QED
      BY <3>1, <3>2
  <2>12. \A u : Active(u)' = Active(u)
    BY <1>0 DEF Active
  <2>13. db.events \subseteq tx'.db.events /\ db.deliveries \subseteq tx'.db.deliveries
    BY <2>2, <2>6 DEF EventApplied
  <2>14. Len(tx'.todo) <= Len(stream[pos])
    BY <2>2, <2>3, <2>4
  <2>15. QED
    BY <1>0, <2>1, <2>2, <2>4, <2>7, <2>8, <2>9, <2>10, <2>11, <2>12, <2>13, <2>14, ZenonT(40) DEF TxInv
<1>4. QED
  BY <1>1, <1>2, <1>3

(* A step that ends the transaction without committing it, or the process: *)
(* what is committed and the Runner's place stay.                          *)
LEMMA StopStep ==
  ASSUME IInv, Rollback \/ Crash \/ Finish
  PROVE  IndexerInv'
<1> USE DEF IInv, IndexerInv
<1>0. /\ stream' = stream /\ db' = db /\ endpoint' = endpoint /\ order' = order
      /\ pos' = pos /\ steady' = steady /\ running' = FALSE /\ tx' = Nil
      /\ buf' = buf \/ buf' = <<>>
      /\ faults' = faults \/ (faults < MaxFaults /\ faults' = faults + 1)
  <2>1. CASE Rollback
    BY <2>1 DEF Rollback, subVars
  <2>2. CASE Crash
    BY <2>2 DEF Crash, subVars
  <2>3. CASE Finish
    BY <2>3 DEF Finish, subVars
  <2>4. QED
    BY <2>1, <2>2, <2>3
<1>1. Whole(db)'
  BY <1>0, DbFrame DEF SecretsKept
<1>2. faults' \in 0..MaxFaults
  <2>1. MaxFaults \in Nat
    BY IndexerAssumption
  <2>2. QED
    BY <1>0, <2>1 DEF IndexerTypes
<1>3. IndexerTypes'
  BY <1>0, <1>2 DEF IndexerTypes, Hashes, StreamEvents
<1>4. CommittedInv' /\ PaidHaveInvoice'
  BY <1>0 DEF Hashes, StreamEvents, CommittedInv, Holds, PaidHaveInvoice
<1>5. BufInv'
  <2>1. CASE buf' = buf
    BY <1>0, <2>1 DEF BufInv, StreamEvents
  <2>2. CASE buf' = <<>>
    BY <2>2 DEF BufInv
  <2>3. QED
    BY <1>0, <2>1, <2>2
<1>6. TxInv'
  BY <1>0 DEF TxInv
<1>7. QED
  BY <1>1, <1>3, <1>4, <1>5, <1>6

(* The commit publishes what the transaction has written, with the         *)
(* checkpoint at the change; the reply may be lost.                        *)
LEMMA CommitStep ==
  ASSUME IInv, Commit
  PROVE  IndexerInv'
<1> USE DEF IInv, IndexerInv
<1>0. /\ stream' = stream /\ endpoint' = endpoint /\ buf' = buf /\ steady' = steady
      /\ tx' = Nil /\ tx # Nil /\ tx.todo = <<>>
      /\ db' = [tx.db EXCEPT !.checkpoint = pos]
      /\ order' = [k \in Hashes |-> IF k \in tx.paid THEN "paid" ELSE order[k]]
      /\ running' \in BOOLEAN
      /\ \/ pos' = pos + 1 /\ faults' = faults
         \/ pos' = pos /\ faults < MaxFaults /\ faults' = faults + 1
  BY DEF Commit, subVars
<1>1. /\ buf = <<>> /\ pos <= Len(stream) /\ Whole(tx.db) /\ db.events \subseteq tx.db.events
      /\ \A i \in 1..Applied : stream[pos][i].id \in Ids(tx.db.events)
      /\ tx.paid \subseteq DOMAIN tx.db.invoices
  BY <1>0 DEF TxInv
<1>2. /\ pos \in 1..Len(stream) /\ Len(stream) \in Nat /\ Len(stream[pos]) \in Nat
      /\ stream[pos] \in Seq(StreamEvents)
  BY <1>1, StreamFacts DEF IndexerTypes
<1>3. /\ db'.events = tx.db.events /\ db'.deliveries = tx.db.deliveries
      /\ db'.invoices = tx.db.invoices /\ db'.payments = tx.db.payments
      /\ db'.channels = tx.db.channels /\ db'.checkpoint = pos
      /\ IsDb(db')
  <2>1. IsDb(tx.db)
    BY <1>1 DEF Whole
  <2>2. db' = [events |-> tx.db.events, payments |-> tx.db.payments,
               invoices |-> tx.db.invoices, channels |-> tx.db.channels,
               deliveries |-> tx.db.deliveries, checkpoint |-> pos]
    BY <1>0, <2>1, DbExcept
  <2>3. QED
    BY <2>2 DEF IsDb
<1>4. Whole(db)'
  BY <1>0, <1>1, <1>3 DEF Whole, KeysIn, StreamEvents, Signs, IsDb
<1>5. IndexerTypes'
  <2>1. faults' \in 0..MaxFaults
    <3>1. MaxFaults \in Nat
      BY IndexerAssumption
    <3>2. QED
      BY <1>0, <3>1 DEF IndexerTypes
  <2>2. pos' \in 1..Len(stream) + 1 /\ db'.checkpoint \in 0..Len(stream)
    BY <1>0, <1>2, <1>3
  <2>3. order' \in [Hashes -> {"none", "pending", "paid"}]
    BY <1>0 DEF IndexerTypes
  <2>4. Hashes' = Hashes
    BY <1>0 DEF Hashes, StreamEvents
  <2>5. QED
    BY <1>0, <2>1, <2>2, <2>3, <2>4 DEF IndexerTypes
<1>6. BufInv'
  BY <1>0, <1>1 DEF BufInv
<1>7. TxInv'
  BY <1>0 DEF TxInv
<1>8. CommittedInv'
  <2>1. Applied = Len(stream[pos])
    BY <1>0, <1>2 DEF Applied
  <2>2. Ids(db.events) \subseteq Ids(db'.events)
    BY <1>1, <1>3 DEF Ids
  <2>3. \A i \in 1..Len(stream[pos]) : stream[pos][i].id \in Ids(db'.events)
    BY <1>1, <1>3, <2>1
  <2>4. \A n \in 1..pos : \A i \in 1..Len(stream[n]) : stream[n][i].id \in Ids(db'.events)
    <3> SUFFICES ASSUME NEW n \in 1..pos, n # pos
                 PROVE  \A i \in 1..Len(stream[n]) : stream[n][i].id \in Ids(db'.events)
      BY <2>3
    <3>1. n \in 1..pos - 1
      BY <1>2
    <3>2. QED
      BY <2>2, <3>1 DEF CommittedInv, Holds
  <2>5. 1..pos' - 1 \subseteq 1..pos /\ 1..db'.checkpoint = 1..pos
    BY <1>0, <1>2, <1>3
  <2>6. QED
    BY <1>0, <2>4, <2>5 DEF CommittedInv, Holds
<1>9. PaidHaveInvoice'
  <2>1. Hashes' = Hashes
    BY <1>0 DEF Hashes, StreamEvents
  <2>2. DOMAIN db.invoices \subseteq DOMAIN tx.db.invoices
    <3>1. Ids(db.events) \subseteq Ids(tx.db.events)
      BY <1>1 DEF Ids
    <3>2. KeysIn(db, "invoice.paid") \subseteq KeysIn(tx.db, "invoice.paid")
      BY <3>1 DEF KeysIn
    <3>3. QED
      BY <1>1, <3>2 DEF Whole
  <2>3. QED
    BY <1>0, <1>1, <1>3, <2>1, <2>2 DEF PaidHaveInvoice
<1>10. QED
  BY <1>4, <1>5, <1>6, <1>7, <1>8, <1>9

(* An endpoint that changes is no longer steady: what the transaction owes *)
(* to the others it still owes, and no delivery loses its secret.          *)
LEMMA SubscribeStep ==
  ASSUME IInv, NEW u \in Urls, Subscribe(u)
  PROVE  IInv'
<1> USE DEF IInv, IndexerInv
<1>0. /\ stream' = stream /\ db' = db /\ tx' = tx /\ order' = order /\ pos' = pos
      /\ running' = running /\ faults' = faults /\ buf' = buf
      /\ steady' = steady \ {u}
  BY DEF Subscribe
<1>1. SubInv' /\ SecretsKept
  BY CreateStep, RemoveStep DEF Subscribe
<1>2. \A v \in Urls : v # u => endpoint'[v] = endpoint[v]
  BY DEF Subscribe, Create, Remove, SubInv, SubTypeOK
<1>3. Whole(db)'
  BY <1>0, <1>1, DbFrame
<1>4. IndexerTypes' /\ CommittedInv' /\ PaidHaveInvoice' /\ BufInv'
  BY <1>0 DEF IndexerTypes, Hashes, StreamEvents, CommittedInv, Holds, PaidHaveInvoice, BufInv
<1>5. TxInv'
  <2> SUFFICES ASSUME tx # Nil PROVE TxInv'
    BY <1>0 DEF TxInv
  <2>1. Whole(tx.db)'
    <3>1. \A v, s : Signs(v, s) => Signs(v, s)'
      BY <1>1 DEF Signs, SecretsKept
    <3>2. QED
      BY <1>0, <3>1 DEF TxInv, Whole, KeysIn, StreamEvents, IsDb
  <2>2. StreamEvents' = StreamEvents /\ Applied' = Applied
    BY <1>0 DEF StreamEvents, Applied
  <2>3. \A v \in steady' : v \in steady /\ Active(v)' = Active(v) /\ endpoint'[v] = endpoint[v]
    BY <1>0, <1>2 DEF Active, IndexerTypes
  <2>4. QED
    BY <1>0, <2>1, <2>2, <2>3 DEF TxInv
<1>6. QED
  BY <1>1, <1>3, <1>4, <1>5

(* The order of an invoice is inserted as pending.                         *)
LEMMA InsertOrderStep ==
  ASSUME IInv, NEW k \in Hashes, InsertOrder(k)
  PROVE  IndexerInv'
<1> USE DEF IInv, IndexerInv
<1>0. /\ stream' = stream /\ db' = db /\ tx' = tx /\ pos' = pos /\ steady' = steady
      /\ running' = running /\ faults' = faults /\ buf' = buf /\ endpoint' = endpoint
      /\ order' = [order EXCEPT ![k] = "pending"]
  BY DEF InsertOrder, subVars
<1>1. Whole(db)'
  BY <1>0, DbFrame DEF SecretsKept
<1>2. Hashes' = Hashes
  BY <1>0 DEF Hashes, StreamEvents
<1>3. IndexerTypes' /\ PaidHaveInvoice'
  BY <1>0, <1>2 DEF IndexerTypes, PaidHaveInvoice
<1>4. CommittedInv' /\ BufInv'
  BY <1>0 DEF StreamEvents, CommittedInv, Holds, BufInv
<1>5. TxInv'
  <2> SUFFICES ASSUME tx # Nil PROVE TxInv'
    BY <1>0 DEF TxInv
  <2>1. Whole(tx.db)'
    BY <1>0 DEF TxInv, Whole, KeysIn, StreamEvents, IsDb, Signs
  <2>2. StreamEvents' = StreamEvents /\ Applied' = Applied /\ \A v : Active(v)' = Active(v)
    BY <1>0 DEF StreamEvents, Applied, Active
  <2>3. QED
    BY <1>0, <2>1, <2>2 DEF TxInv
<1>6. QED
  BY <1>1, <1>3, <1>4, <1>5

(* Every step of the indexer and of the API keeps the invariant.           *)
LEMMA IndexerNextInv ==
  ASSUME IInv, Next
  PROVE  IInv'
<1>1. CASE Start \/ Handle \/ SaveBegin \/ ApplyEvent \/ Commit \/ Rollback \/ Crash \/ Finish
  <2>1. IndexerInv'
    BY <1>1, StartStep, HandleStep, SaveBeginStep, ApplyStep, CommitStep, StopStep
  <2>2. UNCHANGED subVars
    BY <1>1 DEF Start, Handle, SaveBegin, ApplyEvent, Commit, Rollback, Crash, Finish
  <2>3. QED
    BY <2>1, <2>2, SubUnchanged DEF IInv
<1>2. ASSUME NEW u \in Urls, Subscribe(u) PROVE IInv'
  BY <1>2, SubscribeStep
<1>3. ASSUME NEW k \in Hashes, InsertOrder(k) PROVE IInv'
  <2>1. UNCHANGED subVars
    BY <1>3 DEF InsertOrder
  <2>2. QED
    BY <1>3, <2>1, InsertOrderStep, SubUnchanged DEF IInv
<1>4. QED
  BY <1>1, <1>2, <1>3 DEF Next

-----------------------------------------------------------------------------
(***************************************************************************)
(* The theorems                                                            *)
(***************************************************************************)

(* The inductive invariant.                                                *)
THEOREM IndexerInvariant == Spec => []IInv
<1>1. IInv /\ UNCHANGED vars => IInv'
  <2> SUFFICES ASSUME IInv, UNCHANGED vars PROVE IInv'
    OBVIOUS
  <2>1. UNCHANGED << subVars, projectorVars >>
    BY DEF vars, projectorVars
  <2>2. QED
    BY <2>1, SubUnchanged, IndexerFrame DEF IInv
<1>2. IInv /\ [Next]_vars => IInv'
  BY <1>1, IndexerNextInv
<1>3. QED
  BY <1>2, IndexerInitInv, PTL DEF Spec

(* What the invariant says of the tables and of the Projector's buffer.    *)
LEMMA IndexerTypeOK == IInv => TypeOK
<1> SUFFICES ASSUME IInv PROVE TypeOK
  OBVIOUS
<1>1. \A i \in 1..Len(buf) : buf[i] \in StreamEvents
  BY DEF IInv, IndexerInv, BufInv
<1>2. \A x \in db.events : x.seq \in 1..Len(stream)
  BY DEF IInv, IndexerInv, Whole
<1>3. QED
  BY <1>1, <1>2 DEF IInv, IndexerInv, IndexerTypes, SubInv, TypeOK

(* Every variable of the indexer and of the subscriptions keeps its type;  *)
(* in particular the Runner never leaves the stream and no event row has a *)
(* seq that the stream does not have.                                      *)
THEOREM IndexerTypeCorrect == Spec => []TypeOK
BY IndexerInvariant, IndexerTypeOK, PTL

(* The checkpoint never runs ahead of the events: wherever the process     *)
(* stops, whatever is replayed and whichever statement or reply fails.     *)
THEOREM CheckpointIsCovered == Spec => []CheckpointCovers
<1>1. IInv => CheckpointCovers
  BY DEF IInv, IndexerInv, CommittedInv, Holds, CheckpointCovers
<1>2. QED
  BY <1>1, IndexerInvariant, PTL

(* What whole tables say.                                                  *)
LEMMA WholeTables == IInv => AllOrNothing
<1> SUFFICES ASSUME IInv PROVE AllOrNothing
  OBVIOUS
<1>1. \A type : {e.key : e \in Committed(type)} = KeysIn(db, type)
  BY DEF Committed, KeysIn
<1>2. /\ DOMAIN db.invoices = KeysIn(db, "invoice.paid")
      /\ DOMAIN db.payments = KeysIn(db, "payment.received")
      /\ DOMAIN db.channels = KeysIn(db, "channel.opened")
      /\ \A x \in db.deliveries : x.event \in Ids(db.events)
  BY DEF IInv, IndexerInv, Whole
<1>3. QED
  BY <1>1, <1>2 DEF IInv, IndexerInv, PaidHaveInvoice, AllOrNothing

(* Projections, paid orders and deliveries are exactly those of committed  *)
(* events: a change that fails half way leaves no trace.                   *)
THEOREM SaveIsAllOrNothing == Spec => []AllOrNothing
BY IndexerInvariant, WholeTables, PTL

(* The body of AtomicOutbox.                                               *)
FannedOut ==
  \A e \in StreamEvents : (e.id \in Ids(db'.events) \ Ids(db.events)) =>
    \A u \in steady : (Active(u) /\ e.type \in endpoint[u].types) =>
      \E x \in db'.deliveries : x.event = e.id /\ x.url = u

(* Only a commit adds events, and it adds what the transaction owes.       *)
LEMMA CommitFansOut ==
  ASSUME IInv, Next
  PROVE  FannedOut
<1>1. CASE Commit
  <2>1. tx # Nil /\ db' = [tx.db EXCEPT !.checkpoint = pos]
    BY <1>1 DEF Commit
  <2>2. IsDb(tx.db)
    BY <2>1 DEF IInv, IndexerInv, TxInv, Whole
  <2>3. db'.events = tx.db.events /\ db'.deliveries = tx.db.deliveries
    BY <2>1, <2>2, DbExcept
  <2>4. QED
    BY <2>1, <2>3 DEF IInv, IndexerInv, TxInv, FannedOut
<1>2. CASE ~Commit
  <2>1. db' = db
    BY <1>2 DEF Next, Start, Handle, SaveBegin, ApplyEvent, Rollback, Crash, Finish,
                Subscribe, InsertOrder
  <2>2. QED
    BY <2>1 DEF FannedOut
<1>3. QED
  BY <1>1, <1>2

(* The fan-out commits with its event: what an open transaction owes to    *)
(* the endpoints that did not change is there when it commits.             *)
THEOREM OutboxIsAtomic == Spec => AtomicOutbox
<1>1. IInv /\ [Next]_vars => [FannedOut]_vars
  BY CommitFansOut
<1>2. QED
  BY <1>1, IndexerInvariant, PTL DEF Spec, AtomicOutbox, FannedOut
=============================================================================
