------------------------------- MODULE Indexer -------------------------------
(***************************************************************************)
(* The indexer: a stream of raw changes is normalised into events, which   *)
(* the Projector buffers (Handle) and writes in one transaction per change *)
(* (Save): the event rows, the projections, the paid merchant orders, the  *)
(* webhook deliveries and the checkpoint.  Subscriptions and orders change *)
(* while the transaction is open.                                          *)
(*                                                                         *)
(* The library's Runner is not part of the repository.  What is assumed of *)
(* it: it takes the changes in order, calls Handle for each event of a     *)
(* change and then Save, and an error ends it.  On a restart it may skip   *)
(* what the checkpoint covers or start again from the first change, as the *)
(* source does; both are modelled.                                         *)
(***************************************************************************)
EXTENDS Subscriptions, Sequences, FiniteSets

CONSTANTS
  Streams,    \* what the source may hold: each stream is a sequence of raw
              \* changes, each change the sequence of its events
  MaxFaults   \* bound: crashes, failed statements and lost commit replies

(* An event as the normalizer returns it.  key is the payment hash or the  *)
(* channel id, val the rest of the payload (Nil for an absent one), at its *)
(* created_at; ok says whether the payload decodes.                        *)
EventsOf(s) == UNION {{s[n][i] : i \in 1..Len(s[n])} : n \in 1..Len(s)}

ASSUME IndexerAssumption ==
  /\ MaxFaults \in Nat
  /\ \A s \in Streams :
       /\ s \in Seq(Seq(EventsOf(s)))
       /\ \A n \in 1..Len(s) : Len(s[n]) > 0
       /\ \A e1, e2 \in EventsOf(s) : e1.id = e2.id => e1 = e2

VARIABLES
  stream,   \* the stream the source holds; it never changes
  running,  \* the indexer process is up
  pos,      \* the change the Runner is at
  buf,      \* Projector.buf
  tx,       \* the open transaction of Save, or Nil
  db,       \* the committed tables the indexer writes
  order,    \* merchant_orders: the status of the order of each payment hash
  steady,   \* history: endpoints not changed since the transaction began
  faults    \* faults so far

vars == << stream, running, pos, buf, tx, db, order, steady, faults, subVars >>

StreamEvents == EventsOf(stream)
Hashes == {e.key : e \in {x \in StreamEvents : x.type = "invoice.paid"}}

(* events keeps the seq at which a row was inserted; payments, invoices    *)
(* and channels are functions on the keys that have a row.                 *)
EmptyDb == [events |-> {}, payments |-> <<>>, invoices |-> <<>>,
            channels |-> <<>>, deliveries |-> {}, checkpoint |-> 0]

TypeOK ==
  /\ SubTypeOK
  /\ stream \in Streams
  /\ running \in BOOLEAN
  /\ pos \in 1..Len(stream) + 1
  /\ \A i \in 1..Len(buf) : buf[i] \in StreamEvents
  /\ db.checkpoint \in 0..Len(stream)
  /\ \A x \in db.events : x.seq \in 1..Len(stream)
  /\ order \in [Hashes -> {"none", "pending", "paid"}]
  /\ steady \subseteq Urls
  /\ faults \in 0..MaxFaults

Init ==
  /\ SubInit
  /\ stream \in Streams
  /\ running = FALSE
  /\ pos = 1
  /\ buf = <<>>
  /\ tx = Nil
  /\ db = EmptyDb
  /\ order = [k \in Hashes |-> "none"]
  /\ steady = {}
  /\ faults = 0

-----------------------------------------------------------------------------
(***************************************************************************)
(* applyEvent, as functions of the tables                                  *)
(***************************************************************************)

(* An upsert: row v under key k.                                           *)
Put(table, k, v) ==
  [x \in DOMAIN table \cup {k} |-> IF x = k THEN v ELSE table[x]]

Ids(rows) == {x.id : x \in rows}

(* INSERT INTO events ... ON CONFLICT (id) DO NOTHING.                     *)
InsertEvent(d, e, seq) ==
  IF e.id \in Ids(d.events) THEN d
  ELSE [d EXCEPT !.events = @ \cup {[id |-> e.id, seq |-> seq]}]

(* The first payload that is not NULL stays; settled_at is the last one.   *)
ProjectInvoicePaidLast(d, e) ==
  [d EXCEPT !.invoices = Put(@, e.key, [val |-> e.val, settled |-> e.at])]
ProjectInvoicePaid(d, e) ==
  LET kept == IF e.key \in DOMAIN d.invoices THEN d.invoices[e.key].val ELSE Nil
  IN  [d EXCEPT !.invoices =
         Put(@, e.key, [val |-> IF kept = Nil THEN e.val ELSE kept,
                        settled |-> e.at])]

(* created_at is that of the first event, everything else of the last.     *)
ProjectPaymentReceived(d, e) ==
  LET created == IF e.key \in DOMAIN d.payments THEN d.payments[e.key].created ELSE e.at
  IN  [d EXCEPT !.payments =
         Put(@, e.key, [val |-> e.val, created |-> created, updated |-> e.at])]

ProjectChannelOpened(d, e) ==
  [d EXCEPT !.channels = Put(@, e.key, [val |-> e.val, opened |-> e.at])]

Project(d, e) ==
  CASE e.type = "invoice.paid"     -> ProjectInvoicePaid(d, e)
    [] e.type = "payment.received" -> ProjectPaymentReceived(d, e)
    [] e.type = "channel.opened"   -> ProjectChannelOpened(d, e)
    [] OTHER                       -> d

(* enqueueDeliveries: one row per matching endpoint, with its secret; a    *)
(* row with the id derived from (event, endpoint) is left as it is.        *)
EnqueueDeliveries(d, e) ==
  LET queued == {x.url : x \in {y \in d.deliveries : y.event = e.id}}
  IN  [d EXCEPT !.deliveries = @ \cup
         {[event |-> e.id, url |-> u, secret |-> endpoint[u].secret]
            : u \in Matching(e.type) \ queued}]

-----------------------------------------------------------------------------
(***************************************************************************)
(* The Runner and the Projector                                            *)
(***************************************************************************)

(* The process starts: a new Projector, Load, Subscribe.                   *)
Start ==
  /\ ~running
  /\ running' = TRUE
  /\ pos' \in {1, db.checkpoint + 1}
  /\ buf' = <<>>
  /\ UNCHANGED << stream, tx, db, order, steady, faults, subVars >>

(* Handle buffers the next event of the change.                            *)
Handle ==
  /\ running /\ tx = Nil /\ pos <= Len(stream)
  /\ Len(buf) < Len(stream[pos])
  /\ buf' = Append(buf, stream[pos][Len(buf) + 1])
  /\ UNCHANGED << stream, running, pos, tx, db, order, steady, faults, subVars >>

(* Save empties the buffer and opens the transaction.                      *)
SaveBegin ==
  /\ running /\ tx = Nil /\ pos <= Len(stream)
  /\ Len(buf) = Len(stream[pos])
  /\ tx' = [todo |-> buf, db |-> db, paid |-> {}]
  /\ buf' = <<>>
  /\ steady' = Urls
  /\ UNCHANGED << stream, running, pos, db, order, faults, subVars >>

(* applyEvent for the next buffered event: event row, projection, pending  *)
(* order, deliveries.  Nothing is visible outside the transaction yet.     *)
ApplyEventMatchingNow ==
  /\ tx # Nil /\ tx.todo # <<>>
  /\ LET e == Head(tx.todo)
     IN  /\ e.ok
         /\ tx' = [tx EXCEPT !.todo = Tail(@),
              !.db = EnqueueDeliveries(Project(InsertEvent(@, e, pos), e), e)]
         /\ order' = IF e.type = "invoice.paid" /\ order[e.key] = "pending"
                     THEN [order EXCEPT ![e.key] = "paid"] ELSE order
  /\ UNCHANGED << stream, running, pos, buf, db, steady, faults, subVars >>
ApplyEvent ==
  /\ tx # Nil /\ tx.todo # <<>>
  /\ LET e == Head(tx.todo)
     IN  /\ e.ok
         /\ tx' = [todo |-> Tail(tx.todo),
                   db   |-> EnqueueDeliveries(Project(InsertEvent(tx.db, e, pos), e), e),
                   paid |-> IF e.type = "invoice.paid" /\ order[e.key] = "pending"
                            THEN tx.paid \cup {e.key} ELSE tx.paid]
  /\ UNCHANGED << stream, running, pos, buf, db, order, steady, faults, subVars >>

(* The checkpoint is set to this change and the transaction commits.  If   *)
(* the reply is lost the transaction has committed and Save fails.         *)
CommitWrongStatus ==
  /\ tx # Nil /\ tx.todo = <<>>
  /\ db' = [tx.db EXCEPT !.checkpoint = pos]
  /\ order' = [k \in Hashes |-> IF k \in tx.paid THEN "succeeded" ELSE order[k]]
  /\ tx' = Nil
  /\ running' = TRUE /\ pos' = pos + 1
  /\ UNCHANGED << stream, buf, steady, faults, subVars >>
Commit ==
  /\ tx # Nil /\ tx.todo = <<>>
  /\ db' = [tx.db EXCEPT !.checkpoint = pos]
  /\ order' = [k \in Hashes |-> IF k \in tx.paid THEN "paid" ELSE order[k]]
  /\ tx' = Nil
  /\ \/ running' = TRUE /\ pos' = pos + 1 /\ UNCHANGED faults
     \/ /\ faults < MaxFaults
        /\ running' = FALSE /\ faults' = faults + 1 /\ UNCHANGED pos
  /\ UNCHANGED << stream, buf, steady, subVars >>

(* A payload does not decode: the transaction rolls back, the Runner ends  *)
(* with the error and so does the process.                                 *)
RollbackRetrying ==
  /\ tx # Nil /\ tx.todo # <<>> /\ ~Head(tx.todo).ok
  /\ tx' = [todo |-> buf, db |-> db, paid |-> {}]
  /\ UNCHANGED << stream, running, pos, buf, db, order, steady, faults, subVars >>
RollbackKeepsRunning ==
  /\ tx # Nil /\ tx.todo # <<>> /\ ~Head(tx.todo).ok
  /\ tx' = Nil
  /\ UNCHANGED << stream, running, pos, buf, db, order, steady, faults, subVars >>
Rollback ==
  /\ tx # Nil /\ tx.todo # <<>> /\ ~Head(tx.todo).ok
  /\ tx' = Nil
  /\ running' = FALSE
  /\ UNCHANGED << stream, pos, buf, db, order, steady, faults, subVars >>

(* The process stops, or a statement fails: an open transaction is rolled  *)
(* back and the buffer is gone.                                            *)
Crash ==
  /\ running /\ faults < MaxFaults
  /\ running' = FALSE
  /\ tx' = Nil
  /\ buf' = <<>>
  /\ faults' = faults + 1
  /\ UNCHANGED << stream, pos, db, order, steady, subVars >>

(* The source has closed the stream: Run returns.                          *)
Finish ==
  /\ running /\ tx = Nil /\ pos > Len(stream)
  /\ running' = FALSE
  /\ UNCHANGED << stream, pos, buf, tx, db, order, steady, faults, subVars >>

-----------------------------------------------------------------------------
(***************************************************************************)
(* What the API does meanwhile                                             *)
(***************************************************************************)

(* A subscription is created, changed or removed.                          *)
Subscribe(u) ==
  /\ (\E types \in SUBSET Types : Create(u, types)) \/ Remove(u)
  /\ steady' = steady \ {u}
  /\ UNCHANGED << stream, running, pos, buf, tx, db, order, faults >>

(* CreateOrder inserts the order of an invoice.                            *)
InsertOrder(k) ==
  /\ order[k] = "none"
  /\ order' = [order EXCEPT ![k] = "pending"]
  /\ UNCHANGED << stream, running, pos, buf, tx, db, steady, faults, subVars >>

Next ==
  \/ Start \/ Handle \/ SaveBegin \/ ApplyEvent \/ Commit \/ Rollback
  \/ Crash \/ Finish
  \/ \E u \in Urls : Subscribe(u)
  \/ \E k \in Hashes : InsertOrder(k)

Spec == Init /\ [][Next]_vars

(* The process, once started, goes on: Run drives the Runner in the        *)
(* foreground.  Nothing restarts it: deployments run it as a job.          *)
Run == Handle \/ SaveBegin \/ ApplyEvent \/ Commit \/ Rollback \/ Finish
FairSpec == Spec /\ WF_vars(Run)

-----------------------------------------------------------------------------
(***************************************************************************)
(* Properties                                                              *)
(***************************************************************************)

(* Nothing is lost: every event of every change up to the checkpoint is in *)
(* the events table, wherever the process stopped and whatever was         *)
(* replayed.  Save gives up its buffer before it knows that the            *)
(* transaction commits.                                                    *)
CheckpointCovers ==
  \A n \in 1..db.checkpoint : \A i \in 1..Len(stream[n]) :
    stream[n][i].id \in Ids(db.events)

(* A run that is not disturbed ends, and has committed the whole stream    *)
(* unless a change does not decode, from whichever change it started and   *)
(* whatever subscriptions and orders do meanwhile.                         *)
RunCompletes ==
  (running /\ faults = MaxFaults) ~>
    /\ ~running
    /\ (\A e \in StreamEvents : e.ok) => db.checkpoint = Len(stream)

(* The committed events of a type.                                         *)
Committed(type) == {e \in StreamEvents : e.type = type /\ e.id \in Ids(db.events)}

(* All or nothing: a projection has a row exactly when an event of that    *)
(* key has been committed, an order is paid only with its invoice, and a   *)
(* delivery has its event; the change that fails half way leaves no trace. *)
AllOrNothing ==
  /\ DOMAIN db.invoices = {e.key : e \in Committed("invoice.paid")}
  /\ DOMAIN db.payments = {e.key : e \in Committed("payment.received")}
  /\ DOMAIN db.channels = {e.key : e \in Committed("channel.opened")}
  /\ \A k \in Hashes : order[k] = "paid" => k \in DOMAIN db.invoices
  /\ \A x \in db.deliveries : x.event \in Ids(db.events)

(* The outbox misses no subscriber: when an event is committed, every      *)
(* endpoint that was active and subscribed to its type throughout the      *)
(* transaction gets a delivery, committed in the same step.                *)
AtomicOutbox ==
  [][\A e \in StreamEvents : (e.id \in Ids(db'.events) \ Ids(db.events)) =>
       \A u \in steady : (Active(u) /\ e.type \in endpoint[u].types) =>
         \E x \in db'.deliveries : x.event = e.id /\ x.url = u]_vars

(* The last change that has been committed: event rows keep the seq of     *)
(* their first insertion.                                                  *)
Reach == IF db.events = {} THEN 0
         ELSE CHOOSE n \in Ids({[id |-> x.seq] : x \in db.events}) :
                \A x \in db.events : x.seq <= n

(* The places of the events in the first n changes, and of those of one    *)
(* type and key.                                                           *)
Places(n) == UNION {{<< m, i >> : i \in 1..Len(stream[m])} : m \in 1..n}
EventAt(p) == stream[p[1]][p[2]]
PlacesOf(type, k, n) ==
  {p \in Places(n) : EventAt(p).type = type /\ EventAt(p).key = k}

(* The first and the last event of a set of places.                        *)
Before(p, q) == p[1] < q[1] \/ (p[1] = q[1] /\ p[2] < q[2])
FirstOf(S) == EventAt(CHOOSE p \in S : \A q \in S : q = p \/ Before(p, q))
LastOf(S)  == EventAt(CHOOSE p \in S : \A q \in S : q = p \/ Before(q, p))

(* Replay converges: whenever the checkpoint stands at the last change     *)
(* ever committed, the projections are what one undisturbed pass over the  *)
(* stream gives, however often changes were applied again and from where.  *)
ProjectionsConverge ==
  db.checkpoint = Reach =>
    /\ \A k \in DOMAIN db.payments :
         LET h == PlacesOf("payment.received", k, Reach)
         IN  db.payments[k] = [val |-> LastOf(h).val, created |-> FirstOf(h).at,
                               updated |-> LastOf(h).at]
    /\ \A k \in DOMAIN db.invoices :
         LET h   == PlacesOf("invoice.paid", k, Reach)
             set == {p \in h : EventAt(p).val # Nil}
         IN  db.invoices[k] = [val |-> IF set = {} THEN Nil ELSE FirstOf(set).val,
                               settled |-> LastOf(h).at]
    /\ \A k \in DOMAIN db.channels :
         LET h == PlacesOf("channel.opened", k, Reach)
         IN  db.channels[k] = [val |-> LastOf(h).val, opened |-> LastOf(h).at]
=============================================================================
