---------------------------- MODULE ReplayProofs ----------------------------
(***************************************************************************)
(* Proofs about replay: however often the indexer restarts and from which  *)
(* change, its projections end as one undisturbed pass leaves them.        *)
(***************************************************************************)
EXTENDS IndexerProofs

(***************************************************************************)
(* The inductive invariant                                                 *)
(***************************************************************************)

(* The types that have a projection, and the table of each.                *)
Kinds == {"payment.received", "invoice.paid", "channel.opened"}
TableOf(d, type) ==
  IF type = "payment.received" THEN d.payments
  ELSE IF type = "invoice.paid" THEN d.invoices ELSE d.channels

(* A row shows event e as the last one of its key.                         *)
Shows(type, row, e) ==
  row = IF type = "payment.received"
        THEN [val |-> e.val, created |-> row.created, updated |-> e.at]
        ELSE IF type = "invoice.paid" THEN [val |-> row.val, settled |-> e.at]
        ELSE [val |-> e.val, opened |-> e.at]

(* The places in P of the events of one type and key.                      *)
Of(type, k, P) == {p \in P : EventAt(p).type = type /\ EventAt(p).key = k}

IsFirst(p, S) == p \in S /\ \A q \in S : q = p \/ Before(p, q)
IsLast(p, S)  == p \in S /\ \A q \in S : q = p \/ Before(q, p)

AllPlaces == Places(Len(stream))

(* Each key with an event in P has a row, which shows the last one in P.   *)
Shown(d, type, k, P) ==
  /\ k \in DOMAIN TableOf(d, type)
  /\ \E p \in P : IsLast(p, Of(type, k, P)) /\ Shows(type, TableOf(d, type)[k], EventAt(p))
LastShown(d, P) ==
  \A q \in P : EventAt(q).type \in Kinds => Shown(d, EventAt(q).type, EventAt(q).key, P)

(* created_at of a payment is that of the first event of the stream.       *)
FirstCreated(d) ==
  \A k \in DOMAIN d.payments :
    \E p \in AllPlaces :
           /\ IsFirst(p, Of("payment.received", k, AllPlaces))
           /\ d.payments[k].created = EventAt(p).at

(* The places of the events of an invoice that carry a payload.            *)
Valued(k) == {p \in Of("invoice.paid", k, AllPlaces) : EventAt(p).val # Nil}

(* The payload of an invoice is the first one of the stream; as long as it *)
(* has none, no event that has been applied carries one.                   *)
FirstValue(d) ==
  \A k \in DOMAIN d.invoices :
    IF d.invoices[k].val = Nil
    THEN \A p \in Valued(k) : EventAt(p).id \notin Ids(d.events)
    ELSE \E p \in AllPlaces :
                /\ IsFirst(p, Valued(k)) /\ EventAt(p).id \in Ids(d.events)
                /\ d.invoices[k].val = EventAt(p).val

(* An event row keeps the change it came with, and one has the last.       *)
SeqsKept(d) ==
  /\ \A x \in d.events : \E i \in 1..Len(stream[x.seq]) : stream[x.seq][i].id = x.id
  /\ d.events # {} => \E x \in d.events : \A y \in d.events : y.seq <= x.seq

Firsts(d) == FirstCreated(d) /\ FirstValue(d) /\ SeqsKept(d)

(* The places up to the event the open transaction has applied last.       *)
AppliedPlaces == Places(pos - 1) \cup {<< pos, i >> : i \in 1..Applied}

(* The committed tables show the last events up to the checkpoint and, of  *)
(* a running process, up to the change it is at, which after a restart may *)
(* lie far before the checkpoint.                                          *)
ReplayInv ==
  /\ Firsts(db)
  /\ LastShown(db, Places(db.checkpoint))
  /\ running => LastShown(db, Places(pos - 1))
  /\ tx # Nil => Firsts(tx.db) /\ LastShown(tx.db, AppliedPlaces)

-----------------------------------------------------------------------------
(***************************************************************************)
(* Places in the stream                                                    *)
(***************************************************************************)

(* A place is a change and an index in it, and has an event.               *)
LEMMA PlaceFacts ==
  ASSUME stream \in Streams, NEW n, n \in 0..Len(stream), NEW p \in Places(n)
  PROVE  /\ p[1] \in 1..n /\ p[2] \in 1..Len(stream[p[1]]) /\ p = << p[1], p[2] >>
         /\ p[1] \in Nat /\ p[2] \in Nat
         /\ EventAt(p) \in StreamEvents
<1>1. PICK m \in 1..n : p \in {<< m, i >> : i \in 1..Len(stream[m])}
  BY DEF Places
<1>2. PICK i \in 1..Len(stream[m]) : p = << m, i >>
  BY <1>1
<1>3. Len(stream) \in Nat /\ stream[m] \in Seq(StreamEvents) /\ m \in 1..Len(stream)
  <2>1. Len(stream) \in Nat
    BY StreamFacts
  <2>2. m \in 1..Len(stream)
    BY <2>1
  <2>3. QED
    BY <2>1, <2>2, StreamFacts
<1>4. stream[m][i] \in StreamEvents
  BY <1>3
<1>5. QED
  BY <1>2, <1>3, <1>4 DEF EventAt

(* Every index of a change is a place.                                     *)
LEMMA PlaceIn ==
  ASSUME NEW n, NEW m \in 1..n, NEW i \in 1..Len(stream[m])
  PROVE  << m, i >> \in Places(n)
BY DEF Places

(* Fewer changes have fewer places; one change more adds its own.          *)
LEMMA PlacesGrow ==
  ASSUME stream \in Streams, NEW n \in Nat, NEW m \in Nat, n <= m
  PROVE  Places(n) \subseteq Places(m)
<1>1. 1..n \subseteq 1..m
  OBVIOUS
<1>2. QED
  BY <1>1 DEF Places

(* One change more adds its own places.                                    *)
LEMMA PlacesNext ==
  ASSUME NEW n \in Nat \ {0}
  PROVE  Places(n) = Places(n - 1) \cup {<< n, i >> : i \in 1..Len(stream[n])}
<1>1. 1..n = (1..n - 1) \cup {n}
  OBVIOUS
<1>2. QED
  BY <1>1 DEF Places

(* The first and the last place of a set are what FirstOf and LastOf take. *)
LEMMA FirstIs ==
  ASSUME stream \in Streams, NEW S \in SUBSET AllPlaces, NEW p \in S, IsFirst(p, S)
  PROVE  FirstOf(S) = EventAt(p)
<1> DEFINE c == CHOOSE x \in S : \A q \in S : q = x \/ Before(x, q)
<1>0. Len(stream) \in 0..Len(stream)
  BY StreamFacts
<1>1. c \in S /\ \A q \in S : q = c \/ Before(c, q)
  BY DEF IsFirst
<1>2. p[1] \in Nat /\ p[2] \in Nat /\ c[1] \in Nat /\ c[2] \in Nat
  BY <1>0, <1>1, PlaceFacts DEF AllPlaces
<1> HIDE DEF c
<1>3. c = p
  BY <1>1, <1>2 DEF IsFirst, Before
<1>4. QED
  BY <1>3 DEF FirstOf, c

(* Likewise for the last place.                                            *)
LEMMA LastIs ==
  ASSUME stream \in Streams, NEW S \in SUBSET AllPlaces, NEW p \in S, IsLast(p, S)
  PROVE  LastOf(S) = EventAt(p)
<1> DEFINE c == CHOOSE x \in S : \A q \in S : q = x \/ Before(q, x)
<1>0. Len(stream) \in 0..Len(stream)
  BY StreamFacts
<1>1. c \in S /\ \A q \in S : q = c \/ Before(q, c)
  BY DEF IsLast
<1>2. p[1] \in Nat /\ p[2] \in Nat /\ c[1] \in Nat /\ c[2] \in Nat
  BY <1>0, <1>1, PlaceFacts DEF AllPlaces
<1> HIDE DEF c
<1>3. c = p
  BY <1>1, <1>2 DEF IsLast, Before
<1>4. QED
  BY <1>3 DEF LastOf, c

-----------------------------------------------------------------------------
(***************************************************************************)
(* What applyEvent does to the rows of the projections                     *)
(***************************************************************************)

(* The row of the event's key shows the event, the other rows stay; the    *)
(* first created_at and the first payload stay as well.                    *)
RowProjected(d, e, n) ==
  /\ \A type \in Kinds :
       /\ e.type = type =>
            /\ e.key \in DOMAIN TableOf(n, type)
            /\ Shows(type, TableOf(n, type)[e.key], e)
       /\ \A k \in DOMAIN TableOf(d, type) :
            /\ k \in DOMAIN TableOf(n, type)
            /\ (e.type # type \/ k # e.key) => TableOf(n, type)[k] = TableOf(d, type)[k]
  /\ \A k \in DOMAIN n.payments : n.payments[k].created =
       IF k \in DOMAIN d.payments THEN d.payments[k].created ELSE e.at
  /\ \A k \in DOMAIN n.invoices : n.invoices[k].val =
       IF k \in DOMAIN d.invoices /\ d.invoices[k].val # Nil
       THEN d.invoices[k].val
       ELSE IF e.type = "invoice.paid" /\ k = e.key THEN e.val ELSE Nil

(* What Project writes into the row of each table.                         *)
LEMMA ProjectRows ==
  ASSUME NEW d, IsDb(d), NEW e, NEW n, n = Project(d, e)
  PROVE  RowProjected(d, e, n)
<1>1. CASE e.type = "invoice.paid"
  <2> DEFINE kept == IF e.key \in DOMAIN d.invoices THEN d.invoices[e.key].val ELSE Nil
             v == [val |-> IF kept = Nil THEN e.val ELSE kept, settled |-> e.at]
  <2>1. n = [d EXCEPT !.invoices = Put(d.invoices, e.key, v)]
    BY <1>1 DEF Project, ProjectInvoicePaid
  <2>2. n.invoices = Put(d.invoices, e.key, v) /\ n.payments = d.payments /\ n.channels = d.channels
    BY <2>1, DbExcept
  <2>3. v = [val |-> v.val, settled |-> e.at] /\ v.val = IF kept = Nil THEN e.val ELSE kept
    OBVIOUS
  <2> HIDE DEF v
  <2>4. /\ DOMAIN n.invoices = DOMAIN d.invoices \cup {e.key} /\ n.invoices[e.key] = v
        /\ \A k \in DOMAIN d.invoices : k # e.key => n.invoices[k] = d.invoices[k]
    BY <2>2 DEF Put
  <2>5. QED
    BY <1>1, <2>2, <2>3, <2>4 DEF RowProjected, TableOf, Shows, Kinds
<1>2. CASE e.type = "payment.received"
  <2> DEFINE created == IF e.key \in DOMAIN d.payments THEN d.payments[e.key].created ELSE e.at
             v == [val |-> e.val, created |-> created, updated |-> e.at]
  <2>1. n = [d EXCEPT !.payments = Put(d.payments, e.key, v)]
    BY <1>2 DEF Project, ProjectPaymentReceived
  <2>2. n.payments = Put(d.payments, e.key, v) /\ n.invoices = d.invoices /\ n.channels = d.channels
    BY <2>1, DbExcept
  <2>3. v = [val |-> e.val, created |-> v.created, updated |-> e.at] /\ v.created = created
    OBVIOUS
  <2> HIDE DEF v
  <2>4. /\ DOMAIN n.payments = DOMAIN d.payments \cup {e.key} /\ n.payments[e.key] = v
        /\ \A k \in DOMAIN d.payments : k # e.key => n.payments[k] = d.payments[k]
    BY <2>2 DEF Put
  <2>5. QED
    BY <1>2, <2>2, <2>3, <2>4 DEF RowProjected, TableOf, Shows, Kinds
<1>3. CASE e.type = "channel.opened"
  <2> DEFINE v == [val |-> e.val, opened |-> e.at]
  <2>1. n = [d EXCEPT !.channels = Put(d.channels, e.key, v)]
    BY <1>3 DEF Project, ProjectChannelOpened
  <2>2. n.channels = Put(d.channels, e.key, v) /\ n.payments = d.payments /\ n.invoices = d.invoices
    BY <2>1, DbExcept
  <2>4. /\ DOMAIN n.channels = DOMAIN d.channels \cup {e.key} /\ n.channels[e.key] = v
        /\ \A k \in DOMAIN d.channels : k # e.key => n.channels[k] = d.channels[k]
    BY <2>2 DEF Put
  <2>5. QED
    BY <1>3, <2>2, <2>4 DEF RowProjected, TableOf, Shows, Kinds
<1>4. CASE e.type \notin Kinds
  <2>1. n = d
    BY <1>4 DEF Project, Kinds
  <2>2. QED
    BY <1>4, <2>1 DEF RowProjected, Kinds
<1>5. QED
  BY <1>1, <1>2, <1>3, <1>4 DEF Kinds

(* The same for the whole of applyEvent, with the event row.               *)
LEMMA ApplyRows ==
  ASSUME NEW d, IsDb(d), NEW e, NEW seq, NEW d1, NEW d2, NEW n,
         d1 = InsertEvent(d, e, seq), d2 = Project(d1, e), n = EnqueueDeliveries(d2, e)
  PROVE  /\ RowProjected(d, e, n)
         /\ \/ n.events = d.events
            \/ n.events = d.events \cup {[id |-> e.id, seq |-> seq]}
<1>1. IsDb(d1) /\ EventInserted(d, e, seq, d1)
  BY InsertEventFacts
<1>2. IsDb(d2) /\ Projected(d1, e, d2) /\ RowProjected(d1, e, d2)
  BY <1>1, ProjectFacts, ProjectRows
<1>3. IsDb(n) /\ Enqueued(d2, e, n)
  BY <1>2, EnqueueFacts
<1>4. /\ d1.payments = d.payments /\ d1.invoices = d.invoices /\ d1.channels = d.channels
      /\ n.payments = d2.payments /\ n.invoices = d2.invoices /\ n.channels = d2.channels
      /\ n.events = d1.events
  BY <1>1, <1>2, <1>3 DEF EventInserted, Projected, Enqueued
<1>5. \A type : TableOf(d1, type) = TableOf(d, type) /\ TableOf(n, type) = TableOf(d2, type)
  BY <1>4 DEF TableOf
<1>6. RowProjected(d, e, n)
  BY <1>2, <1>4, <1>5 DEF RowProjected
<1>7. \/ d1.events = d.events
      \/ d1.events = d.events \cup {[id |-> e.id, seq |-> seq]}
  <2>1. CASE e.id \in Ids(d.events)
    BY <2>1 DEF InsertEvent
  <2>2. CASE e.id \notin Ids(d.events)
    BY <2>2, DbExcept DEF InsertEvent
  <2>3. QED
    BY <2>1, <2>2
<1>8. QED
  BY <1>4, <1>6, <1>7

(* One event more, at a place behind all those applied before.             *)
LEMMA ApplyShown ==
  ASSUME NEW d, NEW n, NEW P, NEW z, LastShown(d, P), RowProjected(d, EventAt(z), n),
         \A q \in P : Before(q, z)
  PROVE  LastShown(n, P \cup {z})
<1> DEFINE e == EventAt(z)
           Q == P \cup {z}
<1> SUFFICES ASSUME NEW q \in Q, EventAt(q).type \in Kinds
             PROVE  Shown(n, EventAt(q).type, EventAt(q).key, Q)
  BY DEF LastShown
<1> DEFINE type == EventAt(q).type
           k == EventAt(q).key
<1>1. CASE e.type = type /\ e.key = k
  <2>1. k \in DOMAIN TableOf(n, type) /\ Shows(type, TableOf(n, type)[k], e)
    BY <1>1 DEF RowProjected
  <2>2. IsLast(z, Of(type, k, Q))
    BY <1>1 DEF IsLast, Of
  <2>3. QED
    BY <2>1, <2>2 DEF Shown
<1>2. CASE ~(e.type = type /\ e.key = k)
  <2>1. q \in P
    BY <1>2
  <2>2. Shown(d, type, k, P)
    BY <2>1 DEF LastShown
  <2>3. Of(type, k, Q) = Of(type, k, P)
    BY <1>2 DEF Of
  <2>4. k \in DOMAIN TableOf(n, type) /\ TableOf(n, type)[k] = TableOf(d, type)[k]
    BY <1>2, <2>2 DEF RowProjected, Shown
  <2>5. QED
    BY <2>2, <2>3, <2>4 DEF Shown
<1>3. QED
  BY <1>1, <1>2

(* The firsts stay the firsts: a key without a row has had no event yet,   *)
(* and an invoice without a payload none that carries one.                 *)
LEMMA ApplyFirsts ==
  ASSUME stream \in Streams, NEW d, NEW n, NEW z \in AllPlaces, Whole(d), Firsts(d),
         EventApplied(d, EventAt(z), n), RowProjected(d, EventAt(z), n),
         \/ n.events = d.events
         \/ n.events = d.events \cup {[id |-> EventAt(z).id, seq |-> z[1]]},
         \A q \in AllPlaces : Before(q, z) => EventAt(q).id \in Ids(d.events)
  PROVE  Firsts(n)
<1> DEFINE e == EventAt(z)
<1>0. Len(stream) \in 0..Len(stream)
  BY StreamFacts
<1>1. /\ \A q \in AllPlaces : q[1] \in Nat /\ q[2] \in Nat /\ q = << q[1], q[2] >>
                              /\ EventAt(q) \in StreamEvents
      /\ z[1] \in 1..Len(stream) /\ z[2] \in 1..Len(stream[z[1]])
  BY <1>0, PlaceFacts DEF AllPlaces
<1>2. \A q \in AllPlaces : q = z \/ Before(q, z) \/ Before(z, q)
  BY <1>1 DEF Before
<1>3. /\ DOMAIN d.payments = KeysIn(d, "payment.received")
      /\ DOMAIN d.invoices = KeysIn(d, "invoice.paid")
      /\ DOMAIN n.payments = KeysIn(n, "payment.received")
      /\ DOMAIN n.invoices = KeysIn(n, "invoice.paid")
      /\ Ids(n.events) = Ids(d.events) \cup {e.id}
  BY DEF Whole, EventApplied
<1>4. FirstCreated(n)
  <2> SUFFICES ASSUME NEW k \in DOMAIN n.payments
               PROVE  \E p \in AllPlaces :
                        /\ IsFirst(p, Of("payment.received", k, AllPlaces))
                        /\ n.payments[k].created = EventAt(p).at
    BY DEF FirstCreated
  <2>1. CASE k \in DOMAIN d.payments
    BY <2>1 DEF RowProjected, Firsts, FirstCreated
  <2>2. CASE k \notin DOMAIN d.payments
    <3>1. e.type = "payment.received" /\ e.key = k
      <4>1. PICK x \in StreamEvents : x = e
        BY <1>1
      <4>2. Ids(n.events) = Ids(d.events) \cup {x.id}
        BY <1>3, <4>1
      <4>3. KeysIn(n, "payment.received") = KeysIn(d, "payment.received") \cup KeyIf(x, "payment.received")
        BY <4>2, KeysAdd
      <4>4. QED
        BY <1>3, <2>2, <4>1, <4>3 DEF KeyIf
    <3>2. n.payments[k].created = e.at
      BY <2>2 DEF RowProjected
    <3>3. ASSUME NEW q \in Of("payment.received", k, AllPlaces) PROVE ~Before(q, z)
      <4> SUFFICES ASSUME Before(q, z) PROVE FALSE
        OBVIOUS
      <4>1. EventAt(q) \in StreamEvents /\ EventAt(q).id \in Ids(d.events)
        BY <1>1, <3>3 DEF Of
      <4>2. k \in KeysIn(d, "payment.received")
        BY <3>3, <4>1 DEF Of, KeysIn
      <4>3. QED
        BY <1>3, <2>2, <4>2
    <3>4. IsFirst(z, Of("payment.received", k, AllPlaces))
      BY <1>2, <3>1, <3>3 DEF IsFirst, Of
    <3>5. QED
      BY <3>2, <3>4
  <2>3. QED
    BY <2>1, <2>2
<1>5. FirstValue(n)
  <2> SUFFICES ASSUME NEW k \in DOMAIN n.invoices
               PROVE  IF n.invoices[k].val = Nil
                      THEN \A p \in Valued(k) : EventAt(p).id \notin Ids(n.events)
                      ELSE \E p \in AllPlaces :
                             /\ IsFirst(p, Valued(k)) /\ EventAt(p).id \in Ids(n.events)
                             /\ n.invoices[k].val = EventAt(p).val
    BY DEF FirstValue
  <2>1. CASE k \in DOMAIN d.invoices /\ d.invoices[k].val # Nil
    <3>1. n.invoices[k].val = d.invoices[k].val
      BY <2>1 DEF RowProjected
    <3>2. QED
      BY <1>3, <2>1, <3>1 DEF Firsts, FirstValue
  <2>2. CASE ~(k \in DOMAIN d.invoices /\ d.invoices[k].val # Nil)
    <3>1. \A p \in Valued(k) : EventAt(p).id \notin Ids(d.events)
      <4>1. CASE k \in DOMAIN d.invoices
        BY <2>2, <4>1 DEF Firsts, FirstValue
      <4>2. CASE k \notin DOMAIN d.invoices
        BY <1>1, <1>3, <4>2 DEF Valued, Of, KeysIn
      <4>3. QED
        BY <4>1, <4>2
    <3>2. n.invoices[k].val = IF e.type = "invoice.paid" /\ k = e.key THEN e.val ELSE Nil
      BY <2>2 DEF RowProjected
    <3>3. CASE n.invoices[k].val # Nil
      <4>1. z \in Valued(k) /\ n.invoices[k].val = e.val
        BY <3>2, <3>3 DEF Valued, Of
      <4>2. \A q \in Valued(k) : q = z \/ Before(z, q)
        BY <1>2, <3>1 DEF Valued, Of
      <4>3. IsFirst(z, Valued(k)) /\ e.id \in Ids(n.events)
        BY <1>3, <4>1, <4>2 DEF IsFirst
      <4>4. QED
        BY <3>3, <4>1, <4>3
    <3>4. CASE n.invoices[k].val = Nil
      <4>1. ASSUME NEW p \in Valued(k) PROVE EventAt(p).id # e.id
        <5> SUFFICES ASSUME EventAt(p).id = e.id PROVE FALSE
          OBVIOUS
        <5>1. EventAt(p) = e
          BY <1>1, StreamFacts DEF Valued, Of
        <5>2. e.type = "invoice.paid" /\ e.key = k /\ e.val # Nil
          BY <5>1 DEF Valued, Of
        <5>3. QED
          BY <3>2, <3>4, <5>2
      <4>2. QED
        BY <1>3, <3>1, <3>4, <4>1
    <3>5. QED
      BY <3>3, <3>4
  <2>3. QED
    BY <2>1, <2>2
<1>6. SeqsKept(n)
  <2> DEFINE row == [id |-> e.id, seq |-> z[1]]
  <2>1. row.id = e.id /\ row.seq = z[1]
    OBVIOUS
  <2>2. \E i \in 1..Len(stream[row.seq]) : stream[row.seq][i].id = row.id
    BY <1>1 DEF EventAt
  <2>3. n.events = d.events \/ n.events = d.events \cup {row}
    OBVIOUS
  <2> HIDE DEF row
  <2>4. \A x \in n.events : \E i \in 1..Len(stream[x.seq]) : stream[x.seq][i].id = x.id
    BY <2>2, <2>3 DEF Firsts, SeqsKept
  <2>5. n.events # {} => \E x \in n.events : \A y \in n.events : y.seq <= x.seq
    <3>1. CASE n.events = d.events
      BY <3>1 DEF Firsts, SeqsKept
    <3>2. CASE n.events = d.events \cup {row} /\ d.events = {}
      BY <1>1, <2>1, <3>2
    <3>3. CASE n.events = d.events \cup {row} /\ d.events # {}
      <4>1. PICK x \in d.events : \A y \in d.events : y.seq <= x.seq
        BY <3>3 DEF Firsts, SeqsKept
      <4>2. \A y \in d.events : y.seq \in Int
        BY DEF Whole
      <4>3. CASE x.seq <= row.seq
        BY <1>1, <2>1, <3>3, <4>1, <4>2, <4>3
      <4>4. CASE ~(x.seq <= row.seq)
        BY <1>1, <2>1, <3>3, <4>1, <4>2, <4>4
      <4>5. QED
        BY <4>3, <4>4
    <3>4. QED
      BY <2>3, <3>1, <3>2, <3>3
  <2>6. QED
    BY <2>4, <2>5 DEF SeqsKept
<1>7. QED
  BY <1>4, <1>5, <1>6 DEF Firsts

-----------------------------------------------------------------------------
(***************************************************************************)
(* Every step keeps the invariant                                          *)
(***************************************************************************)

(* The stream never changes: what is said of given tables stays true.      *)
LEMMA SameStream ==
  ASSUME stream' = stream
  PROVE  /\ \A p : EventAt(p)' = EventAt(p)
         /\ \A n : Places(n)' = Places(n)
         /\ AllPlaces' = AllPlaces
         /\ \A type, k, P : Of(type, k, P)' = Of(type, k, P)
         /\ \A k : Valued(k)' = Valued(k)
BY DEF EventAt, Places, AllPlaces, Of, Valued

(* The facts about the tables do not depend on anything but the stream.    *)
LEMMA SameTables ==
  ASSUME stream' = stream, NEW d
  PROVE  /\ Firsts(d) => Firsts(d)'
         /\ \A P : LastShown(d, P) => LastShown(d, P)'
<1>1. FirstCreated(d) => FirstCreated(d)'
  BY SameStream DEF FirstCreated
<1>2. FirstValue(d) => FirstValue(d)'
  BY SameStream DEF FirstValue
<1>3. SeqsKept(d) => SeqsKept(d)'
  BY DEF SeqsKept
<1>4. \A P : LastShown(d, P) => LastShown(d, P)'
  BY SameStream DEF LastShown, Shown
<1>5. QED
  BY <1>1, <1>2, <1>3, <1>4 DEF Firsts

(* Only the tables count, not the checkpoint in the record with them.      *)
LEMMA TablesOnly ==
  ASSUME NEW d, NEW n, n.events = d.events, n.payments = d.payments,
         n.invoices = d.invoices, n.channels = d.channels
  PROVE  /\ Firsts(d) => Firsts(n)
         /\ \A P : LastShown(d, P) => LastShown(n, P)
<1>1. Firsts(d) => Firsts(n)
  BY DEF Firsts, FirstCreated, FirstValue, SeqsKept
<1>2. \A type : TableOf(n, type) = TableOf(d, type)
  BY DEF TableOf
<1>3. \A P : LastShown(d, P) => LastShown(n, P)
  BY <1>2 DEF LastShown, Shown
<1>4. QED
  BY <1>1, <1>3

(* What has to be shown of a step: the invariant of the new tables, over   *)
(* the same stream.                                                        *)
LEMMA ReplayStep ==
  ASSUME stream' = stream, NEW d, d = db', NEW t, t = tx'.db, NEW A, A = AppliedPlaces',
         Firsts(d), LastShown(d, Places(db'.checkpoint)),
         running' => LastShown(d, Places(pos' - 1)),
         tx' # Nil => Firsts(t) /\ LastShown(t, A)
  PROVE  ReplayInv'
<1>1. PICK P, Q : P = Places(db'.checkpoint) /\ Q = Places(pos' - 1)
  OBVIOUS
<1>2. Places(db.checkpoint)' = P /\ Places(pos - 1)' = Q
  BY <1>1 DEF Places
<1>3. Firsts(d)' /\ LastShown(d, P)' /\ (running' => LastShown(d, Q)')
  BY <1>1, SameTables
<1>4. tx' # Nil => Firsts(t)' /\ LastShown(t, A)'
  BY SameTables
<1>5. QED
  BY <1>2, <1>3, <1>4 DEF ReplayInv

(* A step that leaves the tables, the transaction and the Runner alone.    *)
LEMMA ReplayFrame ==
  ASSUME ReplayInv, UNCHANGED << stream, tx, db, running, pos >>
  PROVE  ReplayInv'
<1>1. PICK d, t, A : d = db /\ t = tx.db /\ A = AppliedPlaces
  OBVIOUS
<1>2. AppliedPlaces' = AppliedPlaces
  BY SameStream DEF AppliedPlaces, Applied
<1>3. /\ Firsts(d) /\ LastShown(d, Places(db.checkpoint))
      /\ running => LastShown(d, Places(pos - 1))
      /\ tx # Nil => Firsts(t) /\ LastShown(t, A)
  BY <1>1 DEF ReplayInv
<1>4. QED
  BY <1>1, <1>2, <1>3, ReplayStep

(* Without places there is nothing to show.                                *)
LEMMA NothingShown == \A d : LastShown(d, Places(0))
<1>1. Places(0) = {}
  BY DEF Places
<1>2. QED
  BY <1>1 DEF LastShown

(* The empty tables.                                                       *)
LEMMA ReplayInit == Init => ReplayInv
<1> SUFFICES ASSUME Init PROVE ReplayInv
  OBVIOUS
<1>1. DOMAIN << >> = {}
  OBVIOUS
<1>2. /\ db.events = {} /\ db.payments = << >> /\ db.invoices = << >>
      /\ db.checkpoint = 0 /\ ~running /\ tx = Nil
  BY DEF Init, EmptyDb
<1>3. Firsts(db)
  BY <1>1, <1>2 DEF Firsts, FirstCreated, FirstValue, SeqsKept
<1>4. QED
  BY <1>2, <1>3, NothingShown DEF ReplayInv

(* A start goes back to the first change or goes on behind the checkpoint. *)
LEMMA ReplayStart ==
  ASSUME IInv, ReplayInv, Start
  PROVE  ReplayInv'
<1>1. stream' = stream /\ tx' = tx /\ db' = db /\ ~running /\ pos' \in {1, db.checkpoint + 1}
  BY DEF Start
<1>2. tx' = Nil
  BY <1>1 DEF IInv, IndexerInv, TxInv
<1>3. PICK d, t, A : d = db' /\ t = tx'.db /\ A = AppliedPlaces'
  OBVIOUS
<1>4. db.checkpoint \in Nat
  BY DEF IInv, IndexerInv, IndexerTypes
<1>5. pos' - 1 = 0 \/ pos' - 1 = db.checkpoint
  BY <1>1, <1>4
<1>6. Firsts(d) /\ LastShown(d, Places(db'.checkpoint))
  BY <1>1, <1>3 DEF ReplayInv
<1>7. LastShown(d, Places(pos' - 1))
  BY <1>1, <1>5, <1>6, NothingShown
<1>8. QED
  BY <1>1, <1>2, <1>3, <1>6, <1>7, ReplayStep

(* A transaction begins with the committed tables.                         *)
LEMMA ReplayBegin ==
  ASSUME IInv, ReplayInv, SaveBegin
  PROVE  ReplayInv'
<1>1. /\ stream' = stream /\ db' = db /\ pos' = pos /\ running' = running /\ running
      /\ Len(buf) = Len(stream[pos]) /\ tx' = [todo |-> buf, db |-> db, paid |-> {}]
  BY DEF SaveBegin
<1>2. tx'.db = db /\ Len(tx'.todo) = Len(stream[pos])
  BY <1>1
<1>3. AppliedPlaces' = Places(pos - 1)
  <2>1. Len(buf) \in Nat
    BY DEF IInv, IndexerInv, BufInv
  <2>2. Applied' = 0
    BY <1>1, <1>2, <2>1 DEF Applied
  <2>3. QED
    BY <1>1, <2>2, SameStream DEF AppliedPlaces
<1>4. PICK d, t, A : d = db' /\ t = tx'.db /\ A = AppliedPlaces'
  OBVIOUS
<1>5. /\ Firsts(d) /\ LastShown(d, Places(db'.checkpoint)) /\ LastShown(d, Places(pos' - 1))
      /\ Firsts(t) /\ LastShown(t, A)
  BY <1>1, <1>2, <1>3, <1>4 DEF ReplayInv
<1>6. QED
  BY <1>1, <1>4, <1>5, ReplayStep

(* Without a commit the committed tables stay as they are.                 *)
LEMMA ReplayStop ==
  ASSUME ReplayInv, Rollback \/ Crash \/ Finish
  PROVE  ReplayInv'
<1>1. stream' = stream /\ db' = db /\ ~running' /\ tx' = Nil
  BY DEF Rollback, Crash, Finish
<1>2. PICK d, t, A : d = db' /\ t = tx'.db /\ A = AppliedPlaces'
  OBVIOUS
<1>3. Firsts(d) /\ LastShown(d, Places(db'.checkpoint))
  BY <1>1, <1>2 DEF ReplayInv
<1>4. QED
  BY <1>1, <1>2, <1>3, ReplayStep

(* The commit: all the places of the change are applied.                   *)
LEMMA ReplayCommit ==
  ASSUME IInv, ReplayInv, Commit
  PROVE  ReplayInv'
<1>1. /\ stream' = stream /\ tx # Nil /\ tx.todo = << >> /\ tx' = Nil
      /\ db' = [tx.db EXCEPT !.checkpoint = pos]
      /\ running' => pos' = pos + 1
  BY DEF Commit
<1>2. IsDb(tx.db) /\ pos \in 1..Len(stream)
  BY <1>1, StreamFacts DEF IInv, IndexerInv, IndexerTypes, TxInv, Whole
<1>3. /\ db'.events = tx.db.events /\ db'.payments = tx.db.payments
      /\ db'.invoices = tx.db.invoices /\ db'.channels = tx.db.channels
      /\ db'.checkpoint = pos
  BY <1>1, <1>2, DbExcept
<1>4. AppliedPlaces = Places(pos)
  <2>1. stream \in Streams
    BY DEF IInv, IndexerInv, IndexerTypes
  <2>2. Len(stream) \in Nat /\ Len(stream[pos]) \in Nat
    BY <1>2, <2>1, StreamFacts
  <2>3. Applied = Len(stream[pos])
    BY <1>1, <2>2 DEF Applied
  <2>4. pos \in Nat \ {0}
    BY <1>2
  <2>5. QED
    BY <2>3, <2>4, PlacesNext DEF AppliedPlaces
<1>5. PICK x, d, t, A : x = tx.db /\ d = db' /\ t = tx'.db /\ A = AppliedPlaces'
  OBVIOUS
<1>6. Firsts(x) /\ LastShown(x, Places(pos))
  BY <1>1, <1>4, <1>5 DEF ReplayInv
<1>7. Firsts(d) /\ LastShown(d, Places(pos))
  BY <1>3, <1>5, <1>6, TablesOnly
<1>8. running' => pos' - 1 = pos
  BY <1>1, <1>2
<1>9. QED
  BY <1>1, <1>3, <1>5, <1>7, <1>8, ReplayStep

(* An event is applied behind all those of the changes before and of its   *)
(* own change that have been, and all of these are in the tables.          *)
LEMMA ReplayApply ==
  ASSUME IInv, ReplayInv, ApplyEvent
  PROVE  ReplayInv'
<1>1. /\ stream' = stream /\ db' = db /\ pos' = pos /\ running' = running
      /\ tx # Nil /\ tx.todo # << >> /\ tx'.todo = Tail(tx.todo)
      /\ tx'.db = EnqueueDeliveries(Project(InsertEvent(tx.db, Head(tx.todo), pos), Head(tx.todo)),
                                    Head(tx.todo))
  BY DEF ApplyEvent
<1>2. /\ stream \in Streams /\ SubTypeOK
      /\ Whole(tx.db) /\ db.events \subseteq tx.db.events
      /\ tx.todo \in Seq(StreamEvents) /\ Len(tx.todo) <= Len(stream[pos])
      /\ \A i \in 1..Len(tx.todo) : tx.todo[i] = stream[pos][Applied + i]
      /\ \A i \in 1..Applied : stream[pos][i].id \in Ids(tx.db.events)
  BY <1>1 DEF IInv, IndexerInv, SubInv, IndexerTypes, TxInv
<1>3. pos \in 1..Len(stream) /\ Len(stream) \in Nat /\ Len(stream[pos]) \in Nat
  BY <1>1, <1>2, StreamFacts DEF IInv, IndexerInv, IndexerTypes, TxInv
<1>4. /\ Len(tx.todo) \in Nat /\ Len(tx.todo) > 0 /\ Len(tx'.todo) = Len(tx.todo) - 1
      /\ Head(tx.todo) = tx.todo[1] /\ Head(tx.todo) \in StreamEvents
  BY <1>1, <1>2
<1>5. /\ Applied \in Nat /\ Applied + 1 \in 1..Len(stream[pos]) /\ Applied' = Applied + 1
      /\ Head(tx.todo) = stream[pos][Applied + 1]
  <2>1. PICK m, n \in Nat : m = Len(tx.todo) /\ n = Len(stream[pos])
    BY <1>3, <1>4
  <2>2. m > 0 /\ m <= n /\ Applied = n - m
    BY <1>2, <1>4, <2>1 DEF Applied
  <2>3. Applied' = n - (m - 1)
    <3>1. stream'[pos'] = stream[pos]
      BY <1>1
    <3>2. QED
      BY <1>4, <2>1, <3>1 DEF Applied
  <2>4. Applied \in Nat /\ Applied + 1 \in 1..Len(stream[pos]) /\ Applied' = Applied + 1
    <3>1. n - m \in Nat /\ n - m + 1 \in 1..n /\ n - (m - 1) = n - m + 1
      BY <2>2
    <3>2. QED
      BY <2>1, <2>2, <2>3, <3>1
  <2>5. tx.todo[1] = stream[pos][Applied + 1]
    BY <1>2, <1>4
  <2>6. QED
    BY <1>4, <2>4, <2>5
<1>6. PICK z : z = << pos, Applied + 1 >>
  OBVIOUS
<1>7. z[1] = pos /\ z[2] = Applied + 1 /\ z \in AllPlaces /\ EventAt(z) = Head(tx.todo)
  <2>1. z[1] = pos /\ z[2] = Applied + 1
    BY <1>6
  <2>2. z \in AllPlaces
    BY <1>3, <1>5, <1>6, PlaceIn DEF AllPlaces
  <2>3. QED
    BY <1>5, <2>1, <2>2 DEF EventAt
<1>8. PICK x, e, d1, d2, t : /\ x = tx.db /\ e = Head(tx.todo) /\ d1 = InsertEvent(x, e, pos)
                             /\ d2 = Project(d1, e) /\ t = EnqueueDeliveries(d2, e)
  OBVIOUS
<1>9. t = tx'.db /\ Whole(x) /\ IsDb(x) /\ e = EventAt(z) /\ e \in StreamEvents
  BY <1>1, <1>2, <1>4, <1>7, <1>8 DEF Whole
<1>10. EventApplied(x, e, t)
  BY <1>2, <1>3, <1>8, <1>9, ApplyFacts
<1>11. /\ RowProjected(x, e, t)
       /\ t.events = x.events \/ t.events = x.events \cup {[id |-> e.id, seq |-> pos]}
  BY <1>8, <1>9, ApplyRows
<1>12. Firsts(x) /\ LastShown(x, AppliedPlaces)
  BY <1>1, <1>8 DEF ReplayInv
<1>13. ASSUME NEW q \in AllPlaces, Before(q, z) PROVE EventAt(q).id \in Ids(x.events)
  <2>1. q[1] \in 1..Len(stream) /\ q[2] \in 1..Len(stream[q[1]]) /\ q[2] \in Nat
    BY <1>2, <1>3, PlaceFacts DEF AllPlaces
  <2>2. CASE q[1] < pos
    <3>1. Holds(db, q[1])
      BY <1>3, <2>1, <2>2 DEF IInv, IndexerInv, CommittedInv
    <3>2. EventAt(q).id \in Ids(db.events)
      BY <2>1, <3>1 DEF Holds, EventAt
    <3>3. QED
      BY <1>2, <1>8, <3>2 DEF Ids
  <2>3. CASE q[1] = pos /\ q[2] < Applied + 1
    BY <1>2, <1>5, <1>8, <2>1, <2>3 DEF EventAt
  <2>4. QED
    BY <1>7, <1>13, <2>2, <2>3 DEF Before
<1>14. Firsts(t)
  BY <1>2, <1>7, <1>9, <1>10, <1>11, <1>12, <1>13, ApplyFirsts
<1>15. PICK P, A : P = AppliedPlaces /\ A = AppliedPlaces'
  OBVIOUS
<1>16. A = P \cup {z}
  <2>1. A = Places(pos - 1) \cup {<< pos, i >> : i \in 1..Applied + 1}
    BY <1>1, <1>5, <1>15, SameStream DEF AppliedPlaces
  <2>2. 1..Applied + 1 = (1..Applied) \cup {Applied + 1}
    BY <1>5
  <2>3. QED
    BY <1>6, <1>15, <2>1, <2>2 DEF AppliedPlaces
<1>17. ASSUME NEW q \in P PROVE Before(q, z)
  <2>1. CASE q \in Places(pos - 1)
    <3>1. pos - 1 \in 0..Len(stream)
      BY <1>3
    <3>2. q[1] \in 1..pos - 1
      BY <1>2, <2>1, <3>1, PlaceFacts
    <3>3. QED
      BY <1>3, <1>7, <3>2 DEF Before
  <2>2. CASE q \in {<< pos, i >> : i \in 1..Applied}
    <3>1. PICK i \in 1..Applied : q = << pos, i >>
      BY <2>2
    <3>2. q[1] = pos /\ q[2] = i
      BY <3>1
    <3>3. QED
      BY <1>5, <1>7, <3>2 DEF Before
  <2>3. QED
    BY <1>15, <2>1, <2>2 DEF AppliedPlaces
<1>18. LastShown(t, A)
  <2>1. LastShown(x, P) /\ RowProjected(x, EventAt(z), t)
    BY <1>9, <1>11, <1>12, <1>15
  <2>2. QED
    BY <1>16, <1>17, <2>1, ApplyShown
<1>19. PICK d : d = db'
  OBVIOUS
<1>20. Firsts(d) /\ LastShown(d, Places(db'.checkpoint)) /\ (running' => LastShown(d, Places(pos' - 1)))
  BY <1>1, <1>19 DEF ReplayInv
<1>21. QED
  BY <1>1, <1>9, <1>14, <1>15, <1>18, <1>19, <1>20, ReplayStep

(* Every step of the indexer and of the API keeps the invariant.           *)
LEMMA ReplayNext ==
  ASSUME IInv, ReplayInv, [Next]_vars
  PROVE  ReplayInv'
<1>1. CASE Start
  BY <1>1, ReplayStart
<1>2. CASE SaveBegin
  BY <1>2, ReplayBegin
<1>3. CASE ApplyEvent
  BY <1>3, ReplayApply
<1>4. CASE Commit
  BY <1>4, ReplayCommit
<1>5. CASE Rollback \/ Crash \/ Finish
  BY <1>5, ReplayStop
<1>6. CASE Handle \/ (\E u \in Urls : Subscribe(u)) \/ (\E k \in Hashes : InsertOrder(k))
  <2>1. UNCHANGED << stream, tx, db, running, pos >>
    BY <1>6 DEF Handle, Subscribe, InsertOrder
  <2>2. QED
    BY <2>1, ReplayFrame
<1>7. CASE UNCHANGED vars
  <2>1. UNCHANGED << stream, tx, db, running, pos >>
    BY <1>7 DEF vars
  <2>2. QED
    BY <2>1, ReplayFrame
<1>8. QED
  BY <1>1, <1>2, <1>3, <1>4, <1>5, <1>6, <1>7 DEF Next

-----------------------------------------------------------------------------
(***************************************************************************)
(* Convergence                                                             *)
(***************************************************************************)

(* The first place of a set is the first one in the first c changes too,   *)
(* when these have any.                                                    *)
LEMMA FirstWithin ==
  ASSUME stream \in Streams, NEW c \in 0..Len(stream), NEW S \in SUBSET AllPlaces,
         NEW p \in S, IsFirst(p, S), NEW q \in S, q \in Places(c)
  PROVE  /\ p \in Places(c)
         /\ FirstOf(S \cap Places(c)) = EventAt(p)
<1>0. Len(stream) \in 0..Len(stream)
  BY StreamFacts
<1>1. /\ p[1] \in 1..Len(stream) /\ p[2] \in 1..Len(stream[p[1]]) /\ p = << p[1], p[2] >>
      /\ q[1] \in 1..c
  BY <1>0, PlaceFacts DEF AllPlaces
<1>2. p[1] <= q[1]
  BY <1>1 DEF IsFirst, Before
<1>3. p[1] \in 1..c
  BY <1>1, <1>2
<1>4. p \in Places(c)
  BY <1>1, <1>3, PlaceIn
<1>5. p \in S \cap Places(c) /\ IsFirst(p, S \cap Places(c)) /\ S \cap Places(c) \in SUBSET AllPlaces
  BY <1>4 DEF IsFirst
<1>6. QED
  BY <1>4, <1>5, FirstIs

(* Reach bounds the changes that event rows keep.                          *)
LEMMA ReachFacts ==
  ASSUME IInv, ReplayInv
  PROVE  /\ Reach \in 0..Len(stream)
         /\ \A x \in db.events : x.seq \in 1..Reach
<1>1. Len(stream) \in Nat /\ \A x \in db.events : x.seq \in 1..Len(stream)
  BY StreamFacts DEF IInv, IndexerInv, IndexerTypes, Whole
<1>2. CASE db.events = {}
  BY <1>1, <1>2 DEF Reach
<1>3. CASE db.events # {}
  <2> DEFINE seqs == Ids({[id |-> x.seq] : x \in db.events})
  <2>1. seqs = {x.seq : x \in db.events}
    <3> DEFINE row(x) == [id |-> x.seq]
    <3>1. \A x : row(x).id = x.seq
      OBVIOUS
    <3>2. seqs = Ids({row(x) : x \in db.events})
      OBVIOUS
    <3> HIDE DEF row, seqs
    <3>3. QED
      BY <3>1, <3>2 DEF Ids
  <2>2. \E n \in seqs : \A x \in db.events : x.seq <= n
    BY <1>3, <2>1 DEF ReplayInv, Firsts, SeqsKept
  <2>3. Reach = CHOOSE n \in seqs : \A x \in db.events : x.seq <= n
    BY <1>3 DEF Reach
  <2> HIDE DEF seqs
  <2>4. Reach \in seqs /\ \A x \in db.events : x.seq <= Reach
    BY <2>2, <2>3
  <2>5. QED
    BY <1>1, <2>1, <2>4
<1>4. QED
  BY <1>2, <1>3

(* A committed event has a place in the first Reach changes.               *)
LEMMA CommittedPlace ==
  ASSUME IInv, ReplayInv, NEW c, c = Reach, NEW e \in StreamEvents, e.id \in Ids(db.events)
  PROVE  \E q \in Places(c) : q \in AllPlaces /\ EventAt(q) = e
<1>1. PICK x \in db.events : x.id = e.id
  BY DEF Ids
<1>2. PICK i \in 1..Len(stream[x.seq]) : stream[x.seq][i].id = x.id
  BY DEF ReplayInv, Firsts, SeqsKept
<1>3. stream \in Streams /\ c \in 0..Len(stream) /\ x.seq \in 1..c /\ Len(stream) \in Nat
  BY ReachFacts, StreamFacts DEF IInv, IndexerInv, IndexerTypes
<1>4. PICK q : q = << x.seq, i >>
  OBVIOUS
<1>5. q \in Places(c) /\ Places(c) \subseteq AllPlaces
  BY <1>3, <1>4, PlaceIn, PlacesGrow DEF AllPlaces
<1>6. EventAt(q).id = e.id /\ EventAt(q) \in StreamEvents
  <2>1. EventAt(q) \in StreamEvents
    BY <1>3, <1>5, PlaceFacts
  <2>2. EventAt(q) = stream[x.seq][i]
    BY <1>4 DEF EventAt
  <2>3. QED
    BY <1>1, <1>2, <2>1, <2>2
<1>7. QED
  BY <1>3, <1>5, <1>6, StreamFacts

(* With the checkpoint at the last change, each row shows the last event   *)
(* of its key.                                                             *)
LEMMA RowShowsLast ==
  ASSUME IInv, ReplayInv, NEW c, c = Reach, db.checkpoint = c,
         NEW type \in Kinds, NEW k \in DOMAIN TableOf(db, type)
  PROVE  /\ Shows(type, TableOf(db, type)[k], LastOf(PlacesOf(type, k, c)))
         /\ \E q \in Places(c) : q \in Of(type, k, AllPlaces)
<1>1. stream \in Streams /\ c \in Nat /\ Len(stream) \in Nat /\ c <= Len(stream)
  BY ReachFacts, StreamFacts DEF IInv, IndexerInv, IndexerTypes
<1>2. DOMAIN TableOf(db, type) = KeysIn(db, type)
  BY DEF IInv, IndexerInv, Whole, TableOf, Kinds
<1>3. PICK e \in StreamEvents : e.type = type /\ e.id \in Ids(db.events) /\ e.key = k
  BY <1>2 DEF KeysIn
<1>4. PICK q \in Places(c) : q \in AllPlaces /\ EventAt(q) = e
  BY <1>3, CommittedPlace
<1>5. Shown(db, type, k, Places(c))
  <2>1. LastShown(db, Places(c))
    BY DEF ReplayInv
  <2>2. QED
    BY <1>3, <1>4, <2>1 DEF LastShown
<1>6. PICK p \in Places(c) : /\ IsLast(p, Of(type, k, Places(c)))
                             /\ Shows(type, TableOf(db, type)[k], EventAt(p))
  BY <1>5 DEF Shown
<1>7. /\ PlacesOf(type, k, c) = Of(type, k, Places(c)) /\ p \in Of(type, k, Places(c))
      /\ Of(type, k, Places(c)) \in SUBSET AllPlaces
  <2>1. Places(c) \subseteq AllPlaces
    BY <1>1, PlacesGrow DEF AllPlaces
  <2>2. QED
    BY <1>6, <2>1 DEF PlacesOf, Of, IsLast
<1>8. LastOf(PlacesOf(type, k, c)) = EventAt(p)
  BY <1>1, <1>6, <1>7, LastIs
<1>9. QED
  BY <1>3, <1>4, <1>6, <1>8 DEF Of

(* A payments row has the first event's time of creation and the last      *)
(* one's values.                                                           *)
LEMMA PaymentsConverge ==
  ASSUME IInv, ReplayInv, NEW c, c = Reach, db.checkpoint = c, NEW k \in DOMAIN db.payments,
         NEW h, h = PlacesOf("payment.received", k, c)
  PROVE  db.payments[k] = [val |-> LastOf(h).val, created |-> FirstOf(h).at,
                           updated |-> LastOf(h).at]
<1> DEFINE S == Of("payment.received", k, AllPlaces)
<1>1. stream \in Streams /\ c \in 0..Len(stream) /\ Len(stream) \in Nat
  BY ReachFacts, StreamFacts DEF IInv, IndexerInv, IndexerTypes
<1>2. TableOf(db, "payment.received") = db.payments /\ "payment.received" \in Kinds
  BY DEF TableOf, Kinds
<1>3. /\ Shows("payment.received", db.payments[k], LastOf(h))
      /\ \E q \in Places(c) : q \in S
  BY <1>2, RowShowsLast
<1>4. PICK p \in AllPlaces : IsFirst(p, S) /\ db.payments[k].created = EventAt(p).at
  BY DEF ReplayInv, Firsts, FirstCreated
<1>5. h = S \cap Places(c) /\ S \in SUBSET AllPlaces /\ p \in S
  <2>1. Places(c) \subseteq AllPlaces
    BY <1>1, PlacesGrow DEF AllPlaces
  <2>2. QED
    BY <1>4, <2>1 DEF PlacesOf, Of, IsFirst
<1> HIDE DEF S
<1>6. FirstOf(h) = EventAt(p)
  BY <1>1, <1>3, <1>4, <1>5, FirstWithin
<1>7. QED
  BY <1>3, <1>4, <1>6 DEF Shows

(* An invoices row keeps the first value that was given and has the last   *)
(* settlement time.                                                        *)
LEMMA InvoicesConverge ==
  ASSUME IInv, ReplayInv, NEW c, c = Reach, db.checkpoint = c, NEW k \in DOMAIN db.invoices,
         NEW h, h = PlacesOf("invoice.paid", k, c), NEW set, set = {p \in h : EventAt(p).val # Nil}
  PROVE  db.invoices[k] = [val |-> IF set = {} THEN Nil ELSE FirstOf(set).val,
                           settled |-> LastOf(h).at]
<1>1. stream \in Streams /\ c \in 0..Len(stream) /\ Len(stream) \in Nat
  BY ReachFacts, StreamFacts DEF IInv, IndexerInv, IndexerTypes
<1>2. TableOf(db, "invoice.paid") = db.invoices /\ "invoice.paid" \in Kinds
  BY DEF TableOf, Kinds
<1>3. Shows("invoice.paid", db.invoices[k], LastOf(h))
  BY <1>2, RowShowsLast
<1>4. set = Valued(k) \cap Places(c) /\ Valued(k) \in SUBSET AllPlaces
  <2>1. Places(c) \subseteq AllPlaces
    BY <1>1, PlacesGrow DEF AllPlaces
  <2>2. QED
    BY <2>1 DEF PlacesOf, Of, Valued
<1>5. db.invoices[k].val = IF set = {} THEN Nil ELSE FirstOf(set).val
  <2>1. CASE db.invoices[k].val = Nil
    <3>1. \A p \in Valued(k) : EventAt(p).id \notin Ids(db.events)
      BY <2>1 DEF ReplayInv, Firsts, FirstValue
    <3>2. ASSUME NEW p \in Places(c) PROVE EventAt(p).id \in Ids(db.events)
      <4>1. p[1] \in 1..c /\ p[2] \in 1..Len(stream[p[1]])
        BY <1>1, PlaceFacts
      <4>2. Holds(db, p[1])
        BY <4>1 DEF IInv, IndexerInv, CommittedInv
      <4>3. QED
        BY <4>1, <4>2 DEF Holds, EventAt
    <3>3. set = {}
      BY <1>4, <3>1, <3>2
    <3>4. QED
      BY <2>1, <3>3
  <2>2. CASE db.invoices[k].val # Nil
    <3>1. PICK p \in AllPlaces : /\ IsFirst(p, Valued(k)) /\ EventAt(p).id \in Ids(db.events)
                                 /\ db.invoices[k].val = EventAt(p).val
      BY <2>2 DEF ReplayInv, Firsts, FirstValue
    <3>2. p \in Valued(k)
      BY <3>1 DEF IsFirst
    <3>3. EventAt(p) \in StreamEvents
      <4>1. Len(stream) \in 0..Len(stream)
        BY <1>1
      <4>2. QED
        BY <1>1, <4>1, PlaceFacts DEF AllPlaces
    <3>4. PICK e \in StreamEvents : e = EventAt(p)
      BY <3>3
    <3>5. PICK q \in Places(c) : q \in AllPlaces /\ EventAt(q) = e
      BY <3>1, <3>4, CommittedPlace
    <3>6. q \in Valued(k)
      BY <3>2, <3>4, <3>5 DEF Valued, Of
    <3>7. p \in Places(c) /\ FirstOf(Valued(k) \cap Places(c)) = EventAt(p)
      BY <1>1, <1>4, <3>1, <3>2, <3>5, <3>6, FirstWithin, ZenonT(40)
    <3>8. QED
      BY <1>4, <3>1, <3>2, <3>7
  <2>3. QED
    BY <2>1, <2>2
<1>6. QED
  BY <1>3, <1>5 DEF Shows

(* A channels row is what the last channel.opened says.                    *)
LEMMA ChannelsConverge ==
  ASSUME IInv, ReplayInv, NEW c, c = Reach, db.checkpoint = c, NEW k \in DOMAIN db.channels,
         NEW h, h = PlacesOf("channel.opened", k, c)
  PROVE  db.channels[k] = [val |-> LastOf(h).val, opened |-> LastOf(h).at]
<1>1. TableOf(db, "channel.opened") = db.channels /\ "channel.opened" \in Kinds
  BY DEF TableOf, Kinds
<1>2. Shows("channel.opened", db.channels[k], LastOf(h))
  BY <1>1, RowShowsLast
<1>3. QED
  BY <1>2 DEF Shows

(* The invariant of replay.                                                *)
THEOREM ReplayInvariant == Spec => []ReplayInv
<1>1. IInv /\ ReplayInv /\ [Next]_vars => ReplayInv'
  BY ReplayNext
<1>2. QED
  BY <1>1, ReplayInit, IndexerInvariant, PTL DEF Spec

(* What the invariants say once the checkpoint is at the last change.      *)
LEMMA InvariantConverges == IInv /\ ReplayInv => ProjectionsConverge
<1> SUFFICES ASSUME IInv, ReplayInv, db.checkpoint = Reach
             PROVE  ProjectionsConverge
  BY DEF ProjectionsConverge
<1>1. PICK c : c = Reach
  OBVIOUS
<1>2. ASSUME NEW k \in DOMAIN db.payments
      PROVE  LET h == PlacesOf("payment.received", k, c)
             IN  db.payments[k] = [val |-> LastOf(h).val, created |-> FirstOf(h).at,
                                   updated |-> LastOf(h).at]
  BY <1>1, PaymentsConverge
<1>3. ASSUME NEW k \in DOMAIN db.invoices
      PROVE  LET h   == PlacesOf("invoice.paid", k, c)
                 set == {p \in h : EventAt(p).val # Nil}
             IN  db.invoices[k] = [val |-> IF set = {} THEN Nil ELSE FirstOf(set).val,
                                   settled |-> LastOf(h).at]
  BY <1>1, InvoicesConverge
<1>4. ASSUME NEW k \in DOMAIN db.channels
      PROVE  LET h == PlacesOf("channel.opened", k, c)
             IN  db.channels[k] = [val |-> LastOf(h).val, opened |-> LastOf(h).at]
  BY <1>1, ChannelsConverge
<1>5. QED
  BY <1>1, <1>2, <1>3, <1>4 DEF ProjectionsConverge

(* However often the process stops, restarts from the first change or      *)
(* behind the checkpoint and applies changes again, with the checkpoint at *)
(* the last change ever committed the payments, invoices and channels are  *)
(* those of one undisturbed pass.                                          *)
THEOREM ReplayConverges == Spec => []ProjectionsConverge
BY InvariantConverges, ReplayInvariant, IndexerInvariant, PTL
=============================================================================
