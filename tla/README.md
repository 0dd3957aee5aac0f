# A TLA+ model of padma

padma is a service beside a Fiber node: an **indexer** projects the node's
events into Postgres and queues webhook deliveries, a **dispatcher** delivers
them, and an **API** serves queries, subscriptions and a merchant backend
(orders, refunds, settlements).  The three are separate processes
(the commands `indexer`, `dispatcher` and `api` of `cmd/app`) that share nothing but the database, so every
question about their interplay is a question about which statements and calls
may come between which others.  That is what these modules model.

## 1. Inventory

| Component | State | Operations | What makes it correct |
|---|---|---|---|
| delivery outbox, `internal/webhook/{store,backoff,run}.go` | `webhook_deliveries`, `webhook_delivery_log`; claims in worker memory | ClaimDue, MarkSucceeded / Failed / Dead, Requeue, sweep, expJitter | one worker per delivery; dead exactly at the limit; a gapless log; nothing stranded |
| subscriptions, `internal/webhook/endpoints.go` | `webhook_endpoints` | create (upsert by URL), soft remove, test, replay | a queued test refers to rows that exist; the secret the receiver knows is the one used |
| indexer, `internal/indexer/*.go` | `events`, `payments`, `invoices`, `channels`, `ingest_checkpoint`; the Projector's buffer | Handle, Save, Load, the projections, matchMerchantOrder, enqueueDeliveries | nothing lost below the checkpoint; replays converge; all or nothing per change; no subscriber missed |
| merchant, `internal/merchant/{orders,refunds}.go`, `indexer/merchant_match.go` | `merchant_orders`, `refunds`; invoices and payments at the node | CreateOrder, GetOrder, matchMerchantOrder, Refund | idempotency; paid means paid; payouts owed and accounted for |
| reports, `merchant/{settlement,export,provision}.go` | `merchants`, `settlements`, `reconciliation_runs` | Provision, Settlement, Reconciliation, Export | the three reports agree; everything counted once; a period never shrinks; what was answered is on record |
| query API, `internal/query/*.go` | none (reads `payments`, `channels`, `events`) | filtered lists with a keyset cursor, payment statistics | a walk returns every selected row once, and ends; lists and statistics agree |
| amounts, ids, transactions, `internal/platform/{db,id}` | none | AmountToNumeric, NumericToAmount, Derive, InTx | exactness, determinism, rollback on error or panic |
| wiring, `cmd/app`, `internal/apiserver`, `platform/{config,httpx}` | none of its own | starts the processes | |

Interactions.  The indexer writes deliveries in the transaction that writes
the event (a transactional outbox); the dispatcher claims them with
`FOR UPDATE SKIP LOCKED` and a lease kept in `next_attempt_at`; the API's
replay and test write to the same table.  The indexer flips merchant orders
to `paid` in the same transaction; CreateOrder and Refund of the API run
against the same rows, and call the node between their statements.

Hard behaviours.  Steps of several workers and requests that nothing joins in
a transaction; marks and updates addressed by id alone; leases against live
workers; crashes between a claim and its mark, between a payout and its row,
or inside a change; commit replies that are lost; replays of the stream over
rows of later changes; a table that changes under a paging client.
`PROJECT.json` lists them, each at its line, with the properties that watch it.

## 2. Modules

| Module | Models | Uses |
|---|---|---|
| `DeliveryQueue` | what the outbox promises: queued, done, dead | |
| `DeliveryOutbox` | outbox rows, workers, sweeper, replay, time | implements `DeliveryQueue` |
| `DeliveryOutboxProofs` | its theorems | `DeliveryOutbox`, TLAPS |
| `Subscriptions` | endpoints and test requests | |
| `Indexer` | Runner, Projector, projections, fan-out, matching | `Subscriptions` |
| `IndexerProofs` | theorems of `Subscriptions` and `Indexer` | `Indexer`, TLAPS |
| `ReplayProofs` | that replays converge | `IndexerProofs` |
| `Padma` | indexer, API and dispatcher on one outbox table | `Indexer`, `DeliveryOutbox` |
| `PadmaProofs` | its theorems | `Padma`, `ReplayProofs`, `DeliveryOutboxProofs` |
| `Merchant` | create and refund requests, payer, matching | |
| `MerchantProofs` | its theorems | `Merchant`, TLAPS |
| `Amounts` | conversions between amounts and NUMERIC | |
| `AmountProofs` | the conversions are exact; how sums behave | `Amounts`, TLAPS |
| `Accounting` | settlement, reconciliation, export, provisioning | `Amounts` |
| `AccountingProofs` | its theorems | `Accounting`, `AmountProofs` |
| `Pagination` | the keyset walk and the payment statistics | `Amounts` |
| `PaginationProofs` | its theorems | `Pagination`, `AmountProofs` |
| `MC...` | model-checking instances: symmetry sets, streams, filters | the module named |

The definitions whose name extends that of another one that follows them
(`ReplayKeepingStatus` before `Replay`, `StuckNever` before `Stuck`) are faulty
variants of it.  No specification uses them; each stands for a plausible bug
that one of the properties is expected to catch.

### DeliveryOutbox

| Model | Code |
|---|---|
| `status`, `attempts`, `wait`, `log` | the columns `status`, `attempts`, `next_attempt_at` (relative to `now()`; the lease while `delivering`), and the log's `attempt_no` |
| `claims`, `age` | `[]kwebhook.Delivery` in a worker's memory, and how long it has held it |
| `acked` | the receiver's side: whether it accepted the payload since the last replay |
| `Enqueue` | the INSERTs of `enqueueDeliveries` and of the test handler, all rows of one commit at once |
| `Replay` | the UPDATE of `replay` in `endpoints.go` |
| `ClaimDue`, `ClaimLost` | `Store.ClaimDue`, when its rows arrive and when they do not |
| `Send`, `Exhausted` | the library's Dispatcher and HTTPSender (external) |
| `MarkSucceeded`, `MarkFailed`, `MarkDead`, `MarkError` | the Store's marks, and a mark that fails |
| `ExpJitter`, `Delay` | `expJitter`; the random part is a choice |
| `Requeue`, `Tick`, `Crash` | `Store.Requeue` called by `sweep`, time, the end of a worker |

Each Store method is a single SQL statement (the marks write row and log in
one CTE), so each is one step.  `raced` and `base` are history variables:
`raced` has the rows whose last replay met a worker holding them.  The code
does not protect those rows (see the findings), so the properties below speak
about the others; a later, undisturbed replay makes a row count again.

`DeliveryQueue` is the promise in the terms of a user: a delivery is queued,
then done once the receiver has accepted it or dead once its counted failures
reach the limit, and only a replay starts it over.  `QueueState` maps `pending`
and `delivering` to queued; claims, leases, waits and faults have no
counterpart, so every claim, lost claim, crash, requeue and tick must be a
stuttering step.  For a delivery whose replay met a worker the abstract queue
says what the code really guarantees, that either attempt may decide it (the
`loose` deliveries).

### Indexer and Subscriptions

The transaction of `Save` is `SaveBegin`, one `ApplyEvent` per buffered event
and `Commit` or `Rollback`.  Under READ COMMITTED each statement sees what is
committed when it runs, so endpoints and orders are read at `ApplyEvent` and
the transaction's own writes live in `tx` until `Commit`.  A change to the
order row between the two cannot happen: the UPDATE holds the row's lock, and
`refunded` is reached only from `paid`.  `Commit` has an outcome in which the
reply is lost: the data is there and Save fails.

### Merchant

Every request is a process with a program counter; each statement and each
call to the node is one step.  A create request names the order and the
invoice it makes, because both ids are fresh, and whoever pays that invoice.
A refund request that ends between two steps stands for a failed statement, a
cancelled context, or a stopped process alike.  `payments` has the hashes whose
row names a payer *now*: every payment.received overwrites the column, and one
without a payer erases it, also between the moment a refund has read the payer
(its field `payer`) and the keysend.

### Padma

The processes share the table `webhook_deliveries` and nothing else.  A row is
named as its derived id is: by event and endpoint, or by the test request.
`CommitChange` is the indexer's commit together with the INSERTs it makes
visible, less the rows that exist (`ON CONFLICT (id) DO NOTHING`); `QueueTest`
is the last statement of a test.  All other steps are those of the components.

### Accounting and Amounts

A report is one GET request: its query is one statement and one step, each
INSERT of what it persists is another, and nothing joins them.  The three
queries are operators on the tables, each translated from its own SQL, so that
their agreement is something to check.  `Amounts` models a NUMERIC as integer
and exponent; with which exponent the database returns a value is a choice, and
`MustAmount` turns an error into zero as the code does.  Instants are numbers,
`Month` puts them into a month of the session's time zone.  `Accounting` keeps
whether a payments row exists, which is what reconciliation asks, and not its
payer; it therefore lets some refunds through that `Refund` refuses.

### Pagination

A row is its sort key and one column that filters compare, which stands for
all of them; the filter of the walk also has the inclusive bounds of a period.
The client may pass another limit on every page, or none; `clampLimit` bounds
it, `LIMIT n+1` and `paginate` decide whether there is a next cursor.  A request
that is refused (a cursor, `from` or `to` that does not parse) or fails leaves
the client with the cursor it had, which is a stuttering step.  Meanwhile rows
are inserted, a channel may be opened again (which moves it) and a payment
received again (which may change its asset).  `StatsPayments` is evaluated on
the same rows.  The walk is translated from `Repo.Payments`; `Channels` and
`Events` are the same query over other columns.

## 3. What is assumed of code outside the repository

* **Dispatcher** (kanaka/webhook): an idle worker claims a batch, sends each
  delivery, and marks it succeeded, failed, or, when the attempts it read plus
  one reach MaxAttempts, dead.  A failed mark is not retried.
* **LeaseOutlivesClaim**: a worker is done with its batch before its lease
  runs out (`MaxHold < LeaseTTL`).  In the code these are 10 second requests
  against a lease of 5 minutes, for batches whose size the library chooses; if
  it claimed more than 29 deliveries for one worker and every request timed
  out, the assumption would fail, and `ExclusiveClaim` with it.
* **Runner** (kanaka): takes changes in order, calls Handle for each event and
  then Save, and ends on an error.  On a restart it may skip what the
  checkpoint covers or begin again; both are modelled.
* **Fiber node**: payment hashes are fresh; an invoice can be paid only once
  somebody was given its address, and once; a payment.received of its hash names
  that payer or nobody; SendPayment may fail after it has sent.  Without an error
  it has accepted the keysend.  `Refund` does not read the status in the answer, so
  "payout" means an accepted keysend, not one that has arrived.
* **ParseAmount** (kanaka/fibertypes), the last step of `NumericToAmount`, accepts
  every natural number, also the sums that the reports convert.

## 4. Runs

| Run | Bounds | Shows |
|---|---|---|
| `outbox_safety` | 2 deliveries, 2 workers, batches of 2, 2 attempts, 2 replays, 1 fault | types; claims exclusive and fresh; dead exactly at the limit; log numbered; success acknowledged; terminal states final; `ImplementsQueue` |
| `outbox_liveness` | 2 deliveries, 1 worker, batches of 1, 2 faults, 1 replay | `EverySettles`, `ImplementsFairQueue` |
| `merchant_requests` | 3 create and 2 refund requests, 2 merchants, 1 external id or none, 1 fault | `ResponsesAgree`, `PaidIffMatched`, `RefundsAccounted`, `PayoutsOwed`, `RefundedIsFinal`, `RefundAnsweredOnce` |
| `indexer_streams` | a stream of 4 changes with 8 events and one of 3 changes whose second is undecodable, 1 endpoint with 2 creates, 1 fault, any number of restarts | `CheckpointCovers`, `AllOrNothing`, `ProjectionsConverge`, `AtomicOutbox`, `RunCompletes` |
| `padma` | a stream of one event or of one that does not decode, 1 endpoint with 2 creates, 1 test, 1 worker, 1 attempt, 1 replay, 1 fault of each process, any number of restarts | `RowsBacked`, `TestDeliveryBacked`, `NoDoubleFire`, `OutboxPreserved`, `DeliveriesSettle` |
| `accounting` | 2 merchants, 2 orders, 2 refunds, 1 report, 2 months, 3 exponents | `BooksAgree`, `CountedOnce`, `NetAccounts`, `PeriodOnlyGrows`, `AnswersPersisted` |
| `pagination_walk` | 3 ids, 2 timestamps, 5 filters, limits 0, 1, 5 and none against a default of 1 and a maximum of 2, 1 changed row | `NoRepeat`, `NothingSkipped`, `StatsAgree`, `WalkEnds` |
| five violation runs | the smallest instance that shows the disagreement | section 6 |

Why the bounds are enough.  The outbox rows do not interact except through a
batch and a shared worker, for which two rows and two workers suffice; two
attempts make one retry and one dead-lettering; the second replay is what makes
a raced row count again.  Of `merchant_requests`' three creates two race and the
third repeats; orders without an external id and a second merchant show that
neither leaks into the other; two refunds may race for one order or follow each
other, and the payer on record comes and goes.  The longer stream of `indexer_streams` has a hash that is paid
three times (first without a payload) and received twice, a channel opened
twice, and a type without a projection, so that a replay from the start walks
over rows of later changes for every upsert rule.  Two timestamps for three
ids force ties on both sides of a page boundary, and a page of two leaves one row
behind it; a row may have an asset, none, or one that is called `unknown`, which is
also one of the filters.  The two orders of `accounting` may be of one merchant or of two, in
one month or in two, in one asset or in two; two refunds may exceed an order, and
one report is enough because reports only meet in the tables, which grow after
it.  `padma` needs one row of each producer: rows meet only in a batch, and
`outbox_safety` has the larger outbox.

Deadlock is checked for the outbox, the indexer and their composition, which
never stop for good.
Requests and walks do end, so the other modules' runs do not check it.

Fairness.  `EverySettles` assumes that the poll loop claims when something is
due, a worker goes on with what it holds, the sweeper's 30 second ticker fires,
and time passes.  These are goroutines that run until the context ends, and the
container is restarted when it dies (`restart: unless-stopped`,
`deployments/compose/app.yml`).  Faults are
finitely many, and neither producers nor users owe any step.  `WalkEnds` assumes
that the client asks for the next page and the table has finitely many rows.
`ImplementsFairQueue` needs no more: the abstract queue is fair in that a queued
delivery does not stay as it is for ever.  `DeliveriesSettle` has the fairness
of the dispatcher only, and lets the indexer restart without end.
`RunCompletes` assumes that the indexer, once started, goes on, since it runs in the
foreground of its process; it does not assume that anybody starts it
(`deployments/k8s/app.yml` runs it as a Job with `restartPolicy: Never`).

## 5. Proofs

Every invariant, action property and safety refinement that a passing run
checks is also proved, for all values of the constants that satisfy the named
assumptions.  TLC evaluates these assumptions in the runs.

| Module | Theorem | Statement |
|---|---|---|
| `DeliveryOutboxProofs` | `TypeCorrect` | `Spec => []TypeOK` |
| | `OutboxInvariant` | `Spec => []IInv` |
| | `ClaimsExclusive` | `Spec => []ExclusiveClaim` |
| | `ClaimsFresh` | `Spec => []FreshClaim` |
| | `DeadLetterExact` | `Spec => []DeadLetterAtLimit` |
| | `LogNumbered` | `Spec => []LogNumbersAttempts` |
| | `SuccessAcked` | `Spec => []SucceededWasAcked` |
| | `TerminalFinal` | `Spec => TerminalIsFinal` |
| | `OutboxImplementsQueue` | `Spec => ImplementsQueue` |
| `IndexerProofs` | `SubscriptionsInvariant`, `TestDeliveriesBacked` | `SubSpec => []SubInv`, `SubSpec => []TestDeliveryBacked` |
| | `IndexerInvariant`, `IndexerTypeCorrect` | `Spec => []IInv`, `Spec => []TypeOK` |
| | `CheckpointIsCovered` | `Spec => []CheckpointCovers` |
| | `SaveIsAllOrNothing` | `Spec => []AllOrNothing` |
| | `OutboxIsAtomic` | `Spec => AtomicOutbox` |
| `ReplayProofs` | `ReplayInvariant`, `ReplayConverges` | `Spec => []ReplayInv`, `Spec => []ProjectionsConverge` |
| `PadmaProofs` | `PadmaInvariant`, `PadmaTypeCorrect` | `PadmaSpec => []PInv`, `PadmaSpec => []PadmaTypeOK` |
| | `ServiceImplementsOutbox` | `PadmaSpec => OutboxPreserved` |
| | `RowsAreBacked`, `TestsBackedInService` | `PadmaSpec => []RowsBacked`, `PadmaSpec => []TestDeliveryBacked` |
| | `ReplayFiresOnce` | `PadmaSpec => []NoDoubleFire` |
| | `ServiceKeepsPromises` | the outbox's claims, dead letters and successes, in the service |
| | `ServiceKeepsTables`, `ServiceFansOut` | the indexer's properties, in the service |
| `MerchantProofs` | `MerchantInvariant`, `TypeCorrect` | `Spec => []IInv`, `Spec => []TypeOK` |
| | `CreateIdempotent` | `Spec => []ResponsesAgree` |
| | `MatchIsExact` | `Spec => []PaidIffMatched` |
| | `RefundsRecorded`, `PayoutsJustified` | `Spec => []RefundsAccounted`, `Spec => []PayoutsOwed` |
| | `RefundedStays`, `RefundNotRepeated` | `Spec => RefundedIsFinal`, `Spec => RefundAnsweredOnce` |
| `AmountProofs` | `ConversionExact` | an amount is read back as it was written, with any exponent |
| `AccountingProofs` | `AccountingInvariant`, `AccountingTypeCorrect` | `Spec => []AInv`, `Spec => []TypeOK` |
| | `BooksAlwaysAgree` | `Spec => []BooksAgree` |
| | `EverythingCountedOnce` | `Spec => []CountedOnce` |
| | `NetIsGrossMinusFees` | `Spec => []NetAccounts` |
| | `ReportsStayTrue` | `Spec => []PeriodOnlyGrows` |
| | `AnswersAreOnRecord` | `Spec => []AnswersPersisted` |
| `PaginationProofs` | `PaginationInvariant`, `PaginationTypeCorrect` | `Spec => []IInv`, `Spec => []TypeOK` |
| | `NothingRepeated`, `WalkIsStable` | `Spec => []NoRepeat`, `Spec => []NothingSkipped` |
| | `WalkMatchesStats` | `Spec => []StatsAgree` |

Assumptions.  Those of `DeliveryOutbox` are `ConstantsAssumption` (types and
signs of the limits) and `LeaseOutlivesClaim`; `PadmaAssumption` has both, and
that a test request is not an event-endpoint pair.  `IndexerAssumption` says that
a stream is a sequence of non-empty changes in which an event id names one event
(ids are derived from the event).  `SubscriptionsAssumption`,
`MerchantAssumption` and the last lines of `AccountingAssumption` and
`PaginationAssumption` keep the NULL-like constants apart from real values.
Finite tables, natural amounts and non-zero limits make up the rest.

### Delivery outbox

None of the properties is inductive alone.  `ExclusiveClaim` needs to know that
a held row is `delivering` (so ClaimDue passes over it) and that its lease still
runs (so Requeue does); the latter is the exact relation
`wait[c.id] = LeaseTTL - age[c.worker]` of `FreshClaim`, kept because a tick
lowers one side and raises the other, and positive because
`age <= MaxHold < LeaseTTL`.  `DeadLetterAtLimit` needs that the attempts a
worker read are still the row's, again `FreshClaim`.  `SucceededWasAcked` needs
`SentWasAcked`: a claim with a 2xx answer is of an acknowledged row.  Hence

    IInv == TypeOK /\ ClaimInv /\ RowsInv

with `ClaimInv` for the claims and `RowsInv` for the accounting of every row
outside `raced`.  The proof has one lemma per action; `ClaimFrame` and `RowFrame`
carry over what an action leaves alone, `HeldRow` gives what a mark may rely on,
`LoggedRow` does the sequence reasoning of the log once for all three marks.

`OutboxImplementsQueue` uses the same invariant.  An attempt that counts in the
code must be one the abstract queue allows, which is where the freshness of the
claim is needed again: the mark of a claim outside `raced` is a `Fail`, `GiveUp`
or `Finish` of the queue for the attempts the row has now.

### Indexer, subscriptions and replay

`SubInv` follows a test request through its statements: between the SELECT and
the last INSERT it holds the secret of an endpoint that exists, because no
statement changes a secret or removes a row.  The indexer's
`IInv == SubInv /\ IndexerInv` relates the Projector's memory to the stream and to
the tables: the buffer is the beginning of the current change (`BufInv`); the open
transaction has applied just the events it has no longer to do, on top of the
committed tables (`TxInv`); both sets of tables are the result of whole events
(`Whole`); all changes before the position are committed (`CommittedInv`), which is
what the next checkpoint relies on.

Convergence needs more, because a restart walks over rows of later changes.
Columns that an upsert overwrites (`LastShown`) show the last event among those
up to the checkpoint and, in a running process, among those up to its position,
which may be far before it.  Columns that it keeps (`FirstCreated`, `FirstValue`)
have to be of the first event of the *whole* stream, which holds since the
first pass goes in order.  `ReplayInv` says both, also of the open transaction.

### The service

`PadmaProofs` takes the outbox's theorems from an instance of
`DeliveryOutboxProofs`.  `PInv` adds to the invariants of the parts that the
rows the dispatcher sees are rows the indexer has committed, that the row of a
test request is absent before its last statement, and that a worker holds only
rows that exist.  With it, the commit of a change and the last statement of a test
are `Enqueue` steps, the steps of the dispatcher are its own and all others
stutter; hence `ServiceImplementsOutbox`, and from it everything that was proved
of the outbox alone.

### Merchant

`IInv` says who made a row: the order is named after the create request that
inserted it, with that request's merchant and external id, and the two unique
keys of the table hold (`OrdersInserted`, `UniqueOrders`).  `ResponsesAgree` then
follows, as each answer is of a row with the request's key (`AnswersExist`).
`PaidIffMatched` needs `InvoicesGivenOut`: an address leaves the service only
with the answer of the request that minted it, after the INSERT.  `RefundInv`
lists what a refund request may rely on at each statement, although it has read
order and payer only once: the order stays its merchant's and never becomes
pending again, and the payer in its hands is that of the order's invoice, whatever
has become of the payments row.  An order whose refund was answered is on record as
refunded (`OrderRefunded`), and since it has one row, no later check finds it paid:
`RefundAnsweredOnce`.  Nothing is said of how often an order is refunded by
requests that race or have not been answered; there the code promises nothing
(section 6).

### Accounting and amounts

The invariant is small: an order has a payment time exactly when it is not
pending, a refund belongs to such an order, a report's rows are each on record or
still to be written, and what a report has answered is covered by the tables,
which only grow (`AInv`).  The rest is arithmetic.  `AmountProofs` shows that a
value read with any exponent is the value written, and what the sums of the
community module `Functions` do: adding an index, renaming, disjoint unions,
partitions, monotonicity, sums of ones.  `CountedOnce` is `SumOfParts` three
times: orders into the groups of a settlement, the settlements into merchants
and months, the refunds into their orders.  These sums and `Pow10` are recursive
functions; the library's induction rules cannot be used here, since they take
an operator as parameter, so `CountUp` and `SubsetInduction` state induction for a
*set* of numbers or of subsets and rest on the existence of minimal elements
(`WFMin`).

### Pagination

`Passed(r)` says that the walk is past row `r`: it has ended, or the cursor is at
`r` or before.  `IInv` says that a row nobody has changed has been returned at
most once, only if it is selected and passed, and certainly so if it was there at
the start.  Its proof rests on the order of `(time, id)` being total: a page
returns the greatest rows behind the cursor, so what is between the two cursors
is just the page.  `WalkMatchesStats` partitions the listed rows by asset with
`SumOfParts`.  It holds for every filter, with the exception that `StatsAgree`
spells out: for `asset=unknown` the bucket also counts the payments without an
asset, since the statistics read `COALESCE(asset, 'unknown')` where the listing
compares the column itself (`BucketsSelect`).

### Only model-checked

`EverySettles`, `ImplementsFairQueue`, `DeliveriesSettle`, `RunCompletes` and
`WalkEnds`: liveness under fairness is out of the prover's reach.

## 6. Findings

Each is a run that TLC ends with a counterexample to a sentence of the
repository's own comments or docs.

* `outbox_replay_in_flight`: replay takes a row in `delivering` too; a second
  worker claims it while the first is still about to send.
* `merchant_lost_payment`: two creates that both miss the lookup mint two
  invoices for one external id; the loser is answered with the winner's order
  and its own invoice, and when that one is paid no order is matched.
* `merchant_refund_twice`: two refunds that both read `paid` both send.
* `merchant_refund_unrecorded`: a request that ends between SendPayment and the
  INSERT has paid without a record, and the order can be refunded again.
* `subscriptions_secret`: creating an endpoint again answers with a secret that
  is not the stored one, which deliveries are signed with.

Observations that contradict no document, or too little of one for a run:

* The log of Gate C, `docs/gates.md:60-61`, shows an order that is refunded and then
  settled as `{asset:CKB, gross:0xc8, fees:0x0, net:0xc8}`.  Settlement reports
  the refunds as fees (`settlement.go:24`), as its comment says and as `CountedOnce`
  has it, so the code gives the logged answer only for a refund of zero; the log does
  not show the amount, and the `TEST-REPORT.md` it is taken from is not in the
  repository.
* A replay that meets a worker on its last attempt lets that worker dead-letter
  the row after the replay has reset the attempts: it is dead with one counted
  failure.  This is the `loose` case of `DeliveryQueue`.
* `Refund` compares its amount with nothing.  An order refunded in excess makes
  `fees` exceed what it brought in; `net` is then cut off at zero, or the excess is
  taken from other orders of that asset (`NetAccounts` says that nothing else
  does this).
* Every GET of a settlement or a reconciliation inserts its rows again
  (`AnswersPersisted` is about the rows of one request).
* The bucket `unknown` of the statistics has the payments without an asset and those
  of an asset of that name; `asset=unknown` lists only the latter.  `StatsAgree`
  states the difference.
* A payment.received that names no payer erases the payer an earlier one has
  captured; the order can then no longer be refunded.
* `Refund` does not look at the status of the payment it gets back: a keysend that
  the node accepts and then fails to deliver is recorded as sent, and the order
  as refunded.
* A refund call that fails after the node has sent leaves the order `paid`, and a
  retry pays again; the keysend carries no idempotency key.
* Periods are months of the database session's time zone, while the export prints
  `paid_at` in UTC: around a month's end an exported row may show a date outside
  the period it was asked for.

## 7. Not modelled

The wiring (`cmd/app`, `apiserver`, `config`, `httpx`'s JSON, pool, migrations):
it has no state and starts the processes that are the actors of these modules.
CSV and XLSX rendering, the seed file, JSON bodies: formatting and I/O.
Lookups by primary key and the list of endpoints: single reads.  API keys and
webhook secrets: random values that are taken as distinct, and hashes and derived
ids as injective.  Payloads, headers and signatures: no guard depends on them.
Test helpers (`dbtest`).

## 8. State of the plan

All modules of the plan are written and checked, and all safety properties of
the passing runs are proved.  What could follow, in order of interest: a
composition of `Merchant` with `Indexer`, in which the matching of an order is
the indexer's transaction rather than an action of its own; the lookups of the
query API as reads under concurrent projection.
