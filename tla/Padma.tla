-------------------------------- MODULE Padma --------------------------------
(***************************************************************************)
(* The service as a whole, from the stream of changes to the receiver: the *)
(* indexer and the API's test request insert rows into webhook_deliveries, *)
(* the dispatcher's workers and the sweeper move them, and the table is    *)
(* all that the processes share.  The components are the modules Indexer   *)
(* (with Subscriptions) and DeliveryOutbox; this module says which of      *)
(* their steps happen together.                                            *)
(*                                                                         *)
(* A row of webhook_deliveries is named by what its id is derived from:    *)
(* the event and the endpoint's URL, or the test request.                  *)
(***************************************************************************)
EXTENDS Indexer

CONSTANTS
  Workers, MaxAttempts, Limit, LeaseTTL, MaxHold, BackoffBase, BackoffMax,
  MaxReplays,    \* as in DeliveryOutbox
  MaxOutFaults   \* bound: faults of the dispatcher

VARIABLES
  status, attempts, wait, log, claims, age, acked, replays, raced, base,
  outFaults      \* the variables of DeliveryOutbox

indexerVars == vars
outboxVars  == << status, attempts, wait, log, claims, age, acked, replays,
                  raced, base, outFaults >>
allVars     == << indexerVars, outboxVars >>

(* webhook_deliveries.id                                                   *)
FanOutIds == (UNION {{e.id : e \in EventsOf(s)} : s \in Streams}) \X Urls
Deliveries == FanOutIds \cup Tests

(* The limits, as in DeliveryOutbox.  No test request has the id of a      *)
(* fan-out delivery: the one is fresh, the other derived.                  *)
ASSUME PadmaAssumption ==
  /\ MaxAttempts \in Int
  /\ Limit \in Nat \ {0}
  /\ LeaseTTL \in Nat \ {0}
  /\ MaxHold \in Nat
  /\ MaxHold < LeaseTTL
  /\ BackoffBase \in Nat \ {0}
  /\ BackoffMax \in Nat
  /\ BackoffBase <= BackoffMax
  /\ MaxReplays \in Nat
  /\ MaxOutFaults \in Nat
  /\ Tests \cap FanOutIds = {}

Outbox == INSTANCE DeliveryOutbox WITH faults <- outFaults, MaxFaults <- MaxOutFaults

PadmaInit == Init /\ Outbox!Init

-----------------------------------------------------------------------------
(* The rows a commit adds: ON CONFLICT (id) DO NOTHING leaves the ones     *)
(* that exist as they are, in whatever state the dispatcher has put them.  *)
InsertedUpserting == {<< x.event, x.url >> : x \in tx.db.deliveries}
Inserted ==
  {d \in {<< x.event, x.url >> : x \in tx.db.deliveries} : status[d] = "absent"}

(* The INSERT of new rows: 'pending', due now.                             *)
InsertRows(S) ==
  /\ status' = [d \in Deliveries |-> IF d \in S THEN "pending" ELSE status[d]]
  /\ UNCHANGED << attempts, wait, log, claims, age, acked, replays, raced,
                  base, outFaults >>

(* The indexer's transaction commits, its deliveries with it.              *)
CommitChange ==
  /\ Commit
  /\ InsertRows(Inserted)

(* The last statement of a test request.                                   *)
QueueTest(t) ==
  /\ TestDelivery(t)
  /\ InsertRows({t})
  /\ UNCHANGED << stream, running, pos, buf, tx, db, order, steady, faults >>

(* The other steps of the indexer's process and of the API.                *)
IndexerStep ==
  /\ \/ Start \/ Handle \/ SaveBegin \/ ApplyEvent \/ Rollback \/ Crash \/ Finish
     \/ \E u \in Urls : Subscribe(u)
     \/ \E k \in Hashes : InsertOrder(k)
  /\ UNCHANGED outboxVars

TestStep(t) ==
  /\ (\E u \in Urls : TestSelect(t, u)) \/ TestEvent(t) \/ TestAbort(t)
  /\ UNCHANGED << stream, running, pos, buf, tx, db, order, steady, faults, outboxVars >>

(* The dispatcher, its sweeper, and the replay request.                    *)
OutboxStep ==
  /\ \/ \E d \in Deliveries : Outbox!Replay(d)
     \/ \E w \in Workers : Outbox!ClaimDue(w) \/ Outbox!Crash(w)
     \/ \E c \in claims : Outbox!Work(c) \/ Outbox!MarkError(c)
     \/ Outbox!ClaimLost \/ Outbox!Requeue \/ Outbox!Tick
  /\ UNCHANGED indexerVars

PadmaNext ==
  \/ CommitChange
  \/ IndexerStep
  \/ \E t \in Tests : QueueTest(t) \/ TestStep(t)
  \/ OutboxStep

(* The dispatcher's fairness is DeliveryOutbox's; the indexer may be       *)
(* restarted for ever, or stand still.                                     *)
PadmaSpec == PadmaInit /\ [][PadmaNext]_allVars /\ Outbox!Fairness

-----------------------------------------------------------------------------
(* The types of the components.                                            *)
PadmaTypeOK == TypeOK /\ Outbox!TypeOK

(* What every process assumes of the shared table: a row in the outbox     *)
(* refers to an event that is committed and to an endpoint that exists,    *)
(* and is signed with the secret the endpoint has now, whatever was        *)
(* created, removed and created again since it was queued.  ClaimDue joins *)
(* the event: a row without one would fail the whole batch.                *)
RowsBacked ==
  \A d \in Deliveries \ Tests : status[d] # "absent" =>
    /\ d[1] \in Ids(db.events)
    /\ endpoint[d[2]] # Nil
    /\ \E x \in db.deliveries : /\ x.event = d[1] /\ x.url = d[2]
                                /\ x.secret = endpoint[d[2]].secret

(* docs/gates.md: re-running the indexer does not double-fire deliveries.  *)
(* The marks that are not counted failures are successes; since the last   *)
(* replay request there is at most one, and a row that has one stays       *)
(* succeeded, however often its event is projected again.                  *)
NoDoubleFire ==
  \A d \in Deliveries : d \notin raced =>
    Len(log[d]) - base[d] - attempts[d] = IF status[d] = "succeeded" THEN 1 ELSE 0

(* Seen from the table, the indexer and the API only ever enqueue: the     *)
(* composed system is an implementation of DeliveryOutbox, so that what is *)
(* shown of the outbox by itself holds with its real producers.            *)
OutboxPreserved == Outbox!Spec

(* Every delivery ends as succeeded or dead although the indexer may       *)
(* restart and project the same events again without end.                  *)
DeliveriesSettle == Outbox!EverySettles
=============================================================================
