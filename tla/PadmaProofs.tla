---------------------------- MODULE PadmaProofs -----------------------------
(***************************************************************************)
(* Proofs about the service as a whole: the composition of the indexer,    *)
(* the test requests and the dispatcher implements the outbox, so that the *)
(* theorems of DeliveryOutboxProofs hold with its real producers.          *)
(***************************************************************************)
EXTENDS Padma, ReplayProofs

(* The theorems of the outbox by itself.  Each comes with what that module *)
(* assumes of its constants, which PadmaAssumption discharges.             *)
OP == INSTANCE DeliveryOutboxProofs WITH faults <- outFaults, MaxFaults <- MaxOutFaults

-----------------------------------------------------------------------------
(***************************************************************************)
(* Outbox and the module the theorems are about are two instances of one   *)
(* module: their definitions agree.                                        *)
(***************************************************************************)
(* The batches a worker may claim.                                         *)
LEMMA SameBatches == Outbox!Batches = OP!Batches
<1>1. Outbox!Due = OP!Due
  BY DEF Outbox!Due, OP!Due
<1>2. \A S : Outbox!Cardinality(S) = OP!Cardinality(S)
  BY DEF Outbox!Cardinality, OP!Cardinality, Outbox!IsFiniteSet, OP!IsFiniteSet
<1>3. QED
  BY <1>1, <1>2 DEF Outbox!Batches, OP!Batches

(* Every action of the one is the action of the other.                     *)
LEMMA SameNext == Outbox!Next => OP!Next
<1>1. \A S : Outbox!Enqueue(S) => OP!Enqueue(S)
  BY DEF Outbox!Enqueue, OP!Enqueue
<1>2. \A d : Outbox!Replay(d) => OP!Replay(d)
  BY DEF Outbox!Replay, OP!Replay, Outbox!ClaimsOn, OP!ClaimsOn
<1>3. \A w : Outbox!ClaimDue(w) => OP!ClaimDue(w)
  BY SameBatches DEF Outbox!ClaimDue, OP!ClaimDue, Outbox!ClaimsOf, OP!ClaimsOf,
                     Outbox!LeaseRows, OP!LeaseRows
<1>4. \A w : Outbox!Crash(w) => OP!Crash(w)
  BY DEF Outbox!Crash, OP!Crash, Outbox!ClaimsOf, OP!ClaimsOf, Outbox!rows, OP!rows,
         Outbox!history, OP!history
<1>5. \A c : Outbox!Send(c) => OP!Send(c)
  BY DEF Outbox!Send, OP!Send, Outbox!rows, OP!rows, Outbox!history, OP!history
<1>6. \A c : Outbox!MarkSucceeded(c) => OP!MarkSucceeded(c)
  BY DEF Outbox!MarkSucceeded, OP!MarkSucceeded
<1>7. \A c : Outbox!MarkFailed(c) => OP!MarkFailed(c)
  BY Zenon DEF Outbox!MarkFailed, OP!MarkFailed, Outbox!Exhausted, OP!Exhausted,
         Outbox!ExpJitter, OP!ExpJitter, Outbox!Delay, OP!Delay
<1>8. \A c : Outbox!MarkDead(c) => OP!MarkDead(c)
  BY DEF Outbox!MarkDead, OP!MarkDead, Outbox!Exhausted, OP!Exhausted
<1>9. \A c : Outbox!MarkError(c) => OP!MarkError(c)
  BY DEF Outbox!MarkError, OP!MarkError, Outbox!rows, OP!rows, Outbox!history, OP!history
<1>10. Outbox!ClaimLost => OP!ClaimLost
  BY SameBatches DEF Outbox!ClaimLost, OP!ClaimLost, Outbox!LeaseRows, OP!LeaseRows
<1>11. Outbox!Requeue => OP!Requeue
  BY DEF Outbox!Requeue, OP!Requeue, Outbox!Stuck, OP!Stuck
<1>12. Outbox!Tick => OP!Tick
  BY DEF Outbox!Tick, OP!Tick, Outbox!ClaimsOf, OP!ClaimsOf
<1>13. QED
  BY <1>1, <1>2, <1>3, <1>4, <1>5, <1>6, <1>7, <1>8, <1>9, <1>10, <1>11, <1>12, Zenon
     DEF Outbox!Next, OP!Next, Outbox!Work, OP!Work

(* So are the initial state, the variables and the types.                  *)
LEMMA SameState ==
  /\ Outbox!Init => OP!Init
  /\ Outbox!vars = OP!vars
  /\ Outbox!TypeOK <=> OP!TypeOK
<1>1. Outbox!Init => OP!Init
  BY DEF Outbox!Init, OP!Init
<1>2. Outbox!vars = OP!vars
  BY DEF Outbox!vars, OP!vars
<1>3. Outbox!TypeOK <=> OP!TypeOK
  BY DEF Outbox!TypeOK, OP!TypeOK, Outbox!Status, OP!Status, Outbox!Claim, OP!Claim
<1>4. QED
  BY <1>1, <1>2, <1>3

-----------------------------------------------------------------------------
(***************************************************************************)
(* The inductive invariant                                                 *)
(***************************************************************************)

(* A worker holds only rows that exist, so that no mark creates one.       *)
HeldExist == \A c \in claims : status[c.id] # "absent"

(* The fan-out row that delivery d is.                                     *)
HasRow(d) == \E x \in db.deliveries : x.event = d[1] /\ x.url = d[2]

(* The rows the dispatcher sees are rows the indexer has committed, and    *)
(* the row of a test request is not there before its last statement.       *)
RowsInv == \A d \in FanOutIds : status[d] # "absent" => HasRow(d)
TestRowsInv == \A t \in Tests : test[t].pc # "done" => status[t] = "absent"

PInv ==
  /\ IInv
  /\ Outbox!TypeOK
  /\ HeldExist
  /\ RowsInv
  /\ TestRowsInv

-----------------------------------------------------------------------------
(***************************************************************************)
(* The dispatcher creates no rows and removes none                         *)
(***************************************************************************)

(* status' is absent exactly where status is.                              *)
SameRows == \A d \in Deliveries : status'[d] = "absent" <=> status[d] = "absent"

(* A claim takes rows that exist and leaves them there.                    *)
LEMMA LeaseKeepsRows ==
  ASSUME Outbox!TypeOK, NEW S \in Outbox!Batches, Outbox!LeaseRows(S)
  PROVE  SameRows /\ \A d \in S : d \in Deliveries /\ status[d] # "absent"
BY DEF Outbox!Batches, Outbox!Due, Outbox!LeaseRows, Outbox!TypeOK, SameRows

(* A mark changes the row of a claim, which exists.                        *)
LEMMA MarkKeepsRows ==
  ASSUME Outbox!TypeOK, HeldExist, NEW c \in claims, NEW s \in Outbox!Status \ {"absent"},
         status' = [status EXCEPT ![c.id] = s]
  PROVE  SameRows
<1>1. c.id \in Deliveries /\ status[c.id] # "absent"
  BY DEF Outbox!TypeOK, Outbox!Claim, HeldExist
<1>2. QED
  BY <1>1 DEF Outbox!TypeOK, SameRows

(* No step of the outbox other than the fan-out creates or removes a row,  *)
(* and claims are of rows that exist.                                      *)
LEMMA OutboxRows ==
  ASSUME Outbox!TypeOK, HeldExist, OutboxStep
  PROVE  SameRows /\ HeldExist'
<1>0. \A c \in claims : c \in Outbox!Claim /\ c.id \in Deliveries
  BY DEF Outbox!TypeOK, Outbox!Claim
<1>1. ASSUME SameRows, \A c \in claims' : c.id \in Deliveries /\ status[c.id] # "absent"
      PROVE  SameRows /\ HeldExist'
  BY <1>1 DEF SameRows, HeldExist
<1>2. ASSUME NEW d \in Deliveries, Outbox!Replay(d) PROVE SameRows /\ HeldExist'
  <2>1. SameRows
    BY <1>2 DEF Outbox!Replay, Outbox!TypeOK, SameRows
  <2>2. claims' = claims
    BY <1>2 DEF Outbox!Replay
  <2>3. QED
    BY <1>0, <1>1, <2>1, <2>2 DEF HeldExist
<1>3. ASSUME NEW w \in Workers, Outbox!ClaimDue(w) PROVE SameRows /\ HeldExist'
  <2> DEFINE new(d) == [worker |-> w, id |-> d, attempts |-> attempts[d], sent |-> "no"]
  <2>1. PICK S \in Outbox!Batches :
          Outbox!LeaseRows(S) /\ claims' = claims \cup {new(d) : d \in S}
    BY <1>3 DEF Outbox!ClaimDue
  <2>2. SameRows /\ \A d \in S : d \in Deliveries /\ status[d] # "absent"
    BY <2>1, LeaseKeepsRows
  <2>3. \A d : new(d).id = d
    OBVIOUS
  <2> HIDE DEF new
  <2>4. \A c \in claims' : c.id \in Deliveries /\ status[c.id] # "absent"
    BY <1>0, <2>1, <2>2, <2>3 DEF HeldExist
  <2>5. QED
    BY <1>1, <2>2, <2>4
<1>4. ASSUME claims' \subseteq claims, status' = status PROVE SameRows /\ HeldExist'
  BY <1>0, <1>4 DEF SameRows, HeldExist
<1>5. ASSUME NEW w \in Workers, Outbox!Crash(w) PROVE SameRows /\ HeldExist'
  BY <1>4, <1>5 DEF Outbox!Crash, Outbox!rows
<1>6. ASSUME NEW c \in claims, Outbox!Send(c) PROVE SameRows /\ HeldExist'
  <2>1. PICK s \in {"ok", "err"} : claims' = (claims \ {c}) \cup {[c EXCEPT !.sent = s]}
    BY <1>6 DEF Outbox!Send
  <2>2. [c EXCEPT !.sent = s].id = c.id
    BY <1>0 DEF Outbox!Claim
  <2>3. status' = status
    BY <1>6 DEF Outbox!Send, Outbox!rows
  <2>4. \A e \in claims' : e.id \in Deliveries /\ status[e.id] # "absent"
    BY <1>0, <2>1, <2>2 DEF HeldExist
  <2>5. QED
    BY <1>1, <2>3, <2>4 DEF SameRows
<1>7. ASSUME NEW c \in claims, Outbox!MarkSucceeded(c) \/ Outbox!MarkFailed(c) \/ Outbox!MarkDead(c)
      PROVE  SameRows /\ HeldExist'
  <2>1. PICK s \in {"succeeded", "failed", "dead"} : status' = [status EXCEPT ![c.id] = s]
    BY <1>7 DEF Outbox!MarkSucceeded, Outbox!MarkFailed, Outbox!MarkDead
  <2>2. SameRows
    BY <2>1, MarkKeepsRows DEF Outbox!Status
  <2>3. claims' \subseteq claims
    BY <1>7 DEF Outbox!MarkSucceeded, Outbox!MarkFailed, Outbox!MarkDead
  <2>4. QED
    BY <1>0, <1>1, <2>2, <2>3 DEF HeldExist
<1>8. ASSUME NEW c \in claims, Outbox!MarkError(c) PROVE SameRows /\ HeldExist'
  BY <1>4, <1>8 DEF Outbox!MarkError, Outbox!rows
<1>9. CASE Outbox!ClaimLost
  <2>1. PICK S \in Outbox!Batches : Outbox!LeaseRows(S)
    BY <1>9 DEF Outbox!ClaimLost
  <2>2. SameRows /\ claims' = claims
    BY <1>9, <2>1, LeaseKeepsRows DEF Outbox!ClaimLost
  <2>3. QED
    BY <1>0, <1>1, <2>2 DEF HeldExist
<1>10. CASE Outbox!Requeue
  <2>1. SameRows
    BY <1>10 DEF Outbox!Requeue, Outbox!Stuck, Outbox!TypeOK, SameRows
  <2>2. claims' = claims
    BY <1>10 DEF Outbox!Requeue
  <2>3. QED
    BY <1>0, <1>1, <2>1, <2>2 DEF HeldExist
<1>11. CASE Outbox!Tick
  BY <1>4, <1>11 DEF Outbox!Tick
<1>12. QED
  BY <1>2, <1>3, <1>5, <1>6, <1>7, <1>8, <1>9, <1>10, <1>11 DEF OutboxStep, Outbox!Work

-----------------------------------------------------------------------------
(***************************************************************************)
(* The steps                                                               *)
(***************************************************************************)

(* The new rows of a commit: fan-out deliveries that were absent, each     *)
(* with its row in the transaction.                                        *)
LEMMA InsertedRows ==
  ASSUME PInv, Commit
  PROVE  /\ Inserted \subseteq FanOutIds
         /\ \A d \in Inserted : status[d] = "absent"
         /\ db'.deliveries = tx.db.deliveries
         /\ db.deliveries \subseteq db'.deliveries
<1>1. tx # Nil /\ db' = [tx.db EXCEPT !.checkpoint = pos]
  BY DEF Commit
<1>2. /\ Whole(tx.db) /\ db.deliveries \subseteq tx.db.deliveries /\ stream \in Streams
  BY <1>1 DEF PInv, IInv, IndexerInv, TxInv, IndexerTypes
<1>3. db'.deliveries = tx.db.deliveries
  BY <1>1, <1>2, DbExcept DEF Whole
<1>4. ASSUME NEW x \in tx.db.deliveries PROVE << x.event, x.url >> \in FanOutIds
  <2>1. x.url \in Urls /\ x.event \in Ids(tx.db.events)
    BY <1>2 DEF Whole, Signs
  <2>2. PICK e \in StreamEvents : x.event = e.id
    BY <1>2, <2>1 DEF Whole, Ids
  <2>3. x.event \in UNION {{y.id : y \in EventsOf(s)} : s \in Streams}
    BY <1>2, <2>2 DEF StreamEvents
  <2>4. QED
    BY <2>1, <2>3 DEF FanOutIds
<1>5. QED
  BY <1>2, <1>3, <1>4 DEF Inserted

(* An insertion is the outbox's Enqueue, or nothing.                       *)
LEMMA InsertIsEnqueue ==
  ASSUME Outbox!TypeOK, NEW S \in SUBSET Deliveries, \A d \in S : status[d] = "absent",
         InsertRows(S)
  PROVE  Outbox!Next \/ UNCHANGED Outbox!vars
<1>1. CASE S = {}
  <2>1. status' = status
    BY <1>1 DEF InsertRows, Outbox!TypeOK
  <2>2. QED
    BY <2>1 DEF InsertRows, Outbox!vars
<1>2. CASE S # {}
  <2>1. Outbox!Enqueue(S)
    BY <1>2 DEF Outbox!Enqueue, InsertRows
  <2>2. QED
    BY <2>1 DEF Outbox!Next
<1>3. QED
  BY <1>1, <1>2

(* The one test request whose delivery is inserted had none.               *)
LEMMA QueuedTest ==
  ASSUME PInv, NEW t \in Tests, QueueTest(t)
  PROVE  {t} \in SUBSET Deliveries /\ \A d \in {t} : status[d] = "absent"
BY DEF PInv, TestRowsInv, QueueTest, TestDelivery, Deliveries

(* Every step of the service is a step of the outbox or does not show.     *)
LEMMA StepImplements ==
  ASSUME PInv, PadmaNext
  PROVE  Outbox!Next \/ UNCHANGED Outbox!vars
<1>0. Outbox!TypeOK
  BY DEF PInv
<1>1. CASE CommitChange
  <2>1. Inserted \in SUBSET Deliveries /\ \A d \in Inserted : status[d] = "absent"
    BY <1>1, InsertedRows DEF CommitChange, Deliveries
  <2>2. QED
    BY <1>0, <1>1, <2>1, InsertIsEnqueue DEF CommitChange
<1>2. CASE IndexerStep
  BY <1>2 DEF IndexerStep, outboxVars, Outbox!vars
<1>3. ASSUME NEW t \in Tests, QueueTest(t) PROVE Outbox!Next
  <2>1. InsertRows({t}) /\ {t} \in SUBSET Deliveries /\ \A d \in {t} : status[d] = "absent"
    BY <1>3, QueuedTest DEF QueueTest
  <2>2. Outbox!Enqueue({t})
    BY <2>1 DEF Outbox!Enqueue, InsertRows
  <2>3. QED
    BY <2>1, <2>2 DEF Outbox!Next
<1>4. ASSUME NEW t \in Tests, TestStep(t) PROVE UNCHANGED Outbox!vars
  BY <1>4 DEF TestStep, outboxVars, Outbox!vars
<1>5. CASE OutboxStep
  BY <1>5 DEF OutboxStep, Outbox!Next
<1>6. QED
  BY <1>1, <1>2, <1>3, <1>4, <1>5 DEF PadmaNext

(* The indexer and the subscriptions keep their invariant: their steps in  *)
(* the service are their own.                                              *)
LEMMA StepKeepsIndexer ==
  ASSUME PInv, PadmaNext
  PROVE  IInv'
<1>0. IInv
  BY DEF PInv
<1>1. CASE CommitChange
  <2>1. Next
    BY <1>1 DEF CommitChange, Next
  <2>2. QED
    BY <1>0, <2>1, IndexerNextInv
<1>2. CASE IndexerStep
  <2>1. Next
    BY <1>2 DEF IndexerStep, Next
  <2>2. QED
    BY <1>0, <2>1, IndexerNextInv
<1>3. ASSUME NEW t \in Tests, QueueTest(t) \/ TestStep(t) PROVE IInv'
  <2>1. TestStepOf(t)
    BY <1>3 DEF QueueTest, TestStep, TestStepOf
  <2>2. UNCHANGED projectorVars
    BY <1>3 DEF QueueTest, TestStep, projectorVars
  <2>3. SubInv' /\ UNCHANGED endpoint
    BY <1>0, <2>1, TestStepInv DEF IInv
  <2>4. QED
    BY <1>0, <2>2, <2>3, IndexerFrame DEF IInv
<1>4. CASE OutboxStep
  <2>1. UNCHANGED << subVars, projectorVars >>
    BY <1>4 DEF OutboxStep, indexerVars, vars, projectorVars
  <2>2. QED
    BY <1>0, <2>1, SubUnchanged, IndexerFrame DEF IInv
<1>5. QED
  BY <1>1, <1>2, <1>3, <1>4 DEF PadmaNext

(* The outbox keeps its types, because every step is one of its own.       *)
LEMMA StepKeepsTypes ==
  ASSUME PInv, PadmaNext
  PROVE  Outbox!TypeOK'
<1>1. OP!TypeOK /\ [OP!Next]_(OP!vars)
  <2>1. UNCHANGED Outbox!vars => UNCHANGED OP!vars
    BY DEF Outbox!vars, OP!vars
  <2>2. QED
    BY <2>1, StepImplements, SameNext, SameState DEF PInv
<1>2. OP!TypeOK'
  BY <1>1, OP!NextType, PadmaAssumption
<1>3. QED
  BY <1>2 DEF Outbox!TypeOK, OP!TypeOK, Outbox!Status, OP!Status, Outbox!Claim, OP!Claim

(* No row appears in the dispatcher's table without the row and the place  *)
(* in its request that make it.                                            *)
LEMMA StepKeepsRows ==
  ASSUME PInv, PadmaNext
  PROVE  HeldExist' /\ RowsInv' /\ TestRowsInv'
<1> USE DEF PInv
<1>0. /\ FanOutIds \subseteq Deliveries /\ Tests \subseteq Deliveries
      /\ FanOutIds \cap Tests = {}
      /\ \A c \in claims : c.id \in Deliveries
  BY PadmaAssumption DEF Deliveries, Outbox!TypeOK, Outbox!Claim
<1>1. ASSUME SameRows, HeldExist', db' = db, test' = test
      PROVE  HeldExist' /\ RowsInv' /\ TestRowsInv'
  BY <1>0, <1>1 DEF SameRows, RowsInv, TestRowsInv, HasRow
<1>2. ASSUME NEW S \in SUBSET Deliveries, InsertRows(S)
      PROVE  /\ HeldExist'
             /\ \A d \in Deliveries : status'[d] # "absent" => status[d] # "absent" \/ d \in S
             /\ \A d \in Deliveries \ S : status'[d] = status[d]
  <2>1. \A d \in Deliveries : status'[d] = IF d \in S THEN "pending" ELSE status[d]
    BY <1>2 DEF InsertRows
  <2>2. claims' = claims
    BY <1>2 DEF InsertRows
  <2>3. QED
    BY <1>0, <2>1, <2>2 DEF HeldExist
<1>3. CASE CommitChange
  <2>1. /\ Inserted \subseteq FanOutIds
        /\ db'.deliveries = tx.db.deliveries /\ db.deliveries \subseteq db'.deliveries
        /\ InsertRows(Inserted) /\ test' = test
    BY <1>3, InsertedRows DEF CommitChange, Commit, subVars
  <2>2. /\ HeldExist'
        /\ \A d \in Deliveries : status'[d] # "absent" => status[d] # "absent" \/ d \in Inserted
        /\ \A d \in Deliveries \ Inserted : status'[d] = status[d]
    <3>1. Inserted \in SUBSET Deliveries
      BY <1>0, <2>1
    <3>2. QED
      BY <1>2, <2>1, <3>1
  <2>3. \A d \in Inserted : HasRow(d)'
    BY <2>1 DEF Inserted, HasRow
  <2>4. \A d : HasRow(d) => HasRow(d)'
    BY <2>1 DEF HasRow
  <2>5. RowsInv'
    BY <1>0, <2>2, <2>3, <2>4 DEF RowsInv
  <2>6. TestRowsInv'
    BY <1>0, <2>1, <2>2 DEF TestRowsInv
  <2>7. QED
    BY <2>2, <2>5, <2>6
<1>4. CASE IndexerStep
  <2>1. status' = status /\ claims' = claims
    BY <1>4 DEF IndexerStep, outboxVars
  <2>2. db' = db /\ test' = test
    BY <1>4 DEF IndexerStep, Start, Handle, SaveBegin, ApplyEvent, Rollback, Crash, Finish,
                Subscribe, Create, Remove, InsertOrder, subVars
  <2>3. QED
    BY <1>1, <2>1, <2>2 DEF SameRows, HeldExist
<1>5. ASSUME NEW t \in Tests, QueueTest(t)
      PROVE  HeldExist' /\ RowsInv' /\ TestRowsInv'
  <2>1. db' = db /\ InsertRows({t}) /\ test' = [test EXCEPT ![t].pc = "done"]
    BY <1>5 DEF QueueTest, TestDelivery
  <2>2. /\ HeldExist'
        /\ \A d \in Deliveries : status'[d] # "absent" => status[d] # "absent" \/ d \in {t}
        /\ \A d \in Deliveries \ {t} : status'[d] = status[d]
    <3>1. {t} \in SUBSET Deliveries
      BY <1>0
    <3>2. QED
      BY <1>2, <2>1, <3>1
  <2>3. RowsInv'
    BY <1>0, <2>1, <2>2 DEF RowsInv, HasRow
  <2>4. test'[t].pc = "done" /\ \A x \in Tests : x # t => test'[x] = test[x]
    BY <2>1, TestGoto DEF IInv, SubInv
  <2>5. TestRowsInv'
    BY <1>0, <2>2, <2>4 DEF TestRowsInv
  <2>6. QED
    BY <2>2, <2>3, <2>5
<1>6. ASSUME NEW t \in Tests, TestStep(t)
      PROVE  HeldExist' /\ RowsInv' /\ TestRowsInv'
  <2>1. status' = status /\ claims' = claims /\ db' = db
    BY <1>6 DEF TestStep, outboxVars
  <2>2. test[t].pc # "done" /\ \A x \in Tests : x # t => test'[x] = test[x]
    BY <1>6 DEF TestStep, TestSelect, TestEvent, TestAbort, IInv, SubInv, SubTypeOK
  <2>3. QED
    BY <2>1, <2>2 DEF HeldExist, RowsInv, TestRowsInv, HasRow
<1>7. CASE OutboxStep
  <2>1. SameRows /\ HeldExist'
    BY <1>7, OutboxRows
  <2>2. db' = db /\ test' = test
    BY <1>7 DEF OutboxStep, indexerVars, vars, subVars
  <2>3. QED
    BY <1>1, <2>1, <2>2
<1>8. QED
  BY <1>3, <1>4, <1>5, <1>6, <1>7 DEF PadmaNext

-----------------------------------------------------------------------------
(***************************************************************************)
(* The theorems                                                            *)
(***************************************************************************)

(* The service starts with empty tables.                                   *)
LEMMA PadmaInitInv == PadmaInit => PInv
<1> SUFFICES ASSUME PadmaInit PROVE PInv
  OBVIOUS
<1>1. IInv
  BY IndexerInitInv DEF PadmaInit
<1>2. Outbox!TypeOK
  BY SameState, OP!InitType, PadmaAssumption DEF PadmaInit
<1>3. HeldExist /\ RowsInv /\ TestRowsInv
  BY DEF PadmaInit, Outbox!Init, HeldExist, RowsInv, TestRowsInv, Deliveries
<1>4. QED
  BY <1>1, <1>2, <1>3 DEF PInv

(* Every step of a component preserves the invariant of the whole.         *)
LEMMA PadmaNextInv == PInv /\ [PadmaNext]_allVars => PInv'
<1> SUFFICES ASSUME PInv, [PadmaNext]_allVars PROVE PInv'
  OBVIOUS
<1>1. CASE PadmaNext
  BY <1>1, StepKeepsIndexer, StepKeepsTypes, StepKeepsRows DEF PInv
<1>2. CASE UNCHANGED allVars
  <2>1. UNCHANGED << subVars, projectorVars, outboxVars >>
    BY <1>2 DEF allVars, indexerVars, vars, projectorVars
  <2>2. IInv'
    BY <2>1, SubUnchanged, IndexerFrame DEF PInv, IInv
  <2>3. Outbox!TypeOK'
    BY <2>1 DEF PInv, outboxVars, Outbox!TypeOK
  <2>4. HeldExist' /\ RowsInv' /\ TestRowsInv'
    BY <2>1 DEF PInv, outboxVars, projectorVars, subVars, HeldExist, RowsInv, TestRowsInv, HasRow
  <2>5. QED
    BY <2>2, <2>3, <2>4 DEF PInv
<1>3. QED
  BY <1>1, <1>2

(* The inductive invariant of the service.                                 *)
THEOREM PadmaInvariant == PadmaSpec => []PInv
BY PadmaInitInv, PadmaNextInv, PTL DEF PadmaSpec

(* The service implements the outbox: the indexer's commits and the API's  *)
(* test requests, with whatever they race, only ever enqueue new rows.     *)
THEOREM ServiceImplementsOutbox == PadmaSpec => OutboxPreserved
<1>1. PadmaInit => Outbox!Init
  BY DEF PadmaInit
<1>2. PInv /\ [PadmaNext]_allVars => [Outbox!Next]_(Outbox!vars)
  <2> SUFFICES ASSUME PInv, [PadmaNext]_allVars PROVE [Outbox!Next]_(Outbox!vars)
    OBVIOUS
  <2>1. CASE UNCHANGED allVars
    BY <2>1 DEF allVars, outboxVars, Outbox!vars
  <2>2. QED
    BY <2>1, StepImplements
<1>3. QED
  BY <1>1, <1>2, PadmaInvariant, PTL DEF PadmaSpec, OutboxPreserved, Outbox!Spec

(* The outbox as the theorems about it name it.                            *)
LEMMA ServiceOutbox == PadmaSpec => OP!Spec
<1>1. [Outbox!Next]_(Outbox!vars) => [OP!Next]_(OP!vars)
  <2>1. UNCHANGED Outbox!vars => UNCHANGED OP!vars
    BY DEF Outbox!vars, OP!vars
  <2>2. QED
    BY <2>1, SameNext
<1>2. Outbox!Init => OP!Init
  BY SameState
<1>3. QED
  BY <1>1, <1>2, ServiceImplementsOutbox, PTL DEF OutboxPreserved, Outbox!Spec, OP!Spec

(* The types of all components.                                            *)
THEOREM PadmaTypeCorrect == PadmaSpec => []PadmaTypeOK
<1>1. PInv => PadmaTypeOK
  BY IndexerTypeOK DEF PInv, PadmaTypeOK
<1>2. QED
  BY <1>1, PadmaInvariant, PTL

(* A row the dispatcher may claim has its committed event and its          *)
(* endpoint, with the endpoint's present secret, whatever the indexer      *)
(* replays and whatever is created, removed and created again meanwhile.   *)
THEOREM RowsAreBacked == PadmaSpec => []RowsBacked
<1>1. PInv => RowsBacked
  <2> SUFFICES ASSUME PInv, NEW d \in Deliveries \ Tests, status[d] # "absent"
               PROVE  /\ d[1] \in Ids(db.events)
                      /\ endpoint[d[2]] # Nil
                      /\ \E x \in db.deliveries : /\ x.event = d[1] /\ x.url = d[2]
                                                  /\ x.secret = endpoint[d[2]].secret
    BY DEF RowsBacked
  <2>1. PICK x \in db.deliveries : x.event = d[1] /\ x.url = d[2]
    BY DEF PInv, RowsInv, HasRow, Deliveries
  <2>2. x.event \in Ids(db.events) /\ Signs(x.url, x.secret)
    BY DEF PInv, IInv, IndexerInv, Whole
  <2>3. QED
    BY <2>1, <2>2 DEF Signs
<1>2. QED
  BY <1>1, PadmaInvariant, PTL

(* Test deliveries stay backed while the indexer and the dispatcher run.   *)
THEOREM TestsBackedInService == PadmaSpec => []TestDeliveryBacked
<1>1. PInv => TestDeliveryBacked
  BY TestsAreBacked DEF PInv, IInv
<1>2. QED
  BY <1>1, PadmaInvariant, PTL

(* Re-running the indexer does not double-fire: the outbox's numbering of  *)
(* attempts, carried over to the service.                                  *)
THEOREM ReplayFiresOnce == PadmaSpec => []NoDoubleFire
<1>1. OP!Spec => []OP!LogNumbersAttempts
  BY OP!LogNumbered, PadmaAssumption
<1>2. PInv /\ OP!LogNumbersAttempts => NoDoubleFire
  <2> SUFFICES ASSUME PInv, OP!LogNumbersAttempts, NEW d \in Deliveries, d \notin raced
               PROVE  Len(log[d]) - base[d] - attempts[d] = IF status[d] = "succeeded" THEN 1 ELSE 0
    BY DEF NoDoubleFire
  <2>1. log[d] \in Seq(Nat) /\ base[d] \in Nat /\ attempts[d] \in Nat
    BY DEF PInv, Outbox!TypeOK
  <2>2. Len(log[d]) = base[d] + attempts[d] + (IF status[d] = "succeeded" THEN 1 ELSE 0)
    BY DEF OP!LogNumbersAttempts
  <2>3. QED
    BY <2>1, <2>2
<1>3. QED
  BY <1>1, <1>2, ServiceOutbox, PadmaInvariant, PTL

(* With its real producers the outbox keeps what it promises by itself:    *)
(* one worker per row, marks that land on the row as it was claimed,       *)
(* dead-letters exactly at the limit, and successes the receiver saw.      *)
THEOREM ServiceKeepsPromises ==
  PadmaSpec => [](/\ Outbox!ExclusiveClaim /\ Outbox!FreshClaim
                  /\ Outbox!DeadLetterAtLimit /\ Outbox!SucceededWasAcked)
<1>1. OP!Spec => [](/\ OP!ExclusiveClaim /\ OP!FreshClaim
                    /\ OP!DeadLetterAtLimit /\ OP!SucceededWasAcked)
  <2>1. OP!Spec => []OP!ExclusiveClaim
    BY OP!ClaimsExclusive, PadmaAssumption
  <2>2. OP!Spec => []OP!FreshClaim
    BY OP!ClaimsFresh, PadmaAssumption
  <2>3. OP!Spec => []OP!DeadLetterAtLimit
    BY OP!DeadLetterExact, PadmaAssumption
  <2>4. OP!Spec => []OP!SucceededWasAcked
    BY OP!SuccessAcked, PadmaAssumption
  <2>5. QED
    BY <2>1, <2>2, <2>3, <2>4, PTL
<1>2. /\ OP!ExclusiveClaim => Outbox!ExclusiveClaim
      /\ OP!FreshClaim => Outbox!FreshClaim
      /\ OP!SucceededWasAcked => Outbox!SucceededWasAcked
  BY DEF OP!ExclusiveClaim, Outbox!ExclusiveClaim, OP!FreshClaim, Outbox!FreshClaim,
         OP!SucceededWasAcked, Outbox!SucceededWasAcked
<1>3. OP!DeadLetterAtLimit => Outbox!DeadLetterAtLimit
  BY DEF OP!DeadLetterAtLimit, Outbox!DeadLetterAtLimit, OP!AttemptLimit, Outbox!AttemptLimit
<1>4. QED
  BY <1>1, <1>2, <1>3, ServiceOutbox, PTL

-----------------------------------------------------------------------------
(***************************************************************************)
(* What the indexer promises by itself                                     *)
(***************************************************************************)

(* For the indexer, a step of the service is one of its own or leaves what *)
(* it writes alone.                                                        *)
LEMMA ServiceStep ==
  ASSUME [PadmaNext]_allVars
  PROVE  Next \/ UNCHANGED projectorVars
<1>1. CASE CommitChange \/ IndexerStep
  BY <1>1 DEF CommitChange, IndexerStep, Next
<1>2. ASSUME NEW t \in Tests, QueueTest(t) \/ TestStep(t) PROVE UNCHANGED projectorVars
  BY <1>2 DEF QueueTest, TestStep, projectorVars
<1>3. CASE OutboxStep \/ UNCHANGED allVars
  BY <1>3 DEF OutboxStep, allVars, indexerVars, vars, projectorVars
<1>4. QED
  BY <1>1, <1>2, <1>3 DEF PadmaNext

(* With the dispatcher and the API beside it the indexer keeps what it     *)
(* promises by itself: the checkpoint is covered, a change is committed as *)
(* a whole, and replay converges.                                          *)
THEOREM ServiceKeepsTables ==
  PadmaSpec => [](CheckpointCovers /\ AllOrNothing /\ ProjectionsConverge)
<1>1. PadmaInit => ReplayInv
  BY ReplayInit DEF PadmaInit
<1>2. PInv /\ ReplayInv /\ [PadmaNext]_allVars => ReplayInv'
  <2> SUFFICES ASSUME PInv, ReplayInv, [PadmaNext]_allVars PROVE ReplayInv'
    OBVIOUS
  <2>1. CASE Next
    BY <2>1, ReplayNext DEF PInv
  <2>2. CASE UNCHANGED projectorVars
    BY <2>2, ReplayFrame DEF projectorVars
  <2>3. QED
    BY <2>1, <2>2, ServiceStep
<1>3. PInv /\ ReplayInv => CheckpointCovers /\ AllOrNothing /\ ProjectionsConverge
  <2>1. IInv => CheckpointCovers
    BY DEF IInv, IndexerInv, CommittedInv, Holds, CheckpointCovers
  <2>2. QED
    BY <2>1, WholeTables, InvariantConverges DEF PInv
<1>4. QED
  BY <1>1, <1>2, <1>3, PadmaInvariant, PTL DEF PadmaSpec

(* An event reaches the outbox in the step that commits it, whatever the   *)
(* dispatcher is doing with the rows of other events.                      *)
THEOREM ServiceFansOut == PadmaSpec => AtomicOutbox
<1>1. PInv /\ [PadmaNext]_allVars => [FannedOut]_vars
  <2> SUFFICES ASSUME PInv, [PadmaNext]_allVars PROVE FannedOut
    OBVIOUS
  <2>1. CASE Next
    BY <2>1, CommitFansOut DEF PInv
  <2>2. CASE UNCHANGED projectorVars
    BY <2>2 DEF projectorVars, FannedOut
  <2>3. QED
    BY <2>1, <2>2, ServiceStep
<1>2. QED
  BY <1>1, PadmaInvariant, PTL DEF PadmaSpec, AtomicOutbox, FannedOut
=============================================================================
