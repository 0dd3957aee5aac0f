------------------------ MODULE DeliveryOutboxProofs ------------------------
(***************************************************************************)
(* Proofs about the delivery outbox, for any number of deliveries and      *)
(* workers and any limits.                                                 *)
(***************************************************************************)
EXTENDS DeliveryOutbox, TLAPS

(* Where a claim comes from: every member of claims is a claim record.     *)
LEMMA ClaimFacts ==
  ASSUME TypeOK, NEW c \in claims
  PROVE  /\ c \in Claim
         /\ c.worker \in Workers
         /\ c.id \in Deliveries
         /\ c.attempts \in Nat
         /\ c.sent \in {"no", "ok", "err"}
BY DEF TypeOK, Claim

(* Recording the outcome of a request keeps the rest of the claim.         *)
LEMMA SentClaim ==
  ASSUME NEW c \in Claim, NEW s \in {"no", "ok", "err"}
  PROVE  /\ [c EXCEPT !.sent = s] \in Claim
         /\ [c EXCEPT !.sent = s].worker = c.worker
         /\ [c EXCEPT !.sent = s].id = c.id
         /\ [c EXCEPT !.sent = s].attempts = c.attempts
         /\ [c EXCEPT !.sent = s].sent = s
BY DEF Claim

(* The batches of ClaimDue consist of due rows.                            *)
LEMMA BatchIsDue ==
  ASSUME NEW S \in Batches
  PROVE  /\ S \subseteq Deliveries
         /\ \A d \in S : status[d] \in {"pending", "failed"} /\ wait[d] = 0
BY DEF Batches, Due

(* The waits expJitter returns are natural numbers.                        *)
LEMMA JitterType ==
  ASSUME NEW n, NEW t \in ExpJitter(n)
  PROVE  t \in Nat
BY ConstantsAssumption DEF ExpJitter

-----------------------------------------------------------------------------
(* Initially no row exists and nothing is held.                            *)
LEMMA InitType == Init => TypeOK
BY ConstantsAssumption DEF Init, TypeOK, Status, Claim

(* Every step keeps the types: one case per action.                        *)
LEMMA NextType == TypeOK /\ [Next]_vars => TypeOK'
<1> SUFFICES ASSUME TypeOK, [Next]_vars PROVE TypeOK'
  OBVIOUS
<1> USE ConstantsAssumption
<1>1. ASSUME NEW S \in SUBSET Deliveries, Enqueue(S) PROVE TypeOK'
  BY <1>1 DEF Enqueue, TypeOK, Status
<1>2. ASSUME NEW d \in Deliveries, Replay(d) PROVE TypeOK'
  BY <1>2 DEF Replay, TypeOK, Status
<1>3. ASSUME NEW S \in Batches, LeaseRows(S)
      PROVE  /\ status' \in [Deliveries -> Status]
             /\ wait' \in [Deliveries -> Nat]
             /\ attempts' = attempts
             /\ log' = log
  BY <1>3 DEF LeaseRows, TypeOK, Status
<1>4. ASSUME NEW w \in Workers, ClaimDue(w) PROVE TypeOK'
  <2>1. PICK S \in Batches :
          /\ LeaseRows(S)
          /\ claims' = claims \cup {[worker |-> w, id |-> d,
                         attempts |-> attempts[d], sent |-> "no"] : d \in S}
    BY <1>4 DEF ClaimDue
  <2>2. claims' \in SUBSET Claim
    BY <2>1, BatchIsDue DEF TypeOK, Claim
  <2>3. QED
    BY <1>3, <1>4, <2>1, <2>2 DEF ClaimDue, TypeOK
<1>5. CASE ClaimLost
  BY <1>3, <1>5 DEF ClaimLost, TypeOK
<1>6. ASSUME NEW c \in claims, Send(c) PROVE TypeOK'
  <2> DEFINE Sent(s) == [c EXCEPT !.sent = s]
  <2>a. Sent("ok") \in Claim /\ Sent("err") \in Claim
    BY ClaimFacts, SentClaim
  <2>b. \/ claims' = (claims \ {c}) \cup {Sent("ok")}
        \/ claims' = (claims \ {c}) \cup {Sent("err")}
    BY <1>6 DEF Send
  <2>c. claims \subseteq Claim
    BY DEF TypeOK
  <2> HIDE DEF Sent
  <2>1. claims' \in SUBSET Claim
    BY <2>a, <2>b, <2>c
  <2>2. acked' \in [Deliveries -> BOOLEAN]
    BY <1>6, ClaimFacts DEF Send, TypeOK
  <2>3. QED
    BY <1>6, <2>1, <2>2 DEF Send, TypeOK, rows, history
<1>7. ASSUME NEW c \in claims, MarkSucceeded(c) PROVE TypeOK'
  <2>1. c.id \in Deliveries
    BY ClaimFacts
  <2>2. log' \in [Deliveries -> Seq(Nat)]
    BY <1>7, <2>1 DEF MarkSucceeded, TypeOK
  <2>3. status' \in [Deliveries -> Status]
    BY <1>7, <2>1 DEF MarkSucceeded, TypeOK, Status
  <2>7. QED
    BY <1>7, <2>2, <2>3 DEF MarkSucceeded, TypeOK
<1>8. ASSUME NEW c \in claims, MarkFailed(c) PROVE TypeOK'
  <2>1. c.id \in Deliveries
    BY ClaimFacts
  <2>2. log' \in [Deliveries -> Seq(Nat)]
    BY <1>8, <2>1 DEF MarkFailed, TypeOK
  <2>3. status' \in [Deliveries -> Status]
    BY <1>8, <2>1 DEF MarkFailed, TypeOK, Status
  <2>4. wait' \in [Deliveries -> Nat]
    BY <1>8, <2>1, JitterType DEF MarkFailed, TypeOK
  <2>5. attempts' \in [Deliveries -> Nat]
    BY <1>8, <2>1 DEF MarkFailed, TypeOK
  <2>6. claims' \in SUBSET Claim
    BY <1>8 DEF MarkFailed, TypeOK
  <2>7. QED
    BY <1>8, <2>2, <2>3, <2>4, <2>5, <2>6 DEF MarkFailed, TypeOK
<1>9. ASSUME NEW c \in claims, MarkDead(c) PROVE TypeOK'
  BY <1>9, ClaimFacts, SMTT(30) DEF MarkDead, TypeOK, Status
<1>10. ASSUME NEW c \in claims, MarkError(c) PROVE TypeOK'
  BY <1>10 DEF MarkError, TypeOK, rows, history
<1>11. ASSUME NEW w \in Workers, Crash(w) PROVE TypeOK'
  BY <1>11 DEF Crash, TypeOK, rows, history
<1>12. CASE Requeue
  BY <1>12 DEF Requeue, TypeOK, Status
<1>13. CASE Tick
  <2>1. wait' \in [Deliveries -> Nat]
    BY <1>13 DEF Tick, TypeOK
  <2>2. age' \in [Workers -> 0..MaxHold]
    <3>1. ASSUME NEW w \in Workers
          PROVE  (IF ClaimsOf(w) # {} THEN age[w] + 1 ELSE age[w]) \in 0..MaxHold
      <4>1. age[w] \in 0..MaxHold /\ (ClaimsOf(w) # {} => age[w] < MaxHold)
        BY <1>13 DEF Tick, TypeOK
      <4>2. QED
        BY <4>1
    <3>2. QED
      BY <1>13, <3>1 DEF Tick
  <2>3. QED
    BY <1>13, <2>1, <2>2 DEF Tick, TypeOK
<1>14. CASE UNCHANGED vars
  BY <1>14 DEF vars, TypeOK
<1>15. QED
  BY <1>1, <1>2, <1>4, <1>5, <1>6, <1>7, <1>8, <1>9, <1>10, <1>11, <1>12,
     <1>13, <1>14 DEF Next, Work

(* Type correctness: no interleaving of producers, workers, sweeper,       *)
(* faults and time takes a row, a log or a claim out of its type.  It      *)
(* bounds the age of every claim by MaxHold.                               *)
THEOREM TypeCorrect == Spec => []TypeOK
<1>1. Init => TypeOK
  BY InitType
<1>2. TypeOK /\ [Next]_vars => TypeOK'
  BY NextType
<1>3. QED
  BY <1>1, <1>2, PTL DEF Spec

-----------------------------------------------------------------------------
(***************************************************************************)
(* The inductive invariant.  The properties of the rows (when a row is     *)
(* dead, how its log is numbered, that a success was acknowledged) hold    *)
(* because a mark meets the row as the worker claimed it, which is         *)
(* FreshClaim; FreshClaim in turn needs ExclusiveClaim, and both need the  *)
(* lease to outlive the claim.                                             *)
(***************************************************************************)

(* A 2xx answer in a worker's hands is one the receiver gave since the     *)
(* last replay.                                                            *)
SentWasAcked ==
  \A c \in claims : (c.id \notin raced /\ c.sent = "ok") => acked[c.id]

(* What the invariant says of one row that no replay has raced.            *)
RowInv(d) ==
  /\ IF status[d] = "dead" THEN attempts[d] = AttemptLimit
                           ELSE attempts[d] < AttemptLimit
  /\ Len(log[d]) = base[d] + attempts[d]
                   + (IF status[d] = "succeeded" THEN 1 ELSE 0)
  /\ \A i \in 1..Len(log[d]) : i > base[d] => log[d][i] = i - base[d]
  /\ status[d] = "succeeded" => acked[d]

ClaimInv == ExclusiveClaim /\ FreshClaim /\ SentWasAcked

RowsInv == \A d \in Deliveries : d \notin raced => RowInv(d)

IInv == TypeOK /\ ClaimInv /\ RowsInv

(* The states of a row that only differ in what happens to it next.        *)
Open == {"absent", "pending", "delivering", "failed"}

(* The limit the library applies is a positive number.                     *)
LEMMA LimitType == AttemptLimit \in Nat /\ AttemptLimit >= 1
BY ConstantsAssumption DEF AttemptLimit

(* A claim that no replay has raced: it is the only one on its row, and    *)
(* the row's lease is still running.                                       *)
LEMMA HeldRow ==
  ASSUME TypeOK, ClaimInv, NEW c \in claims, c.id \notin raced
  PROVE  /\ status[c.id] = "delivering"
         /\ attempts[c.id] = c.attempts
         /\ wait[c.id] > 0
         /\ \A e \in claims : e.id = c.id => e = c
<1>1. age[c.worker] \in 0..MaxHold
  BY ClaimFacts DEF TypeOK
<1>2. LeaseTTL - age[c.worker] > 0
  BY <1>1, ConstantsAssumption, LeaseOutlivesClaim
<1>3. /\ status[c.id] = "delivering"
      /\ attempts[c.id] = c.attempts
      /\ wait[c.id] = LeaseTTL - age[c.worker]
  BY DEF ClaimInv, FreshClaim
<1>4. \A e \in claims : e.id = c.id => e = c
  BY DEF ClaimInv, ExclusiveClaim
<1>5. QED
  BY <1>2, <1>3, <1>4

(* A step that takes no new claim, and leaves alone the rows of the claims *)
(* that stay, keeps the invariant of the claims.                           *)
LEMMA ClaimFrame ==
  ASSUME TypeOK, ClaimInv,
         claims' \subseteq claims, age' = age, raced' = raced, acked' = acked,
         \A e \in claims' : e.id \notin raced =>
           /\ status'[e.id] = status[e.id]
           /\ attempts'[e.id] = attempts[e.id]
           /\ wait'[e.id] = wait[e.id]
  PROVE  ClaimInv'
<1>1. ExclusiveClaim'
  BY DEF ClaimInv, ExclusiveClaim
<1>2. FreshClaim'
  BY DEF ClaimInv, FreshClaim
<1>3. SentWasAcked'
  BY DEF ClaimInv, SentWasAcked
<1>4. QED
  BY <1>1, <1>2, <1>3 DEF ClaimInv

(* A step that moves a row between open states, if at all, and leaves its  *)
(* counters alone keeps the invariant of the row.                          *)
LEMMA RowFrame ==
  ASSUME NEW d \in Deliveries, RowInv(d),
         attempts'[d] = attempts[d], log'[d] = log[d], base'[d] = base[d],
         acked[d] => acked'[d],
         \/ status'[d] = status[d]
         \/ status[d] \in Open /\ status'[d] \in Open
  PROVE  RowInv(d)'
<1>1. (status'[d] = "dead") <=> (status[d] = "dead")
  BY DEF Open
<1>2. (status'[d] = "succeeded") <=> (status[d] = "succeeded")
  BY DEF Open
<1>3. AttemptLimit' = AttemptLimit
  BY DEF AttemptLimit
<1>4. QED
  BY <1>1, <1>2, <1>3 DEF RowInv

(* Logging the attempt in hand continues the numbering of the log.         *)
LEMMA LoggedRow ==
  ASSUME TypeOK, NEW d \in Deliveries, RowInv(d), status[d] = "delivering",
         log' = [log EXCEPT ![d] = Append(log[d], attempts[d] + 1)],
         base' = base
  PROVE  /\ Len(log'[d]) = base'[d] + attempts[d] + 1
         /\ \A i \in 1..Len(log'[d]) : i > base'[d] => log'[d][i] = i - base'[d]
<1>1. /\ log[d] \in Seq(Nat)
      /\ attempts[d] \in Nat
      /\ base[d] \in Nat
      /\ log'[d] = Append(log[d], attempts[d] + 1)
      /\ base'[d] = base[d]
  BY DEF TypeOK
<1>2. /\ Len(log[d]) = base[d] + attempts[d]
      /\ \A i \in 1..Len(log[d]) : i > base[d] => log[d][i] = i - base[d]
  BY <1>1 DEF RowInv
<1>3. Len(log'[d]) = Len(log[d]) + 1
  BY <1>1
<1>4. ASSUME NEW i \in 1..Len(log'[d]), i > base[d]
      PROVE  log'[d][i] = i - base[d]
  <2>1. CASE i <= Len(log[d])
    BY <1>1, <1>2, <1>4, <2>1, SMTT(30)
  <2>2. CASE i = Len(log[d]) + 1
    <3>1. log'[d][i] = attempts[d] + 1
      BY <1>1, <2>2
    <3>2. QED
      BY <1>1, <1>2, <2>2, <3>1
  <2>3. QED
    BY <1>1, <1>3, <2>1, <2>2
<1>5. QED
  BY <1>1, <1>2, <1>3, <1>4

-----------------------------------------------------------------------------
(***************************************************************************)
(* One lemma per group of actions.                                         *)
(***************************************************************************)

(* New rows are not held and have no attempts to account for.              *)
LEMMA EnqueueStep ==
  ASSUME TypeOK, ClaimInv, RowsInv, NEW S \in SUBSET Deliveries, Enqueue(S)
  PROVE  ClaimInv' /\ RowsInv'
<1>1. ClaimInv'
  <2>1. ASSUME NEW e \in claims, e.id \notin raced PROVE e.id \notin S
    BY <2>1, HeldRow DEF Enqueue
  <2>2. \A e \in claims : e.id \notin raced => status'[e.id] = status[e.id]
    BY <2>1, ClaimFacts DEF Enqueue, TypeOK
  <2>3. QED
    BY <2>2, ClaimFrame DEF Enqueue
<1>2. RowsInv'
  <2>1. ASSUME NEW x \in Deliveries, x \notin raced PROVE RowInv(x)'
    <3>1. RowInv(x)
      BY <2>1 DEF RowsInv
    <3>2. \/ status'[x] = status[x]
          \/ status[x] \in Open /\ status'[x] \in Open
      BY DEF Enqueue, TypeOK, Open
    <3>3. QED
      BY <3>1, <3>2, RowFrame DEF Enqueue
  <2>2. QED
    BY <2>1 DEF RowsInv, Enqueue
<1>3. QED
  BY <1>1, <1>2

(* Requeue touches expired leases only, and the lease of a held row runs.  *)
LEMMA RequeueStep ==
  ASSUME TypeOK, ClaimInv, RowsInv, Requeue
  PROVE  ClaimInv' /\ RowsInv'
<1>1. ClaimInv'
  <2>1. ASSUME NEW e \in claims, e.id \notin raced
        PROVE  e.id \in Deliveries /\ e.id \notin Stuck
    BY <2>1, HeldRow, ClaimFacts DEF Stuck
  <2>2. \A e \in claims : e.id \notin raced =>
          status'[e.id] = status[e.id] /\ wait'[e.id] = wait[e.id]
    BY <2>1 DEF Requeue
  <2>3. QED
    BY <2>2, ClaimFrame DEF Requeue
<1>2. RowsInv'
  <2>1. ASSUME NEW x \in Deliveries, x \notin raced PROVE RowInv(x)'
    <3>1. RowInv(x)
      BY <2>1 DEF RowsInv
    <3>2. \/ status'[x] = status[x]
          \/ status[x] \in Open /\ status'[x] \in Open
      BY DEF Requeue, Stuck, Open
    <3>3. QED
      BY <3>1, <3>2, RowFrame DEF Requeue
  <2>2. QED
    BY <2>1 DEF RowsInv, Requeue
<1>3. QED
  BY <1>1, <1>2

(* The UPDATE of ClaimDue: it takes no row that is held, and moves rows    *)
(* between open states.                                                    *)
LEMMA LeaseStep ==
  ASSUME TypeOK, ClaimInv, RowsInv, NEW S \in Batches, LeaseRows(S),
         acked' = acked, raced' = raced, base' = base
  PROVE  /\ \A e \in claims : e.id \notin raced =>
              /\ e.id \in Deliveries \ S
              /\ status'[e.id] = status[e.id]
              /\ wait'[e.id] = wait[e.id]
              /\ attempts'[e.id] = attempts[e.id]
         /\ RowsInv'
<1>1. ASSUME NEW e \in claims, e.id \notin raced PROVE e.id \in Deliveries \ S
  BY <1>1, HeldRow, ClaimFacts, BatchIsDue
<1>2. ASSUME NEW e \in claims, e.id \notin raced
      PROVE  /\ status'[e.id] = status[e.id]
             /\ wait'[e.id] = wait[e.id]
             /\ attempts'[e.id] = attempts[e.id]
  BY <1>1, <1>2 DEF LeaseRows
<1>3. ASSUME NEW x \in Deliveries, x \notin raced PROVE RowInv(x)'
  <2>1. RowInv(x)
    BY <1>3 DEF RowsInv
  <2>2. \/ status'[x] = status[x]
        \/ status[x] \in Open /\ status'[x] \in Open
    BY BatchIsDue DEF LeaseRows, Open
  <2>3. QED
    BY <2>1, <2>2, RowFrame DEF LeaseRows
<1>4. QED
  BY <1>1, <1>2, <1>3 DEF RowsInv

(* The new claims are alone on their rows, hold what the rows say, and     *)
(* start with a full lease.                                                *)
LEMMA ClaimDueStep ==
  ASSUME TypeOK, ClaimInv, RowsInv, NEW w \in Workers, ClaimDue(w)
  PROVE  ClaimInv' /\ RowsInv'
<1> DEFINE New(d) == [worker |-> w, id |-> d, attempts |-> attempts[d], sent |-> "no"]
<1>1. PICK S \in Batches :
        LeaseRows(S) /\ claims' = claims \cup {New(d) : d \in S}
  BY DEF ClaimDue
<1>2. acked' = acked /\ raced' = raced /\ base' = base /\ age' = [age EXCEPT ![w] = 0]
  BY DEF ClaimDue
<1>3. /\ \A e \in claims : e.id \notin raced =>
           /\ e.id \in Deliveries \ S
           /\ status'[e.id] = status[e.id]
           /\ wait'[e.id] = wait[e.id]
           /\ attempts'[e.id] = attempts[e.id]
      /\ RowsInv'
  BY <1>1, <1>2, LeaseStep
<1>4. \A e \in claims : e.worker # w
  BY DEF ClaimDue, ClaimsOf
<1>5. \A d : New(d).id = d /\ New(d).worker = w /\ New(d).sent = "no"
               /\ New(d).attempts = attempts[d]
  OBVIOUS
<1>6. ASSUME NEW d \in S
      PROVE  /\ status'[d] = "delivering"
             /\ attempts'[d] = attempts[d]
             /\ wait'[d] = LeaseTTL
             /\ age'[w] = 0
  BY <1>1, <1>2, BatchIsDue DEF LeaseRows, TypeOK
<1>7. ASSUME NEW e \in claims PROVE age'[e.worker] = age[e.worker]
  BY <1>2, <1>4, ClaimFacts DEF TypeOK
<1> HIDE DEF New
<1>8. ExclusiveClaim'
  <2> SUFFICES ASSUME NEW c1 \in claims', NEW c2 \in claims',
                      c1.id = c2.id, c1.id \notin raced
               PROVE  c1 = c2
    BY <1>2 DEF ExclusiveClaim
  <2>1. CASE c1 \in claims /\ c2 \in claims
    BY <2>1 DEF ClaimInv, ExclusiveClaim
  <2>2. CASE c1 \in claims /\ c2 \notin claims
    BY <1>1, <1>3, <1>5, <2>2
  <2>3. CASE c1 \notin claims /\ c2 \in claims
    BY <1>1, <1>3, <1>5, <2>3
  <2>4. CASE c1 \notin claims /\ c2 \notin claims
    BY <1>1, <1>5, <2>4
  <2>5. QED
    BY <2>1, <2>2, <2>3, <2>4
<1>9. FreshClaim'
  <2> SUFFICES ASSUME NEW c \in claims', c.id \notin raced
               PROVE  /\ status'[c.id] = "delivering"
                      /\ attempts'[c.id] = c.attempts
                      /\ wait'[c.id] = LeaseTTL - age'[c.worker]
    BY <1>2 DEF FreshClaim
  <2>1. CASE c \in claims
    BY <1>3, <1>7, <2>1 DEF ClaimInv, FreshClaim
  <2>2. CASE c \notin claims
    <3>1. PICK d \in S : c = New(d)
      BY <1>1, <2>2
    <3>2. c.id = d /\ c.worker = w /\ c.attempts = attempts[d]
      BY <1>5, <3>1
    <3>3. LeaseTTL = LeaseTTL - 0
      BY ConstantsAssumption
    <3>4. QED
      BY <1>6, <3>2, <3>3
  <2>3. QED
    BY <2>1, <2>2
<1>10. SentWasAcked'
  <2>1. \A c \in claims' : c.sent = "ok" => c \in claims
    BY <1>1, <1>5
  <2>2. QED
    BY <1>2, <2>1 DEF ClaimInv, SentWasAcked
<1>11. QED
  BY <1>3, <1>8, <1>9, <1>10 DEF ClaimInv

(* A claim whose reply is lost leaves nobody holding the rows.             *)
LEMMA ClaimLostStep ==
  ASSUME TypeOK, ClaimInv, RowsInv, ClaimLost
  PROVE  ClaimInv' /\ RowsInv'
<1>1. PICK S \in Batches : LeaseRows(S)
  BY DEF ClaimLost
<1>2. /\ claims' = claims /\ age' = age /\ acked' = acked
      /\ raced' = raced /\ base' = base
  BY DEF ClaimLost
<1>3. /\ \A e \in claims : e.id \notin raced =>
           /\ status'[e.id] = status[e.id]
           /\ wait'[e.id] = wait[e.id]
           /\ attempts'[e.id] = attempts[e.id]
      /\ RowsInv'
  BY <1>1, <1>2, LeaseStep
<1>4. QED
  BY <1>2, <1>3, ClaimFrame

(* A replay either finds nobody holding the row, and starts it afresh, or  *)
(* makes it one of the raced rows, of which nothing more is claimed.       *)
LEMMA ReplayStep ==
  ASSUME TypeOK, ClaimInv, RowsInv, NEW d \in Deliveries, Replay(d)
  PROVE  ClaimInv' /\ RowsInv'
<1>1. ASSUME NEW e \in claims, e.id \notin raced' PROVE e.id # d /\ e.id \notin raced
  <2>1. e.id # d
    <3>1. CASE ClaimsOn(d) = {}
      BY <3>1 DEF ClaimsOn
    <3>2. CASE ClaimsOn(d) # {}
      BY <1>1, <3>2 DEF Replay
    <3>3. QED
      BY <3>1, <3>2
  <2>2. QED
    BY <1>1, <2>1 DEF Replay
<1>2. claims' = claims /\ age' = age
  BY DEF Replay
<1>3. ASSUME NEW e \in claims, e.id \notin raced'
      PROVE  /\ status'[e.id] = status[e.id]
             /\ attempts'[e.id] = attempts[e.id]
             /\ wait'[e.id] = wait[e.id]
             /\ acked'[e.id] = acked[e.id]
  BY <1>1, <1>3, ClaimFacts DEF Replay, TypeOK
<1>4. ExclusiveClaim'
  BY <1>1, <1>2 DEF ClaimInv, ExclusiveClaim
<1>5. FreshClaim'
  BY <1>1, <1>2, <1>3 DEF ClaimInv, FreshClaim
<1>6. SentWasAcked'
  BY <1>1, <1>2, <1>3 DEF ClaimInv, SentWasAcked
<1>7. RowsInv'
  <2> SUFFICES ASSUME NEW x \in Deliveries, x \notin raced' PROVE RowInv(x)'
    BY DEF RowsInv
  <2>1. CASE x = d
    <3>1. /\ status'[d] = "pending"
          /\ attempts'[d] = 0
          /\ log'[d] = log[d]
          /\ base'[d] = Len(log[d])
      BY DEF Replay, TypeOK
    <3>2. log[d] \in Seq(Nat) /\ Len(log[d]) \in Nat
      BY DEF TypeOK
    <3>3. AttemptLimit' = AttemptLimit
      BY DEF AttemptLimit
    <3>4. QED
      BY <2>1, <3>1, <3>2, <3>3, LimitType DEF RowInv
  <2>2. CASE x # d
    <3>1. RowInv(x)
      BY <2>2 DEF RowsInv, Replay
    <3>2. QED
      BY <2>2, <3>1, RowFrame DEF Replay, TypeOK
  <2>3. QED
    BY <2>1, <2>2
<1>8. QED
  BY <1>4, <1>5, <1>6, <1>7 DEF ClaimInv

(* A request changes the claim's outcome and the receiver, nothing else;   *)
(* acknowledgements are only ever added.                                   *)
LEMMA SendStep ==
  ASSUME TypeOK, ClaimInv, RowsInv, NEW c \in claims, Send(c)
  PROVE  ClaimInv' /\ RowsInv'
<1> DEFINE Sent(s) == [c EXCEPT !.sent = s]
<1>1. PICK s \in {"ok", "err"} :
        /\ claims' = (claims \ {c}) \cup {Sent(s)}
        /\ s = "ok" => acked' = [acked EXCEPT ![c.id] = TRUE]
  BY DEF Send
<1>2. /\ Sent(s).id = c.id /\ Sent(s).worker = c.worker
      /\ Sent(s).attempts = c.attempts /\ Sent(s).sent = s
  BY ClaimFacts, SentClaim
<1>3. /\ status' = status /\ attempts' = attempts /\ wait' = wait /\ log' = log
      /\ age' = age /\ raced' = raced /\ base' = base
  BY DEF Send, rows, history
<1>4. \A d \in Deliveries : acked[d] => acked'[d]
  BY ClaimFacts DEF Send, TypeOK
<1>5. s = "ok" => acked'[c.id]
  BY <1>1, ClaimFacts DEF TypeOK
<1> HIDE DEF Sent
<1>6. ExclusiveClaim'
  BY <1>1, <1>2, <1>3 DEF ClaimInv, ExclusiveClaim
<1>7. FreshClaim'
  BY <1>1, <1>2, <1>3 DEF ClaimInv, FreshClaim
<1>8. SentWasAcked'
  <2> SUFFICES ASSUME NEW e \in claims', e.id \notin raced, e.sent = "ok"
               PROVE  acked'[e.id]
    BY <1>3 DEF SentWasAcked
  <2>1. CASE e = Sent(s)
    BY <1>2, <1>5, <2>1
  <2>2. CASE e \in claims
    BY <1>4, <2>2, ClaimFacts DEF ClaimInv, SentWasAcked
  <2>3. QED
    BY <1>1, <2>1, <2>2
<1>9. RowsInv'
  <2> SUFFICES ASSUME NEW x \in Deliveries, x \notin raced PROVE RowInv(x)'
    BY <1>3 DEF RowsInv
  <2>1. RowInv(x)
    BY DEF RowsInv
  <2>2. QED
    BY <1>3, <1>4, <2>1, RowFrame
<1>10. QED
  BY <1>6, <1>7, <1>8, <1>9 DEF ClaimInv

(* A success is logged as the attempt in hand and left uncounted.           *)
LEMMA MarkSucceededStep ==
  ASSUME TypeOK, ClaimInv, RowsInv, NEW c \in claims, MarkSucceeded(c)
  PROVE  ClaimInv' /\ RowsInv'
<1>1. c.id \in Deliveries /\ c.attempts \in Nat
  BY ClaimFacts
<1>2. /\ claims' = claims \ {c} /\ age' = age /\ raced' = raced
      /\ acked' = acked /\ base' = base
  BY DEF MarkSucceeded
<1>3. ASSUME NEW x \in Deliveries, x # c.id
      PROVE  /\ status'[x] = status[x]
             /\ attempts'[x] = attempts[x]
             /\ wait'[x] = wait[x]
             /\ log'[x] = log[x]
  BY <1>1, <1>3 DEF MarkSucceeded, TypeOK
<1>4. ClaimInv'
  <2>1. ASSUME NEW e \in claims', e.id \notin raced
        PROVE  e.id \in Deliveries /\ e.id # c.id
    BY <1>2, <2>1, HeldRow, ClaimFacts
  <2>2. QED
    BY <1>2, <1>3, <2>1, ClaimFrame
<1>5. RowsInv'
  <2> SUFFICES ASSUME NEW x \in Deliveries, x \notin raced PROVE RowInv(x)'
    BY <1>2 DEF RowsInv
  <2>1. RowInv(x)
    BY DEF RowsInv
  <2>2. CASE x # c.id
    BY <1>2, <1>3, <2>1, <2>2, RowFrame
  <2>3. CASE x = c.id
    <3>1. status[x] = "delivering" /\ attempts[x] = c.attempts
      BY <2>3, HeldRow
    <3>2. /\ Len(log'[x]) = base'[x] + attempts[x] + 1
          /\ \A i \in 1..Len(log'[x]) : i > base'[x] => log'[x][i] = i - base'[x]
      BY <1>2, <2>1, <2>3, <3>1, LoggedRow DEF MarkSucceeded
    <3>3. attempts[x] \in Nat /\ attempts[x] < AttemptLimit
      BY <2>1, <3>1 DEF RowInv, TypeOK
    <3>4. AttemptLimit' = AttemptLimit
      BY DEF AttemptLimit
    <3>5. c.sent = "ok" /\ status'[x] = "succeeded" /\ attempts'[x] = attempts[x]
      BY <1>1, <2>3 DEF MarkSucceeded, TypeOK
    <3>6. acked'[x]
      BY <1>2, <2>3, <3>5 DEF ClaimInv, SentWasAcked
    <3>7. QED
      BY <3>2, <3>3, <3>4, <3>5, <3>6 DEF RowInv
  <2>4. QED
    BY <2>2, <2>3
<1>6. QED
  BY <1>4, <1>5

(* A failure below the limit stays below the limit when it is counted.     *)
LEMMA MarkFailedStep ==
  ASSUME TypeOK, ClaimInv, RowsInv, NEW c \in claims, MarkFailed(c)
  PROVE  ClaimInv' /\ RowsInv'
<1>1. c.id \in Deliveries /\ c.attempts \in Nat
  BY ClaimFacts
<1>2. /\ claims' = claims \ {c} /\ age' = age /\ raced' = raced
      /\ acked' = acked /\ base' = base
  BY DEF MarkFailed
<1>3. ASSUME NEW x \in Deliveries, x # c.id
      PROVE  /\ status'[x] = status[x]
             /\ attempts'[x] = attempts[x]
             /\ wait'[x] = wait[x]
             /\ log'[x] = log[x]
  BY <1>1, <1>3 DEF MarkFailed, TypeOK
<1>4. ClaimInv'
  <2>1. ASSUME NEW e \in claims', e.id \notin raced
        PROVE  e.id \in Deliveries /\ e.id # c.id
    BY <1>2, <2>1, HeldRow, ClaimFacts
  <2>2. QED
    BY <1>2, <1>3, <2>1, ClaimFrame
<1>5. RowsInv'
  <2> SUFFICES ASSUME NEW x \in Deliveries, x \notin raced PROVE RowInv(x)'
    BY <1>2 DEF RowsInv
  <2>1. RowInv(x)
    BY DEF RowsInv
  <2>2. CASE x # c.id
    BY <1>2, <1>3, <2>1, <2>2, RowFrame
  <2>3. CASE x = c.id
    <3>1. status[x] = "delivering" /\ attempts[x] = c.attempts
      BY <2>3, HeldRow
    <3>2. /\ Len(log'[x]) = base'[x] + attempts[x] + 1
          /\ \A i \in 1..Len(log'[x]) : i > base'[x] => log'[x][i] = i - base'[x]
      BY <1>2, <2>1, <2>3, <3>1, LoggedRow DEF MarkFailed
    <3>3. attempts[x] \in Nat /\ attempts[x] < AttemptLimit
      BY <2>1, <3>1 DEF RowInv, TypeOK
    <3>4. AttemptLimit' = AttemptLimit
      BY DEF AttemptLimit
    <3>5. /\ c.attempts + 1 < MaxAttempts
          /\ status'[x] = "failed"
          /\ attempts'[x] = attempts[x] + 1
      BY <1>1, <2>3, ConstantsAssumption DEF MarkFailed, Exhausted, TypeOK
    <3>6. attempts'[x] < AttemptLimit
      BY <3>1, <3>3, <3>5, ConstantsAssumption DEF AttemptLimit
    <3>7. Len(log'[x]) = base'[x] + attempts'[x]
      BY <1>2, <3>2, <3>3, <3>5 DEF TypeOK
    <3>8. base'[x] \in Nat
      BY <1>2 DEF TypeOK
    <3>9. QED
      BY <3>2, <3>4, <3>5, <3>6, <3>7, <3>8 DEF RowInv
  <2>4. QED
    BY <2>2, <2>3
<1>6. QED
  BY <1>4, <1>5

(* The failure that exhausts the limit is counted up to exactly the limit. *)
LEMMA MarkDeadStep ==
  ASSUME TypeOK, ClaimInv, RowsInv, NEW c \in claims, MarkDead(c)
  PROVE  ClaimInv' /\ RowsInv'
<1>1. c.id \in Deliveries /\ c.attempts \in Nat
  BY ClaimFacts
<1>2. /\ claims' = claims \ {c} /\ age' = age /\ raced' = raced
      /\ acked' = acked /\ base' = base
  BY DEF MarkDead
<1>3. ASSUME NEW x \in Deliveries, x # c.id
      PROVE  /\ status'[x] = status[x]
             /\ attempts'[x] = attempts[x]
             /\ wait'[x] = wait[x]
             /\ log'[x] = log[x]
  BY <1>1, <1>3 DEF MarkDead, TypeOK
<1>4. ClaimInv'
  <2>1. ASSUME NEW e \in claims', e.id \notin raced
        PROVE  e.id \in Deliveries /\ e.id # c.id
    BY <1>2, <2>1, HeldRow, ClaimFacts
  <2>2. QED
    BY <1>2, <1>3, <2>1, ClaimFrame
<1>5. RowsInv'
  <2> SUFFICES ASSUME NEW x \in Deliveries, x \notin raced PROVE RowInv(x)'
    BY <1>2 DEF RowsInv
  <2>1. RowInv(x)
    BY DEF RowsInv
  <2>2. CASE x # c.id
    BY <1>2, <1>3, <2>1, <2>2, RowFrame
  <2>3. CASE x = c.id
    <3>1. status[x] = "delivering" /\ attempts[x] = c.attempts
      BY <2>3, HeldRow
    <3>2. /\ Len(log'[x]) = base'[x] + attempts[x] + 1
          /\ \A i \in 1..Len(log'[x]) : i > base'[x] => log'[x][i] = i - base'[x]
      BY <1>2, <2>1, <2>3, <3>1, LoggedRow DEF MarkDead
    <3>3. attempts[x] \in Nat /\ attempts[x] < AttemptLimit
      BY <2>1, <3>1 DEF RowInv, TypeOK
    <3>4. AttemptLimit' = AttemptLimit
      BY DEF AttemptLimit
    <3>5. /\ c.attempts + 1 >= MaxAttempts
          /\ status'[x] = "dead"
          /\ attempts'[x] = attempts[x] + 1
      BY <1>1, <2>3 DEF MarkDead, Exhausted, TypeOK
    <3>6. attempts'[x] = AttemptLimit
      BY <3>1, <3>3, <3>5, ConstantsAssumption DEF AttemptLimit
    <3>7. Len(log'[x]) = base'[x] + attempts'[x]
      BY <1>2, <3>2, <3>3, <3>5 DEF TypeOK
    <3>8. base'[x] \in Nat
      BY <1>2 DEF TypeOK
    <3>9. QED
      BY <3>2, <3>4, <3>5, <3>6, <3>7, <3>8 DEF RowInv
  <2>4. QED
    BY <2>2, <2>3
<1>6. QED
  BY <1>4, <1>5

(* A dropped claim, by a failed mark or a crash, leaves the rows alone.    *)
LEMMA DropStep ==
  ASSUME TypeOK, ClaimInv, RowsInv, claims' \subseteq claims,
         UNCHANGED << rows, age, acked, history >>
  PROVE  ClaimInv' /\ RowsInv'
<1>1. ClaimInv'
  BY ClaimFrame DEF rows, history
<1>2. RowsInv'
  <2>1. ASSUME NEW x \in Deliveries, x \notin raced PROVE RowInv(x)'
    <3>1. RowInv(x)
      BY <2>1 DEF RowsInv
    <3>2. QED
      BY <3>1, RowFrame DEF rows, history
  <2>2. QED
    BY <2>1 DEF RowsInv, history
<1>3. QED
  BY <1>1, <1>2

(* Time shortens a lease exactly as much as it ages the claim.             *)
LEMMA TickStep ==
  ASSUME TypeOK, ClaimInv, RowsInv, Tick
  PROVE  ClaimInv' /\ RowsInv'
<1>1. /\ status' = status /\ attempts' = attempts /\ log' = log
      /\ claims' = claims /\ acked' = acked /\ raced' = raced /\ base' = base
  BY DEF Tick
<1>2. ASSUME NEW c \in claims, c.id \notin raced
      PROVE  wait'[c.id] = LeaseTTL - age'[c.worker]
  <2>1. c.worker \in Workers /\ c.id \in Deliveries
    BY ClaimFacts
  <2>2. ClaimsOf(c.worker) # {}
    BY DEF ClaimsOf
  <2>3. age'[c.worker] = age[c.worker] + 1
    BY <2>1, <2>2 DEF Tick
  <2>4. wait[c.id] > 0 /\ wait[c.id] = LeaseTTL - age[c.worker]
    BY <1>2, HeldRow DEF ClaimInv, FreshClaim
  <2>5. wait'[c.id] = wait[c.id] - 1
    BY <2>1, <2>4 DEF Tick
  <2>6. age[c.worker] \in Nat
    BY <2>1, ConstantsAssumption DEF TypeOK
  <2>7. QED
    BY <2>3, <2>4, <2>5, <2>6, ConstantsAssumption
<1>3. ExclusiveClaim'
  BY <1>1 DEF ClaimInv, ExclusiveClaim
<1>4. FreshClaim'
  BY <1>1, <1>2 DEF ClaimInv, FreshClaim
<1>5. SentWasAcked'
  BY <1>1 DEF ClaimInv, SentWasAcked
<1>6. RowsInv'
  <2>1. ASSUME NEW x \in Deliveries, x \notin raced PROVE RowInv(x)'
    <3>1. RowInv(x)
      BY <2>1 DEF RowsInv
    <3>2. QED
      BY <1>1, <3>1, RowFrame
  <2>2. QED
    BY <1>1, <2>1 DEF RowsInv
<1>7. QED
  BY <1>3, <1>4, <1>5, <1>6 DEF ClaimInv

-----------------------------------------------------------------------------
(***************************************************************************)
(* The theorems.                                                           *)
(***************************************************************************)

(* The initial state: no rows to speak of and no claims.                   *)
LEMMA InitInv == Init => IInv
<1> SUFFICES ASSUME Init PROVE IInv
  OBVIOUS
<1>1. TypeOK
  BY InitType
<1>2. ClaimInv
  BY DEF Init, ClaimInv, ExclusiveClaim, FreshClaim, SentWasAcked
<1>3. ASSUME NEW d \in Deliveries PROVE RowInv(d)
  <2>1. status[d] = "absent" /\ attempts[d] = 0 /\ log[d] = <<>> /\ base[d] = 0
    BY DEF Init
  <2>2. Len(log[d]) = 0
    BY <2>1
  <2>3. QED
    BY <2>1, <2>2, LimitType DEF RowInv
<1>4. QED
  BY <1>1, <1>2, <1>3 DEF IInv, RowsInv

(* The invariant is inductive: one step per action.                        *)
LEMMA NextInv == IInv /\ [Next]_vars => IInv'
<1> SUFFICES ASSUME IInv, [Next]_vars PROVE IInv'
  OBVIOUS
<1> USE DEF IInv
<1>0. TypeOK'
  BY NextType
<1>1. ASSUME NEW S \in SUBSET Deliveries, Enqueue(S) PROVE IInv'
  BY <1>0, <1>1, EnqueueStep
<1>2. ASSUME NEW d \in Deliveries, Replay(d) PROVE IInv'
  BY <1>0, <1>2, ReplayStep
<1>3. ASSUME NEW w \in Workers, ClaimDue(w) PROVE IInv'
  BY <1>0, <1>3, ClaimDueStep
<1>4. CASE ClaimLost
  BY <1>0, <1>4, ClaimLostStep
<1>5. ASSUME NEW c \in claims, Send(c) PROVE IInv'
  BY <1>0, <1>5, SendStep
<1>6. ASSUME NEW c \in claims, MarkSucceeded(c) PROVE IInv'
  BY <1>0, <1>6, MarkSucceededStep
<1>7. ASSUME NEW c \in claims, MarkFailed(c) PROVE IInv'
  BY <1>0, <1>7, MarkFailedStep
<1>8. ASSUME NEW c \in claims, MarkDead(c) PROVE IInv'
  BY <1>0, <1>8, MarkDeadStep
<1>9. ASSUME NEW c \in claims, MarkError(c) PROVE IInv'
  <2>1. claims' \subseteq claims /\ UNCHANGED << rows, age, acked, history >>
    BY <1>9 DEF MarkError
  <2>2. QED
    BY <1>0, <2>1, DropStep
<1>10. ASSUME NEW w \in Workers, Crash(w) PROVE IInv'
  <2>1. claims' \subseteq claims /\ UNCHANGED << rows, age, acked, history >>
    BY <1>10 DEF Crash
  <2>2. QED
    BY <1>0, <2>1, DropStep
<1>11. CASE Requeue
  BY <1>0, <1>11, RequeueStep
<1>12. CASE Tick
  BY <1>0, <1>12, TickStep
<1>13. CASE UNCHANGED vars
  <2>1. claims' \subseteq claims /\ UNCHANGED << rows, age, acked, history >>
    BY <1>13 DEF vars, rows, history
  <2>2. QED
    BY <1>0, <2>1, DropStep
<1>14. QED
  BY <1>1, <1>2, <1>3, <1>4, <1>5, <1>6, <1>7, <1>8, <1>9, <1>10, <1>11,
     <1>12, <1>13 DEF Next, Work

(* The inductive invariant holds in every reachable state.                 *)
THEOREM OutboxInvariant == Spec => []IInv
<1>1. Init => IInv
  BY InitInv
<1>2. IInv /\ [Next]_vars => IInv'
  BY NextInv
<1>3. QED
  BY <1>1, <1>2, PTL DEF Spec

(* Exclusion: because the lease outlives the claim, Requeue never gives a  *)
(* live worker's row to another; only a replay of a row in flight does.    *)
THEOREM ClaimsExclusive == Spec => []ExclusiveClaim
<1>1. IInv => ExclusiveClaim
  BY DEF IInv, ClaimInv
<1>2. QED
  BY <1>1, OutboxInvariant, PTL

(* The row a worker marks is the row it claimed: still delivering, lease   *)
(* running, attempts as read.                                              *)
THEOREM ClaimsFresh == Spec => []FreshClaim
<1>1. IInv => FreshClaim
  BY DEF IInv, ClaimInv
<1>2. QED
  BY <1>1, OutboxInvariant, PTL

(* Dead-lettering happens at exactly the configured number of failures,    *)
(* for any number of workers, crashes and lost marks.                      *)
THEOREM DeadLetterExact == Spec => []DeadLetterAtLimit
<1>1. IInv => DeadLetterAtLimit
  BY DEF IInv, RowsInv, RowInv, DeadLetterAtLimit
<1>2. QED
  BY <1>1, OutboxInvariant, PTL

(* The delivery log numbers the attempts since the last replay 1, 2, 3 ... *)
THEOREM LogNumbered == Spec => []LogNumbersAttempts
<1>1. IInv => LogNumbersAttempts
  BY DEF IInv, RowsInv, RowInv, LogNumbersAttempts
<1>2. QED
  BY <1>1, OutboxInvariant, PTL

(* A delivery recorded as succeeded was accepted since its last replay.    *)
THEOREM SuccessAcked == Spec => []SucceededWasAcked
<1>1. IInv => SucceededWasAcked
  BY DEF IInv, RowsInv, RowInv, SucceededWasAcked
<1>2. QED
  BY <1>1, OutboxInvariant, PTL

(* A succeeded or dead row is left alone by every action but a replay.     *)
LEMMA TerminalStep ==
  ASSUME IInv, [Next]_vars, NEW d \in Deliveries, d \notin raced,
         status[d] \in {"succeeded", "dead"}, status'[d] # status[d]
  PROVE  replays' = replays + 1
<1> USE DEF IInv
<1>1. ASSUME NEW S \in SUBSET Deliveries, Enqueue(S) PROVE FALSE
  BY <1>1 DEF Enqueue, TypeOK
<1>2. ASSUME NEW e \in Deliveries, Replay(e) PROVE replays' = replays + 1
  BY <1>2 DEF Replay
<1>3. ASSUME NEW S \in Batches, LeaseRows(S) PROVE FALSE
  BY <1>3, BatchIsDue DEF LeaseRows
<1>4. ASSUME NEW w \in Workers, ClaimDue(w) PROVE FALSE
  BY <1>3, <1>4 DEF ClaimDue
<1>5. CASE ClaimLost
  BY <1>3, <1>5 DEF ClaimLost
<1>6. ASSUME NEW c \in claims PROVE c.id \in Deliveries /\ c.id # d
  BY HeldRow, ClaimFacts
<1>7. ASSUME NEW c \in claims, Work(c) \/ MarkError(c) PROVE FALSE
  <2>1. CASE Send(c) \/ MarkError(c)
    BY <2>1 DEF Send, MarkError, rows
  <2>2. CASE MarkSucceeded(c)
    BY <1>6, <2>2 DEF MarkSucceeded, TypeOK
  <2>3. CASE MarkFailed(c)
    BY <1>6, <2>3 DEF MarkFailed, TypeOK
  <2>4. CASE MarkDead(c)
    BY <1>6, <2>4 DEF MarkDead, TypeOK
  <2>5. QED
    BY <1>7, <2>1, <2>2, <2>3, <2>4 DEF Work
<1>8. ASSUME NEW w \in Workers, Crash(w) PROVE FALSE
  BY <1>8 DEF Crash, rows
<1>9. CASE Requeue
  BY <1>9 DEF Requeue, Stuck
<1>10. CASE Tick
  BY <1>10 DEF Tick
<1>11. CASE UNCHANGED vars
  BY <1>11 DEF vars
<1>12. QED
  BY <1>1, <1>2, <1>4, <1>5, <1>7, <1>8, <1>9, <1>10, <1>11 DEF Next

(* Terminal states are final: no late mark, no requeue and no claim takes  *)
(* a row out of 'succeeded' or 'dead'.                                     *)
THEOREM TerminalFinal == Spec => TerminalIsFinal
<1>1. IInv /\ [Next]_vars =>
        [\A d \in Deliveries :
           (d \notin raced /\ status[d] \in {"succeeded", "dead"}
              /\ status'[d] # status[d]) => replays' = replays + 1]_vars
  BY TerminalStep
<1>2. QED
  BY <1>1, OutboxInvariant, PTL DEF Spec, TerminalIsFinal

-----------------------------------------------------------------------------
(***************************************************************************)
(* The outbox implements the abstract queue of DeliveryQueue: every step   *)
(* of a worker, the sweeper, the clock or a fault is a step of the queue   *)
(* or does not show in it.                                                 *)
(***************************************************************************)

(* The value of QueueState, status by status.                              *)
LEMMA QueueStateValue ==
  ASSUME TypeOK, NEW d \in Deliveries
  PROVE  /\ status[d] = "absent" <=> QueueState(d) = "absent"
         /\ status[d] = "succeeded" <=> QueueState(d) = "done"
         /\ status[d] = "dead" <=> QueueState(d) = "dead"
         /\ status[d] \in {"pending", "delivering", "failed"} <=> QueueState(d) = "queued"
BY DEF TypeOK, Status, QueueState

(* The same after a step.                                                  *)
LEMMA QueueStateNext ==
  ASSUME TypeOK', NEW d \in Deliveries
  PROVE  /\ status'[d] = "absent" <=> QueueState(d)' = "absent"
         /\ status'[d] = "succeeded" <=> QueueState(d)' = "done"
         /\ status'[d] = "dead" <=> QueueState(d)' = "dead"
         /\ status'[d] \in {"pending", "delivering", "failed"} <=> QueueState(d)' = "queued"
BY DEF TypeOK, Status, QueueState

(* A status a step does not change does not change the state in the queue. *)
LEMMA QueueStateKept ==
  ASSUME NEW d \in Deliveries, status'[d] = status[d]
  PROVE  QueueState(d)' = QueueState(d)
BY DEF QueueState

(* A step that moves rows between the statuses of a queued delivery, if at *)
(* all, and accepts and counts nothing does not show.                      *)
LEMMA Stutter ==
  ASSUME TypeOK, TypeOK',
         attempts' = attempts, acked' = acked, raced' = raced,
         \A d \in Deliveries :
           \/ status'[d] = status[d]
           \/ /\ status[d] \in {"pending", "delivering", "failed"}
              /\ status'[d] \in {"pending", "delivering", "failed"}
  PROVE  UNCHANGED Queue!queueVars
<1>1. \A d \in Deliveries : QueueState(d)' = QueueState(d)
  BY QueueStateValue, QueueStateNext, QueueStateKept
<1>2. QED
  BY <1>1 DEF Queue!queueVars

(* New rows are put into the queue.                                        *)
LEMMA EnqueuePuts ==
  ASSUME TypeOK, TypeOK', NEW S \in SUBSET Deliveries, Enqueue(S)
  PROVE  Queue!Put(S)
<1>1. \A d \in S : QueueState(d) = "absent" /\ QueueState(d)' = "queued"
  BY QueueStateValue, QueueStateNext DEF Enqueue
<1>2. \A d \in Deliveries \ S : QueueState(d)' = QueueState(d)
  BY QueueStateKept DEF Enqueue
<1>3. QED
  BY <1>1, <1>2 DEF Enqueue, Queue!Put

(* A replay is a replay; whether the row comes loose depends on the claims.*)
LEMMA ReplayReplays ==
  ASSUME TypeOK, TypeOK', NEW d \in Deliveries, Replay(d)
  PROVE  Queue!Replay(d)
<1>1. QueueState(d) # "absent" /\ QueueState(d)' = "queued"
  BY QueueStateValue, QueueStateNext DEF Replay, TypeOK
<1>2. \A e \in Deliveries \ {d} : /\ QueueState(e)' = QueueState(e)
                                  /\ attempts'[e] = attempts[e]
                                  /\ acked'[e] = acked[e]
                                  /\ e \in raced' <=> e \in raced
  BY QueueStateKept DEF Replay, TypeOK
<1>3. attempts'[d] = 0 /\ ~acked'[d]
  BY DEF Replay, TypeOK
<1>4. raced' \in {raced \cup {d}, raced \ {d}}
  BY DEF Replay
<1>5. QED
  BY <1>1, <1>2, <1>3, <1>4 DEF Queue!Replay

(* The request of a worker: the receiver accepts the delivery, or nothing  *)
(* shows.  An answer to a loose delivery never shows.                      *)
LEMMA SendAccepts ==
  ASSUME IInv, TypeOK', NEW c \in claims, Send(c)
  PROVE  Queue!Accept(c.id) \/ UNCHANGED Queue!queueVars
<1> USE DEF IInv
<1>1. /\ c.id \in Deliveries
      /\ status' = status /\ attempts' = attempts /\ raced' = raced
      /\ acked' = acked \/ acked' = [acked EXCEPT ![c.id] = TRUE]
  BY ClaimFacts DEF Send, rows, history
<1>2. \A d \in Deliveries : QueueState(d)' = QueueState(d)
  BY <1>1, QueueStateKept
<1>3. CASE acked' = acked \/ c.id \in raced
  <2>1. {d \in Deliveries : acked'[d] /\ d \notin raced'}
          = {d \in Deliveries : acked[d] /\ d \notin raced}
    BY <1>1, <1>3 DEF TypeOK
  <2>2. QED
    BY <1>1, <1>2, <2>1 DEF Queue!queueVars
<1>4. CASE acked' = [acked EXCEPT ![c.id] = TRUE] /\ c.id \notin raced
  <2>1. QueueState(c.id) = "queued"
    BY <1>1, <1>4, HeldRow, QueueStateValue
  <2>2. {d \in Deliveries : acked'[d] /\ d \notin raced'}
          = {d \in Deliveries : acked[d] /\ d \notin raced} \cup {c.id}
    BY <1>1, <1>4, SMTT(30) DEF TypeOK
  <2>3. QED
    BY <1>1, <1>2, <1>4, <2>1, <2>2 DEF Queue!Accept
<1>5. QED
  BY <1>1, <1>3, <1>4

(* What the three marks have in common: they decide the claimed row only.  *)
LEMMA MarkOne ==
  ASSUME TypeOK, NEW c \in claims,
         MarkSucceeded(c) \/ MarkFailed(c) \/ MarkDead(c)
  PROVE  /\ c.id \in Deliveries
         /\ acked' = acked /\ raced' = raced
         /\ \A d \in Deliveries \ {c.id} : /\ QueueState(d)' = QueueState(d)
                                           /\ attempts'[d] = attempts[d]
<1>1. c.id \in Deliveries
  BY ClaimFacts
<1>2. acked' = acked /\ raced' = raced
  BY DEF MarkSucceeded, MarkFailed, MarkDead
<1>3. \A d \in Deliveries \ {c.id} : status'[d] = status[d] /\ attempts'[d] = attempts[d]
  BY <1>1 DEF MarkSucceeded, MarkFailed, MarkDead, TypeOK
<1>4. QED
  BY <1>1, <1>2, <1>3, QueueStateKept

(* A mark on a loose row decides it, one way or another.                   *)
LEMMA MarkLoose ==
  ASSUME TypeOK, TypeOK', NEW c \in claims, c.id \in raced,
         MarkSucceeded(c) \/ MarkFailed(c) \/ MarkDead(c)
  PROVE  Queue!LooseMark(c.id)
<1>1. status'[c.id] \in {"succeeded", "failed", "dead"}
  BY MarkOne DEF MarkSucceeded, MarkFailed, MarkDead, TypeOK
<1>2. QueueState(c.id)' \in {"queued", "done", "dead"}
  BY <1>1, MarkOne, QueueStateNext
<1>3. \A d \in Deliveries \ {c.id} :
        QueueState(d)' = QueueState(d) /\ attempts'[d] = attempts[d]
  BY MarkOne
<1>4. QED
  BY <1>2, <1>3, MarkOne DEF Queue!LooseMark

(* A success of a row that is not loose finishes an accepted delivery.     *)
LEMMA MarkSucceededFinishes ==
  ASSUME IInv, TypeOK', NEW c \in claims, c.id \notin raced, MarkSucceeded(c)
  PROVE  Queue!Finish(c.id)
<1> USE DEF IInv
<1>1. /\ c.id \in Deliveries /\ acked' = acked /\ raced' = raced
      /\ \A d \in Deliveries \ {c.id} : QueueState(d)' = QueueState(d)
  BY MarkOne
<1>2. attempts' = attempts /\ status'[c.id] = "succeeded"
  BY <1>1 DEF MarkSucceeded, TypeOK
<1>3. QueueState(c.id) = "queued" /\ QueueState(c.id)' = "done"
  BY <1>1, <1>2, HeldRow, QueueStateValue, QueueStateNext
<1>4. acked[c.id]
  BY DEF MarkSucceeded, ClaimInv, SentWasAcked
<1>5. QED
  BY <1>1, <1>2, <1>3, <1>4 DEF Queue!Finish

(* The attempts the library compares with the limit, read at claim time,   *)
(* are the failures the queue has counted.                                 *)
LEMMA LastTryAgrees ==
  ASSUME IInv, NEW c \in claims, c.id \notin raced
  PROVE  Exhausted(c) <=> Queue!LastTry(c.id)
<1>1. attempts[c.id] = c.attempts /\ c.id \in Deliveries
  BY HeldRow, ClaimFacts DEF IInv
<1>2. QED
  BY <1>1 DEF Exhausted, Queue!LastTry

(* A failure below the limit is counted, and the delivery stays queued.    *)
LEMMA MarkFailedFails ==
  ASSUME IInv, TypeOK', NEW c \in claims, c.id \notin raced, MarkFailed(c)
  PROVE  Queue!Fail(c.id)
<1> USE DEF IInv
<1>1. /\ c.id \in Deliveries /\ acked' = acked /\ raced' = raced
      /\ \A d \in Deliveries \ {c.id} : /\ QueueState(d)' = QueueState(d)
                                        /\ attempts'[d] = attempts[d]
  BY MarkOne
<1>2. attempts'[c.id] = attempts[c.id] + 1 /\ status'[c.id] = "failed"
  BY <1>1 DEF MarkFailed, TypeOK
<1>3. QueueState(c.id) = "queued" /\ QueueState(c.id)' = "queued"
  BY <1>1, <1>2, HeldRow, QueueStateValue, QueueStateNext
<1>4. ~Queue!LastTry(c.id)
  BY LastTryAgrees DEF MarkFailed
<1>5. QED
  BY <1>1, <1>2, <1>3, <1>4 DEF Queue!Fail

(* The failure that reaches the limit makes the queue give up.             *)
LEMMA MarkDeadGivesUp ==
  ASSUME IInv, TypeOK', NEW c \in claims, c.id \notin raced, MarkDead(c)
  PROVE  Queue!GiveUp(c.id)
<1> USE DEF IInv
<1>1. /\ c.id \in Deliveries /\ acked' = acked /\ raced' = raced
      /\ \A d \in Deliveries \ {c.id} : /\ QueueState(d)' = QueueState(d)
                                        /\ attempts'[d] = attempts[d]
  BY MarkOne
<1>2. attempts'[c.id] = attempts[c.id] + 1 /\ status'[c.id] = "dead"
  BY <1>1 DEF MarkDead, TypeOK
<1>3. QueueState(c.id) = "queued" /\ QueueState(c.id)' = "dead"
  BY <1>1, <1>2, HeldRow, QueueStateValue, QueueStateNext
<1>4. Queue!LastTry(c.id)
  BY LastTryAgrees DEF MarkDead
<1>5. QED
  BY <1>1, <1>2, <1>3, <1>4 DEF Queue!GiveUp

-----------------------------------------------------------------------------
(* The initial states agree: nothing is queued, accepted or counted.       *)
LEMMA InitMaps == Init => Queue!Init
<1> SUFFICES ASSUME Init PROVE Queue!Init
  OBVIOUS
<1>1. \A d \in Deliveries : QueueState(d) = "absent"
  BY DEF Init, QueueState
<1>2. QED
  BY <1>1 DEF Init, Queue!Init

(* Every step of the outbox is a step of the queue or does not show.       *)
LEMMA NextMaps == IInv /\ [Next]_vars => [Queue!Next]_(Queue!queueVars)
<1> SUFFICES ASSUME IInv, [Next]_vars PROVE [Queue!Next]_(Queue!queueVars)
  OBVIOUS
<1>0. TypeOK /\ TypeOK'
  BY NextInv DEF IInv
<1>1. ASSUME NEW S \in SUBSET Deliveries, Enqueue(S) PROVE Queue!Next
  BY <1>0, <1>1, EnqueuePuts DEF Queue!Next
<1>2. ASSUME NEW d \in Deliveries, Replay(d) PROVE Queue!Next
  BY <1>0, <1>2, ReplayReplays DEF Queue!Next
<1>3. ASSUME NEW S \in Batches, LeaseRows(S)
      PROVE  /\ attempts' = attempts
             /\ \A d \in Deliveries :
                  \/ status'[d] = status[d]
                  \/ /\ status[d] \in {"pending", "delivering", "failed"}
                     /\ status'[d] \in {"pending", "delivering", "failed"}
  BY <1>3, BatchIsDue DEF LeaseRows
<1>4. ASSUME NEW w \in Workers, ClaimDue(w) PROVE UNCHANGED Queue!queueVars
  <2>1. PICK S \in Batches : LeaseRows(S)
    BY <1>4 DEF ClaimDue
  <2>2. acked' = acked /\ raced' = raced
    BY <1>4 DEF ClaimDue
  <2>3. QED
    BY <1>0, <1>3, <2>1, <2>2, Stutter
<1>5. CASE ClaimLost
  <2>1. PICK S \in Batches : LeaseRows(S)
    BY <1>5 DEF ClaimLost
  <2>2. acked' = acked /\ raced' = raced
    BY <1>5 DEF ClaimLost
  <2>3. UNCHANGED Queue!queueVars
    BY <1>0, <1>3, <2>1, <2>2, Stutter
  <2>4. QED
    BY <2>3
<1>6. ASSUME NEW c \in claims, Work(c) PROVE [Queue!Next]_(Queue!queueVars)
  <2>0. c.id \in Deliveries
    BY <1>0, ClaimFacts
  <2>1. CASE Send(c)
    BY <1>0, <2>0, <2>1, SendAccepts DEF Queue!Next
  <2>2. CASE (MarkSucceeded(c) \/ MarkFailed(c) \/ MarkDead(c)) /\ c.id \in raced
    BY <1>0, <2>0, <2>2, MarkLoose DEF Queue!Next, Queue!Try
  <2>3. CASE MarkSucceeded(c) /\ c.id \notin raced
    BY <1>0, <2>0, <2>3, MarkSucceededFinishes DEF Queue!Next, Queue!Try
  <2>4. CASE MarkFailed(c) /\ c.id \notin raced
    BY <1>0, <2>0, <2>4, MarkFailedFails DEF Queue!Next, Queue!Try
  <2>5. CASE MarkDead(c) /\ c.id \notin raced
    BY <1>0, <2>0, <2>5, MarkDeadGivesUp DEF Queue!Next, Queue!Try
  <2>6. QED
    BY <1>6, <2>1, <2>2, <2>3, <2>4, <2>5 DEF Work
<1>7. ASSUME NEW c \in claims, MarkError(c) PROVE UNCHANGED Queue!queueVars
  BY <1>0, <1>7, Stutter DEF MarkError, rows, history
<1>8. ASSUME NEW w \in Workers, Crash(w) PROVE UNCHANGED Queue!queueVars
  BY <1>0, <1>8, Stutter DEF Crash, rows, history
<1>9. CASE Requeue
  <2>1. UNCHANGED Queue!queueVars
    BY <1>0, <1>9, Stutter DEF Requeue, Stuck
  <2>2. QED
    BY <2>1
<1>10. CASE Tick
  <2>1. UNCHANGED Queue!queueVars
    BY <1>0, <1>10, Stutter DEF Tick
  <2>2. QED
    BY <2>1
<1>11. CASE UNCHANGED vars
  <2>1. UNCHANGED Queue!queueVars
    BY <1>0, <1>11, Stutter DEF vars
  <2>2. QED
    BY <2>1
<1>12. QED
  BY <1>1, <1>2, <1>4, <1>5, <1>6, <1>7, <1>8, <1>9, <1>10, <1>11 DEF Next

(* The outbox implements the queue: to a user who sees whether a delivery  *)
(* is queued, done or dead, and what was accepted and counted since the    *)
(* last replay, the claims, leases, sweeps, crashes and lost marks of any  *)
(* number of workers are invisible.                                        *)
THEOREM OutboxImplementsQueue == Spec => ImplementsQueue
<1>1. Init => Queue!Init
  BY InitMaps
<1>2. IInv /\ [Next]_vars => [Queue!Next]_(Queue!queueVars)
  BY NextMaps
<1>3. QED
  BY <1>1, <1>2, OutboxInvariant, PTL DEF Spec, ImplementsQueue, Queue!Spec
=============================================================================
