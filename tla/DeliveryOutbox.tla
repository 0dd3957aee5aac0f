--------------------------- MODULE DeliveryOutbox ---------------------------
(***************************************************************************)
(* The webhook delivery outbox: the rows of webhook_deliveries and         *)
(* webhook_delivery_log, the Store operations that move them (ClaimDue,    *)
(* MarkSucceeded, MarkFailed, MarkDead, Requeue), the manual replay of the *)
(* HTTP API, the background sweeper, and the workers of the library's      *)
(* Dispatcher that claim, send and mark.                                   *)
(*                                                                         *)
(* Every Store operation is one SQL statement, so it is one atomic step.   *)
(* Everything between two statements (the HTTP request, a crash, a lost    *)
(* reply of the database, the passing of time) is a step of its own.       *)
(*                                                                         *)
(* Time is kept relative: wait[d] is next_attempt_at - now() in ticks, and *)
(* 0 once next_attempt_at <= now().  While a row is 'delivering' the same  *)
(* column is the lease.                                                    *)
(***************************************************************************)
EXTENDS Integers, Sequences, FiniteSets

CONSTANTS
  Deliveries,    \* ids of the rows that may be enqueued
  Workers,       \* dispatcher workers, of any number of processes
  MaxAttempts,   \* WEBHOOK_MAX_ATTEMPTS
  Limit,         \* the batch size a worker passes to ClaimDue
  LeaseTTL,      \* defaultLeaseTTL, in ticks
  MaxHold,       \* longest time from a claim to its last mark, in ticks
  BackoffBase,   \* first argument of expJitter, in ticks
  BackoffMax,    \* second argument of expJitter, in ticks
  MaxReplays,    \* bound: replay requests
  MaxFaults      \* bound: crashes, lost claims and failed marks

ASSUME ConstantsAssumption ==
  /\ MaxAttempts \in Int    \* the configuration accepts any integer
  /\ Limit \in Nat \ {0}
  /\ LeaseTTL \in Nat \ {0}
  /\ MaxHold \in Nat
  /\ BackoffBase \in Nat \ {0}
  /\ BackoffMax \in Nat
  /\ BackoffBase <= BackoffMax
  /\ MaxReplays \in Nat
  /\ MaxFaults \in Nat

(* A lease of 5 minutes against requests of at most 10 seconds each: the   *)
(* library works through a batch before its lease runs out.                *)
ASSUME LeaseOutlivesClaim == MaxHold < LeaseTTL

VARIABLES
  status,    \* webhook_deliveries.status, "absent" before the INSERT
  attempts,  \* webhook_deliveries.attempts
  wait,      \* webhook_deliveries.next_attempt_at, relative to now()
  log,       \* webhook_delivery_log: the attempt_no of each row, in order
  claims,    \* the deliveries the workers hold in memory
  age,       \* ticks since each worker's last claim
  acked,     \* the receiver accepted the payload since the last replay
  replays,   \* replay requests so far
  faults,    \* faults so far
  raced,     \* history: rows whose last replay found a worker holding them
  base       \* history: Len(log[d]) at the last replay of d

rows    == << status, attempts, wait, log >>
history == << raced, base >>
vars    == << status, attempts, wait, log, claims, age, acked,
              replays, faults, raced, base >>

Status == {"absent", "pending", "delivering", "succeeded", "failed", "dead"}

(* What a worker keeps of a claimed row: its id, the attempts it read, and *)
(* whether it has sent the request and how that ended.                     *)
Claim == [worker : Workers, id : Deliveries, attempts : Nat,
          sent : {"no", "ok", "err"}]

TypeOK ==
  /\ status \in [Deliveries -> Status]
  /\ attempts \in [Deliveries -> Nat]
  /\ wait \in [Deliveries -> Nat]
  /\ log \in [Deliveries -> Seq(Nat)]
  /\ claims \in SUBSET Claim
  /\ age \in [Workers -> 0..MaxHold]
  /\ acked \in [Deliveries -> BOOLEAN]
  /\ replays \in 0..MaxReplays
  /\ faults \in 0..MaxFaults
  /\ raced \in SUBSET Deliveries
  /\ base \in [Deliveries -> Nat]

Init ==
  /\ status = [d \in Deliveries |-> "absent"]
  /\ attempts = [d \in Deliveries |-> 0]
  /\ wait = [d \in Deliveries |-> 0]
  /\ log = [d \in Deliveries |-> <<>>]
  /\ claims = {}
  /\ age = [w \in Workers |-> 0]
  /\ acked = [d \in Deliveries |-> FALSE]
  /\ replays = 0
  /\ faults = 0
  /\ raced = {}
  /\ base = [d \in Deliveries |-> 0]

-----------------------------------------------------------------------------
(***************************************************************************)
(* Helpers                                                                 *)
(***************************************************************************)

(* The claims a worker holds, and the claims held on a row.                *)
ClaimsOf(w) == {c \in claims : c.worker = w}
ClaimsOn(d) == {c \in claims : c.id = d}

(* The delay d of the n-th attempt: it doubles until it reaches max.       *)
Delay[n \in Nat] ==
  IF n <= 1 THEN BackoffBase
  ELSE IF 2 * Delay[n - 1] >= BackoffMax THEN BackoffMax ELSE 2 * Delay[n - 1]

(* The waits expJitter may return for attempt n: half + a random number in *)
(* 0..half, or the whole delay when half of it rounds to nothing.          *)
ExpJitter(n) ==
  LET half == Delay[n] \div 2
  IN  {t \in 0..BackoffMax : IF half = 0 THEN t = Delay[n]
                                         ELSE half <= t /\ t <= half + half}

(* The rows ClaimDue selects from: pending or failed, and due.             *)
DueAnyStatus == {d \in Deliveries : status[d] # "absent" /\ wait[d] = 0}
Due == {d \in Deliveries : status[d] \in {"pending", "failed"} /\ wait[d] = 0}

(* The rows Requeue re-arms: claimed, and the lease has run out.           *)
StuckIgnoringLease == {d \in Deliveries : status[d] = "delivering"}
StuckNever == {d \in Deliveries : status[d] = "failed" /\ wait[d] > BackoffMax}
Stuck == {d \in Deliveries : status[d] = "delivering" /\ wait[d] = 0}

(* The library's dead-letter check, on the attempts read at claim time.    *)
Exhausted(c) == c.attempts + 1 >= MaxAttempts

-----------------------------------------------------------------------------
(***************************************************************************)
(* Producers: the indexer's fan-out and the API's test request             *)
(***************************************************************************)

(* INSERT ... 'pending', now(), for the rows S that one transaction adds.  *)
(* The id is derived from (event, endpoint) by the indexer and fresh for a *)
(* test; inserting a row that exists does nothing (ON CONFLICT DO NOTHING), *)
(* so S has only new rows.                                                 *)
Enqueue(S) ==
  /\ S # {}
  /\ \A d \in S : status[d] = "absent"
  /\ status' = [d \in Deliveries |-> IF d \in S THEN "pending" ELSE status[d]]
  /\ UNCHANGED << attempts, wait, log, claims, age, acked, replays, faults,
                  raced, base >>

(* POST /webhooks/{id}/replay/{delivery_id}: whatever state the row is in, *)
(* it becomes pending, due now, with no attempts.                          *)
ReplayAsRequeued(d) ==
  /\ replays < MaxReplays
  /\ status[d] # "absent"
  /\ status' = [status EXCEPT ![d] = "requeued"]
  /\ replays' = replays + 1
  /\ UNCHANGED << attempts, wait, log, claims, age, acked, faults, raced, base >>
ReplayKeepingStatus(d) ==
  /\ replays < MaxReplays
  /\ status[d] # "absent"
  /\ attempts' = [attempts EXCEPT ![d] = 0]
  /\ wait' = [wait EXCEPT ![d] = 0]
  /\ acked' = [acked EXCEPT ![d] = FALSE]
  /\ replays' = replays + 1
  /\ raced' = IF ClaimsOn(d) = {} THEN raced \ {d} ELSE raced \cup {d}
  /\ base' = [base EXCEPT ![d] = Len(log[d])]
  /\ UNCHANGED << status, log, claims, age, faults >>
Replay(d) ==
  /\ replays < MaxReplays
  /\ status[d] # "absent"
  /\ status' = [status EXCEPT ![d] = "pending"]
  /\ attempts' = [attempts EXCEPT ![d] = 0]
  /\ wait' = [wait EXCEPT ![d] = 0]
  /\ acked' = [acked EXCEPT ![d] = FALSE]
  /\ replays' = replays + 1
  /\ raced' = IF ClaimsOn(d) = {} THEN raced \ {d} ELSE raced \cup {d}
  /\ base' = [base EXCEPT ![d] = Len(log[d])]
  /\ UNCHANGED << log, claims, age, faults >>

-----------------------------------------------------------------------------
(***************************************************************************)
(* Dispatcher workers                                                      *)
(***************************************************************************)

(* The UPDATE of ClaimDue on the selected rows S: 'delivering', and        *)
(* next_attempt_at pushed out by the lease.                                *)
LeaseRows(S) ==
  /\ status' = [d \in Deliveries |-> IF d \in S THEN "delivering" ELSE status[d]]
  /\ wait' = [d \in Deliveries |-> IF d \in S THEN LeaseTTL ELSE wait[d]]
  /\ UNCHANGED << attempts, log >>

(* Rows a batch may consist of.  FOR UPDATE SKIP LOCKED passes over any    *)
(* row another statement has locked at that moment, so that with ORDER BY  *)
(* and LIMIT every set of at most Limit due rows is a possible batch.      *)
Batches == {S \in SUBSET Due : S # {} /\ Cardinality(S) <= Limit}

(* An idle worker claims a batch and keeps what RETURNING gives it.        *)
ClaimDue(w) ==
  /\ ClaimsOf(w) = {}
  /\ \E S \in Batches :
       /\ LeaseRows(S)
       /\ claims' = claims \cup {[worker |-> w, id |-> d,
                                  attempts |-> attempts[d], sent |-> "no"] : d \in S}
  /\ age' = [age EXCEPT ![w] = 0]
  /\ UNCHANGED << acked, replays, faults, raced, base >>

(* The statement commits but its rows never reach the worker: the query or *)
(* a Scan fails and ClaimDue returns only the error.                       *)
ClaimLost ==
  /\ faults < MaxFaults
  /\ \E S \in Batches : LeaseRows(S)
  /\ faults' = faults + 1
  /\ UNCHANGED << claims, age, acked, replays, raced, base >>

(* The HTTP request of one claimed delivery.  A 2xx answer means that the  *)
(* receiver accepted it; an error or a timeout says nothing about that.    *)
Send(c) ==
  /\ c.sent = "no"
  /\ \/ /\ claims' = (claims \ {c}) \cup {[c EXCEPT !.sent = "ok"]}
        /\ acked' = [acked EXCEPT ![c.id] = TRUE]
     \/ /\ claims' = (claims \ {c}) \cup {[c EXCEPT !.sent = "err"]}
        /\ acked' \in {acked, [acked EXCEPT ![c.id] = TRUE]}
  /\ UNCHANGED << rows, age, replays, faults, history >>

(* The Store's marks address the row by its id alone: neither its status   *)
(* nor its attempts are compared with what the worker claimed.             *)
MarkSucceededLoggingAttempts(c) ==
  /\ c.sent = "ok"
  /\ status' = [status EXCEPT ![c.id] = "succeeded"]
  /\ log' = [log EXCEPT ![c.id] = Append(@, attempts[c.id])]
  /\ claims' = claims \ {c}
  /\ UNCHANGED << attempts, wait, age, acked, replays, faults, raced, base >>
MarkSucceeded(c) ==
  /\ c.sent = "ok"
  /\ status' = [status EXCEPT ![c.id] = "succeeded"]
  /\ log' = [log EXCEPT ![c.id] = Append(@, attempts[c.id] + 1)]
  /\ claims' = claims \ {c}
  /\ UNCHANGED << attempts, wait, age, acked, replays, faults, raced, base >>

MarkFailedUncounted(c) ==
  /\ c.sent = "err"
  /\ ~Exhausted(c)
  /\ status' = [status EXCEPT ![c.id] = "failed"]
  /\ \E t \in ExpJitter(c.attempts + 1) : wait' = [wait EXCEPT ![c.id] = t]
  /\ claims' = claims \ {c}
  /\ UNCHANGED << attempts, log, age, acked, replays, faults, raced, base >>
MarkFailed(c) ==
  /\ c.sent = "err"
  /\ ~Exhausted(c)
  /\ attempts' = [attempts EXCEPT ![c.id] = @ + 1]
  /\ status' = [status EXCEPT ![c.id] = "failed"]
  /\ \E t \in ExpJitter(c.attempts + 1) : wait' = [wait EXCEPT ![c.id] = t]
  /\ log' = [log EXCEPT ![c.id] = Append(@, attempts[c.id] + 1)]
  /\ claims' = claims \ {c}
  /\ UNCHANGED << age, acked, replays, faults, raced, base >>

MarkDeadUncounted(c) ==
  /\ c.sent = "err"
  /\ Exhausted(c)
  /\ status' = [status EXCEPT ![c.id] = "dead"]
  /\ log' = [log EXCEPT ![c.id] = Append(@, attempts[c.id])]
  /\ claims' = claims \ {c}
  /\ UNCHANGED << attempts, wait, age, acked, replays, faults, raced, base >>
MarkDead(c) ==
  /\ c.sent = "err"
  /\ Exhausted(c)
  /\ attempts' = [attempts EXCEPT ![c.id] = @ + 1]
  /\ status' = [status EXCEPT ![c.id] = "dead"]
  /\ log' = [log EXCEPT ![c.id] = Append(@, attempts[c.id] + 1)]
  /\ claims' = claims \ {c}
  /\ UNCHANGED << wait, age, acked, replays, faults, raced, base >>

(* A mark that fails in the database leaves the row as it is; the worker   *)
(* has nothing more to do with the claim.                                  *)
MarkError(c) ==
  /\ faults < MaxFaults
  /\ c.sent # "no"
  /\ claims' = claims \ {c}
  /\ faults' = faults + 1
  /\ UNCHANGED << rows, age, acked, replays, history >>

(* A worker dies, or its process is stopped, with whatever it holds.       *)
Crash(w) ==
  /\ faults < MaxFaults
  /\ ClaimsOf(w) # {}
  /\ claims' = claims \ ClaimsOf(w)
  /\ faults' = faults + 1
  /\ UNCHANGED << rows, age, acked, replays, history >>

-----------------------------------------------------------------------------
(***************************************************************************)
(* The sweeper and the clock                                               *)
(***************************************************************************)

(* Store.Requeue, called by sweep: every expired lease in one statement.   *)
Requeue ==
  /\ Stuck # {}
  /\ status' = [d \in Deliveries |-> IF d \in Stuck THEN "pending" ELSE status[d]]
  /\ wait' = [d \in Deliveries |-> IF d \in Stuck THEN 0 ELSE wait[d]]
  /\ UNCHANGED << attempts, log, claims, age, acked, replays, faults, raced, base >>

(* One tick passes.  A live worker is done with its batch within MaxHold   *)
(* ticks: every request is bounded by the client timeout.                  *)
Tick ==
  /\ \A w \in Workers : ClaimsOf(w) # {} => age[w] < MaxHold
  /\ wait' = [d \in Deliveries |-> IF wait[d] > 0 THEN wait[d] - 1 ELSE 0]
  /\ age' = [w \in Workers |-> IF ClaimsOf(w) # {} THEN age[w] + 1 ELSE age[w]]
  /\ UNCHANGED << status, attempts, log, claims, acked, replays, faults,
                  raced, base >>

-----------------------------------------------------------------------------
(* What a worker does with one claim in hand.                              *)
Work(c) == Send(c) \/ MarkSucceeded(c) \/ MarkFailed(c) \/ MarkDead(c)

Next ==
  \/ \E S \in SUBSET Deliveries : Enqueue(S)
  \/ \E d \in Deliveries : Replay(d)
  \/ \E w \in Workers : ClaimDue(w) \/ Crash(w)
  \/ \E c \in claims : Work(c) \/ MarkError(c)
  \/ ClaimLost
  \/ Requeue
  \/ Tick

Spec == Init /\ [][Next]_vars

(* The poll loop runs, a worker goes on with what it holds, the sweeper's  *)
(* ticker fires, and time passes.  Nothing obliges a producer to enqueue,  *)
(* a user to replay or a fault to happen.                                  *)
Fairness ==
  /\ WF_vars(\E w \in Workers : ClaimDue(w))
  /\ WF_vars(\E c \in claims : Work(c))
  /\ WF_vars(Requeue)
  /\ WF_vars(Tick)

FairSpec == Spec /\ Fairness

-----------------------------------------------------------------------------
(***************************************************************************)
(* Properties                                                              *)
(***************************************************************************)

(* A row is handed to one worker at a time: two workers hold the same      *)
(* delivery only if its last replay met it in flight.  ClaimDue's comment   *)
(* promises that workers never double-send; what has to make it true is    *)
(* that the lease outlives the claim, so that Requeue never re-arms a row  *)
(* whose worker is alive.                                                  *)
ExclusiveClaim ==
  \A c1, c2 \in claims : (c1.id = c2.id /\ c1.id \notin raced) => c1 = c2

(* A worker's mark lands on the row it claimed: as long as it holds the    *)
(* claim the row is still 'delivering', its lease still runs, and attempts *)
(* still is what the worker read, which the marks themselves never check.  *)
FreshClaim ==
  \A c \in claims : c.id \notin raced =>
    /\ status[c.id] = "delivering"
    /\ attempts[c.id] = c.attempts
    /\ wait[c.id] = LeaseTTL - age[c.worker]

(* What the library's check makes of a limit below one.                    *)
AttemptLimit == IF MaxAttempts < 1 THEN 1 ELSE MaxAttempts

(* A delivery is dead-lettered at the configured number of counted         *)
(* failures, neither before nor after, although claim, check and increment *)
(* are separate steps and crashed attempts are not counted.                *)
DeadLetterAtLimit ==
  \A d \in Deliveries : d \notin raced =>
    IF status[d] = "dead" THEN attempts[d] = AttemptLimit
                          ELSE attempts[d] < AttemptLimit

(* webhook_delivery_log has one row per marked attempt since the last      *)
(* replay, numbered 1, 2, 3 ... without gap or repetition, although        *)
(* MarkSucceeded numbers its row without counting the attempt.             *)
LogNumbersAttempts ==
  \A d \in Deliveries : d \notin raced =>
    /\ Len(log[d]) = base[d] + attempts[d]
                     + (IF status[d] = "succeeded" THEN 1 ELSE 0)
    /\ \A i \in 1..Len(log[d]) : i > base[d] => log[d][i] = i - base[d]

(* A delivery recorded as succeeded was accepted by the receiver since the *)
(* last replay: no replay is swallowed by an earlier success.              *)
SucceededWasAcked ==
  \A d \in Deliveries : (d \notin raced /\ status[d] = "succeeded") => acked[d]

(* A succeeded or dead delivery leaves that state only by a replay: no     *)
(* late mark and no requeue revives it.                                    *)
TerminalIsFinal ==
  [][\A d \in Deliveries :
       (d \notin raced /\ status[d] \in {"succeeded", "dead"}
          /\ status'[d] # status[d]) => replays' = replays + 1]_vars

(* Every enqueued delivery ends as succeeded or dead, whatever crashes,    *)
(* lost claims and failed marks happen (finitely many of them).            *)
EverySettles ==
  \A d \in Deliveries :
    (status[d] # "absent") ~> (status[d] \in {"succeeded", "dead"})

(* The documented guarantee without the exception for replays: ClaimDue's  *)
(* comment says that concurrent workers never double-send, so no two of    *)
(* them are about to send the same row.                                    *)
NeverDoubleSend ==
  \A c1, c2 \in claims :
    (c1.id = c2.id /\ c1.sent = "no" /\ c2.sent = "no") => c1 = c2

(* The outbox implements the abstract queue of DeliveryQueue: claims,      *)
(* leases, the sweeper, crashes and lost marks do not show, and what a     *)
(* user may rely on for a delivery is Put, Fail, Finish, GiveUp and        *)
(* Replay.  A row whose last replay met it in flight is a loose one.       *)
QueueState(d) ==
  IF status[d] \in {"pending", "delivering", "failed"} THEN "queued"
  ELSE IF status[d] = "succeeded" THEN "done" ELSE status[d]

Queue == INSTANCE DeliveryQueue WITH
  state    <- [d \in Deliveries |-> QueueState(d)],
  accepted <- {d \in Deliveries : acked[d] /\ d \notin raced},
  failures <- [d \in Deliveries |-> IF d \in raced THEN 0 ELSE attempts[d]],
  loose    <- raced

ImplementsQueue == Queue!Spec
ImplementsFairQueue == Queue!FairSpec
=============================================================================
