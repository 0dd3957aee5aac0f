--------------------------- MODULE DeliveryQueue ---------------------------
(***************************************************************************)
(* What the delivery outbox promises, without workers, leases, time or     *)
(* faults.  A queued delivery is tried until the receiver has accepted it, *)
(* then it is done, or until the limit of counted failures is reached,     *)
(* then it is dead; a replay starts it over.  Nothing else changes it.     *)
(*                                                                         *)
(* A replay that meets the delivery in flight makes it loose: an attempt   *)
(* of before the replay may still decide it, in either direction, until    *)
(* the next replay that finds it at rest.                                  *)
(***************************************************************************)
EXTENDS Integers

CONSTANTS
  Deliveries,
  MaxAttempts   \* any integer; a limit below one acts like one

VARIABLES
  state,     \* of each delivery: absent, queued, done or dead
  accepted,  \* deliveries the receiver has accepted since the last replay
  failures,  \* counted failures of each delivery since the last replay
  loose      \* deliveries whose last replay met them in flight

queueVars == << state, accepted, failures, loose >>

Init ==
  /\ state = [d \in Deliveries |-> "absent"]
  /\ accepted = {}
  /\ failures = [d \in Deliveries |-> 0]
  /\ loose = {}

LastTry(d) == failures[d] + 1 >= MaxAttempts

Put(S) ==
  /\ S # {}
  /\ \A d \in S : state[d] = "absent"
  /\ state' = [d \in Deliveries |-> IF d \in S THEN "queued" ELSE state[d]]
  /\ UNCHANGED << accepted, failures, loose >>

Accept(d) ==
  /\ state[d] = "queued" /\ d \notin loose
  /\ accepted' = accepted \cup {d}
  /\ UNCHANGED << state, failures, loose >>

Finish(d) ==
  /\ state[d] = "queued" /\ d \in accepted
  /\ state' = [state EXCEPT ![d] = "done"]
  /\ UNCHANGED << accepted, failures, loose >>

Fail(d) ==
  /\ state[d] = "queued" /\ d \notin loose /\ ~LastTry(d)
  /\ failures' = [failures EXCEPT ![d] = @ + 1]
  /\ UNCHANGED << state, accepted, loose >>

GiveUp(d) ==
  /\ state[d] = "queued" /\ d \notin loose /\ LastTry(d)
  /\ failures' = [failures EXCEPT ![d] = @ + 1]
  /\ state' = [state EXCEPT ![d] = "dead"]
  /\ UNCHANGED << accepted, loose >>

(* An attempt of before the replay, or of after it, decides.               *)
LooseMark(d) ==
  /\ d \in loose
  /\ \E s \in {"queued", "done", "dead"} : state' = [state EXCEPT ![d] = s]
  /\ UNCHANGED << accepted, failures, loose >>

Replay(d) ==
  /\ state[d] # "absent"
  /\ state' = [state EXCEPT ![d] = "queued"]
  /\ accepted' = accepted \ {d}
  /\ failures' = [failures EXCEPT ![d] = 0]
  /\ loose' \in {loose \cup {d}, loose \ {d}}

Try(d) == Finish(d) \/ Fail(d) \/ GiveUp(d) \/ LooseMark(d)

Next ==
  \/ \E S \in SUBSET Deliveries : Put(S)
  \/ \E d \in Deliveries : Accept(d) \/ Try(d) \/ Replay(d)

Spec == Init /\ [][Next]_queueVars

(* A queued delivery does not stay as it is for ever.                      *)
FairSpec ==
  /\ Spec
  /\ \A d \in Deliveries : WF_queueVars(state[d] = "queued" /\ Try(d))
=============================================================================
