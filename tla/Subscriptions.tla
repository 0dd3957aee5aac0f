---------------------------- MODULE Subscriptions ----------------------------
(***************************************************************************)
(* Webhook subscriptions: the rows of webhook_endpoints and the requests   *)
(* that create, remove and test them.  A test writes to the same events    *)
(* and webhook_deliveries tables as the indexer, which uses this module.   *)
(*                                                                         *)
(* An endpoint's id is derived from its URL alone, so the URL names it.    *)
(* Secrets are numbers: NewWebhookSecret never returns the same one twice. *)
(***************************************************************************)
EXTENDS Integers

CONSTANTS
  Urls,        \* endpoint URLs
  Types,       \* event types
  Tests,       \* POST /webhooks/{id}/test requests
  Nil,         \* no endpoint, no secret
  MaxCreates   \* bound: create requests

(* A row of webhook_endpoints.                                             *)
Endpoint == [types : (SUBSET Types) \ {{}}, secret : Nat, active : BOOLEAN]

ASSUME SubscriptionsAssumption ==
  /\ MaxCreates \in Nat
  /\ Nil \notin Nat
  /\ Nil \notin Endpoint

VARIABLES
  endpoint,    \* webhook_endpoints, by URL; Nil where there is no row
  told,        \* the secret in the last create response for each URL
  creates,     \* secrets drawn so far
  test,        \* the state of each test request
  testEvents,  \* events: the synthetic rows, named by their test request
  testDlvs     \* webhook_deliveries: test request -> the secret it will be
               \* signed with; Nil where there is no row

subVars == << endpoint, told, creates, test, testEvents, testDlvs >>

TestState == [pc : {"idle", "event", "delivery", "done", "error"},
              url : Urls \cup {Nil}, secret : Nat \cup {Nil}]

SubTypeOK ==
  /\ endpoint \in [Urls -> Endpoint \cup {Nil}]
  /\ told \in [Urls -> Nat \cup {Nil}]
  /\ creates \in 0..MaxCreates
  /\ test \in [Tests -> TestState]
  /\ testEvents \subseteq Tests
  /\ testDlvs \in [Tests -> Nat \cup {Nil}]

SubInit ==
  /\ endpoint = [u \in Urls |-> Nil]
  /\ told = [u \in Urls |-> Nil]
  /\ creates = 0
  /\ test = [t \in Tests |-> [pc |-> "idle", url |-> Nil, secret |-> Nil]]
  /\ testEvents = {}
  /\ testDlvs = [t \in Tests |-> Nil]

(* The row exists and is active.                                           *)
Active(u) == endpoint[u] # Nil /\ endpoint[u].active

(* Active subscriptions for an event type: matchingEndpoints.              *)
MatchingFirstType(type) ==
  {u \in Urls : Active(u) /\ endpoint[u].types = {type}}
Matching(type) == {u \in Urls : Active(u) /\ type \in endpoint[u].types}

-----------------------------------------------------------------------------
(* POST /webhooks: an upsert by the derived id.  On conflict the event     *)
(* types are replaced and the row is re-activated; its secret stays.  The  *)
(* response carries the secret just drawn.                                 *)
CreateAnyTypes(u, types) ==
  /\ creates < MaxCreates
  /\ creates' = creates + 1
  /\ endpoint' = [endpoint EXCEPT ![u] =
       [types |-> types, active |-> TRUE, secret |-> creates + 1]]
  /\ told' = [told EXCEPT ![u] = creates + 1]
  /\ UNCHANGED << test, testEvents, testDlvs >>
Create(u, types) ==
  /\ creates < MaxCreates
  /\ types # {}
  /\ creates' = creates + 1
  /\ endpoint' = [endpoint EXCEPT ![u] =
       [types |-> types, active |-> TRUE,
        secret |-> IF endpoint[u] = Nil THEN creates + 1 ELSE endpoint[u].secret]]
  /\ told' = [told EXCEPT ![u] = creates + 1]
  /\ UNCHANGED << test, testEvents, testDlvs >>

(* DELETE /webhooks/{id}: a soft delete.                                   *)
Remove(u) ==
  /\ endpoint[u] # Nil
  /\ endpoint' = [endpoint EXCEPT ![u].active = FALSE]
  /\ UNCHANGED << told, creates, test, testEvents, testDlvs >>

(* POST /webhooks/{id}/test, first query: url and secret of the endpoint,  *)
(* if it is active; otherwise 404.                                         *)
TestSelect(t, u) ==
  /\ test[t].pc = "idle"
  /\ test' = [test EXCEPT ![t] =
       IF Active(u) THEN [pc |-> "event", url |-> u, secret |-> endpoint[u].secret]
                    ELSE [pc |-> "error", url |-> u, secret |-> Nil]]
  /\ UNCHANGED << endpoint, told, creates, testEvents, testDlvs >>

(* Second statement: the synthetic event row the delivery refers to.       *)
TestEventSkipped(t) ==
  /\ test[t].pc = "event"
  /\ test' = [test EXCEPT ![t].pc = "delivery"]
  /\ UNCHANGED << endpoint, told, creates, testEvents, testDlvs >>
TestEvent(t) ==
  /\ test[t].pc = "event"
  /\ testEvents' = testEvents \cup {t}
  /\ test' = [test EXCEPT ![t].pc = "delivery"]
  /\ UNCHANGED << endpoint, told, creates, testDlvs >>

(* Third statement: the delivery, with the secret read at the start.       *)
TestDelivery(t) ==
  /\ test[t].pc = "delivery"
  /\ testDlvs' = [testDlvs EXCEPT ![t] = test[t].secret]
  /\ test' = [test EXCEPT ![t].pc = "done"]
  /\ UNCHANGED << endpoint, told, creates, testEvents >>

(* The request ends before its next statement: an error or a crash.        *)
TestAbort(t) ==
  /\ test[t].pc \in {"event", "delivery"}
  /\ test' = [test EXCEPT ![t].pc = "error"]
  /\ UNCHANGED << endpoint, told, creates, testEvents, testDlvs >>

SubNext ==
  \/ \E u \in Urls : (\E types \in SUBSET Types : Create(u, types)) \/ Remove(u)
  \/ \E t \in Tests :
       \/ \E u \in Urls : TestSelect(t, u)
       \/ TestEvent(t) \/ TestDelivery(t) \/ TestAbort(t)

SubSpec == SubInit /\ [][SubNext]_subVars

-----------------------------------------------------------------------------
(* A queued test delivery refers to an event row and to an endpoint row,   *)
(* and is signed with the secret stored there, whatever creates and        *)
(* removes happen while the request is under way.  ClaimDue reads the      *)
(* event's type into a string: a missing row would fail the whole batch.   *)
TestDeliveryBacked ==
  \A t \in Tests : testDlvs[t] # Nil =>
    /\ t \in testEvents
    /\ endpoint[test[t].url] # Nil
    /\ testDlvs[t] = endpoint[test[t].url].secret

(* The API's documentation: deliveries are signed with the secret returned *)
(* at creation; creating an endpoint again is harmless.                    *)
ToldSecretSigns ==
  \A u \in Urls : Active(u) => endpoint[u].secret = told[u]
=============================================================================
