------------------------------ MODULE MCIndexer ------------------------------
(***************************************************************************)
(* Model-checking instances of Indexer.                                    *)
(***************************************************************************)
EXTENDS Indexer

Ev(id, type, key, val, at) ==
  [id |-> id, type |-> type, key |-> key, val |-> val, at |-> at, ok |-> TRUE]

(* One payment hash that is paid and received more than once, a channel    *)
(* opened twice, and an event that has no projection.                      *)
ReplayStream == <<
  << Ev(1, "invoice.paid", "h", Nil, 1), Ev(2, "payment.received", "h", "p", 1) >>,
  << Ev(3, "channel.opened", "c", "x", 2), Ev(4, "invoice.paid", "h", "a", 2) >>,
  << Ev(5, "payment.received", "h", "q", 3) >>,
  << Ev(6, "invoice.paid", "h", "b", 4), Ev(7, "channel.opened", "c", "y", 4),
     Ev(8, "payment.failed", "h", "r", 4) >> >>

(* A change whose second event does not decode, with one behind it.        *)
PoisonStream == <<
  << Ev(1, "channel.opened", "c", "x", 1) >>,
  << Ev(2, "invoice.paid", "h", "a", 2),
     [Ev(3, "payment.received", "h", "p", 2) EXCEPT !.ok = FALSE] >>,
  << Ev(4, "channel.opened", "c", "y", 3) >> >>

MCStreams == {ReplayStream, PoisonStream}
=============================================================================
