------------------------------- MODULE MCPadma -------------------------------
(***************************************************************************)
(* Model-checking instance of Padma.                                       *)
(***************************************************************************)
EXTENDS Padma

(* One change with one event, which restarts project again and again; or   *)
(* one that does not decode.                                               *)
MCStreams == {
  << << [id |-> 1, type |-> "channel.opened", key |-> "c", val |-> "x",
         at |-> 1, ok |-> TRUE] >> >>,
  << << [id |-> 1, type |-> "invoice.paid", key |-> "h", val |-> "a",
         at |-> 1, ok |-> FALSE] >> >>}
=============================================================================
