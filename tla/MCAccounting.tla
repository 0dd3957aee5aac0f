---------------------------- MODULE MCAccounting ----------------------------
(***************************************************************************)
(* Model-checking instance of Accounting.                                  *)
(***************************************************************************)
EXTENDS Accounting, TLC

(* An order in the native asset, which the request may leave out, and one  *)
(* in another; 10 is also 1 times ten to the first.                        *)
MCInputs == {[asset |-> "", amount |-> 10], [asset |-> "UDT", amount |-> 5]}

MCExps == {-1, 0, 1}

Symmetry == Permutations(Merchants) \cup Permutations(Orders) \cup Permutations(Refunds)
=============================================================================
