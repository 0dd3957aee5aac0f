--------------------------- MODULE MCSubscriptions ---------------------------
(***************************************************************************)
(* Model-checking instances of Subscriptions.                              *)
(***************************************************************************)
EXTENDS Subscriptions, TLC

Symmetry == Permutations(Urls) \cup Permutations(Types) \cup Permutations(Tests)
=============================================================================
