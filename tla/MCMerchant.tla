----------------------------- MODULE MCMerchant -----------------------------
(***************************************************************************)
(* Model-checking instances of Merchant.                                   *)
(***************************************************************************)
EXTENDS Merchant, TLC

(* Requests, merchants and external ids are interchangeable.               *)
Symmetry == Permutations(Creates) \cup Permutations(Refunds)
            \cup Permutations(Merchants) \cup Permutations(ExtIds)
=============================================================================
