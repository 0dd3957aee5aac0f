-------------------------- MODULE MCDeliveryOutbox --------------------------
(***************************************************************************)
(* Model-checking instances of DeliveryOutbox.  The configurations differ  *)
(* only in the constants and in what they check.                           *)
(***************************************************************************)
EXTENDS DeliveryOutbox, TLC

(* Deliveries and workers are interchangeable.  Used by the safety runs    *)
(* only: a symmetry set is not sound for the liveness run.                 *)
Symmetry == Permutations(Deliveries) \cup Permutations(Workers)
=============================================================================
