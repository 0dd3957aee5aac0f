---------------------------- MODULE MCPagination ----------------------------
(***************************************************************************)
(* Model-checking instance of Pagination.                                  *)
(***************************************************************************)
EXTENDS Pagination

(* No filter; an asset; the asset with the name of the bucket of NULL; a   *)
(* period open to either side; an asset in a closed period.                *)
MCFilters == {
  [asset |-> Any, from |-> Any, to |-> Any],
  [asset |-> "ckb", from |-> Any, to |-> Any],
  [asset |-> "unknown", from |-> Any, to |-> Any],
  [asset |-> Any, from |-> 2, to |-> Any],
  [asset |-> "ckb", from |-> 1, to |-> 1]}

MCAmountOf == [i \in Ids |-> IF i = 1 THEN 5 ELSE 10 * i]
MCExps == {-1, 0, 1}
=============================================================================
