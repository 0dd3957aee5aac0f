------------------------------- MODULE Amounts -------------------------------
(***************************************************************************)
(* Money columns: an Amount is a whole number of the asset's smallest      *)
(* unit, a NUMERIC column gives it back as {Int, Exp}, the integer times a *)
(* power of ten.  Which exponent the database chooses for a value is not   *)
(* under the program's control.                                            *)
(***************************************************************************)
EXTENDS Integers

(* What a conversion that returns an error gives, and the empty string of  *)
(* the query API.                                                          *)
NoAmount == -1

Pow10[e \in Nat] == IF e = 0 THEN 1 ELSE 10 * Pow10[e - 1]

AmountToNumeric(a) == [int |-> a, exp |-> 0, valid |-> TRUE]

(* The value of a column written as n; every NUMERIC written has exp 0.    *)
Column(n) == n.int * Pow10[n.exp]

(* A column of value v read back with the exponent e where v allows it.    *)
Numeric(v, e) ==
  CASE e > 0 /\ v % Pow10[e] = 0 -> [int |-> v \div Pow10[e], exp |-> e, valid |-> TRUE]
    [] e < 0                     -> [int |-> v * Pow10[-e], exp |-> e, valid |-> TRUE]
    [] OTHER                     -> [int |-> v, exp |-> 0, valid |-> TRUE]

(* The underlying integer, or an error: not a number, a fraction, negative. *)
(* The library's ParseAmount, the last step, is taken to accept every      *)
(* natural number, sums included.                                          *)
NumericToAmountOfInt(n) == IF n.valid THEN n.int ELSE NoAmount
NumericToAmount(n) ==
  CASE ~n.valid -> NoAmount
    [] n.exp >= 0 /\ n.int >= 0 -> n.int * Pow10[n.exp]
    [] n.exp < 0 /\ n.int >= 0 /\ n.int % Pow10[-n.exp] = 0 -> n.int \div Pow10[-n.exp]
    [] OTHER -> NoAmount

(* mustAmount: a conversion that fails counts as zero.                     *)
MustAmount(n) == IF NumericToAmount(n) = NoAmount THEN 0 ELSE NumericToAmount(n)
=============================================================================
