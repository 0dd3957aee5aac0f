\* Two orders and two refunds, of 10 each: an order of 10 can be refunded in
\* full, an order of 5 only in excess, and either of them twice.  The two
\* instants lie in one month in UTC and in two months of the session's zone.
CONSTANTS
  Merchants = {m1, m2}
  Orders = {o1, o2}
  Refunds = {f1, f2}
  Reports = {q1}
  Inputs <- MCInputs
  RefundAmounts = {10}
  Times = {1, 2}
  MonthLength = 3
  Zone = 1
  Exps <- MCExps
  Nil = Nil
SPECIFICATION Spec
SYMMETRY Symmetry
CHECK_DEADLOCK FALSE
INVARIANTS
  TypeOK
  BooksAgree
  CountedOnce
  NetAccounts
  PeriodOnlyGrows
  AnswersPersisted
