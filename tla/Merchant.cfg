\* Three create requests, racing or repeating, and two refund requests, of two
\* merchants; one fault.
CONSTANTS
  Creates = {r1, r2, r3}
  Refunds = {f1, f2}
  Merchants = {m1, m2}
  ExtIds = {x1}
  NoExt = NoExt
  None = None
  MaxFaults = 1
SPECIFICATION Spec
SYMMETRY Symmetry
CHECK_DEADLOCK FALSE
INVARIANTS
  TypeOK
  ResponsesAgree
  PaidIffMatched
  RefundsAccounted
  PayoutsOwed
PROPERTIES
  RefundedIsFinal
  RefundAnsweredOnce
