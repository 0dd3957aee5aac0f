\* Two requests with the same key, no fault.
CONSTANTS
  Creates = {r1, r2}
  Refunds = {f1}
  Merchants = {m1}
  ExtIds = {x1}
  NoExt = NoExt
  None = None
  MaxFaults = 0
SPECIFICATION Spec
SYMMETRY Symmetry
CHECK_DEADLOCK FALSE
INVARIANTS
  EveryPaymentMatched
