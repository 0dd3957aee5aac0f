\* Two refund requests for one order, no fault.
CONSTANTS
  Creates = {r1}
  Refunds = {f1, f2}
  Merchants = {m1}
  ExtIds = {x1}
  NoExt = NoExt
  None = None
  MaxFaults = 0
SPECIFICATION Spec
SYMMETRY Symmetry
CHECK_DEADLOCK FALSE
PROPERTIES
  RefundOnlyPaid
