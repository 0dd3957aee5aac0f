\* One refund request and one fault.
CONSTANTS
  Creates = {r1}
  Refunds = {f1}
  Merchants = {m1}
  ExtIds = {x1}
  NoExt = NoExt
  None = None
  MaxFaults = 1
SPECIFICATION Spec
SYMMETRY Symmetry
CHECK_DEADLOCK FALSE
INVARIANTS
  SentIsRecorded
