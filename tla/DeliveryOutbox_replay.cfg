CONSTANTS
  Deliveries = {d1}
  Workers = {w1, w2}
  MaxAttempts = 2
  Limit = 1
  LeaseTTL = 2
  MaxHold = 1
  BackoffBase = 1
  BackoffMax = 2
  MaxReplays = 1
  MaxFaults = 0
SPECIFICATION Spec
INVARIANTS
  NeverDoubleSend
