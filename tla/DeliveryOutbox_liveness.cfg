\* One delivery more than a worker claims at a time, and enough faults to
\* lose a claim, a mark and a worker in turn.
CONSTANTS
  Deliveries = {d1, d2}
  Workers = {w1}
  MaxAttempts = 2
  Limit = 1
  LeaseTTL = 2
  MaxHold = 1
  BackoffBase = 1
  BackoffMax = 2
  MaxReplays = 1
  MaxFaults = 2
SPECIFICATION FairSpec
PROPERTIES
  EverySettles
  ImplementsFairQueue
