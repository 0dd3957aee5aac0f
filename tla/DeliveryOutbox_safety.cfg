\* Two deliveries, two workers, two replays and a fault; the lease outlives
\* every claim (MaxHold < LeaseTTL), as 5 minutes outlive 10 second requests.
CONSTANTS
  Deliveries = {d1, d2}
  Workers = {w1, w2}
  MaxAttempts = 2
  Limit = 2
  LeaseTTL = 2
  MaxHold = 1
  BackoffBase = 1
  BackoffMax = 2
  MaxReplays = 2
  MaxFaults = 1
SPECIFICATION Spec
SYMMETRY Symmetry
INVARIANTS
  TypeOK
  ExclusiveClaim
  FreshClaim
  DeadLetterAtLimit
  LogNumbersAttempts
  SucceededWasAcked
PROPERTIES
  TerminalIsFinal
  ImplementsQueue
