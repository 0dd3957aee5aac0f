\* A stream of one event, or of one that does not decode; one endpoint that
\* is created, removed and created again, one test request, one replay, and
\* one fault of each process.
CONSTANTS
  Urls = {u1}
  Types = {"channel.opened"}
  Tests = {t1}
  Nil = Nil
  MaxCreates = 2
  Streams <- MCStreams
  MaxFaults = 1
  Workers = {w1}
  MaxAttempts = 1
  Limit = 2
  LeaseTTL = 1
  MaxHold = 0
  BackoffBase = 1
  BackoffMax = 1
  MaxReplays = 1
  MaxOutFaults = 1
SPECIFICATION PadmaSpec
INVARIANTS
  PadmaTypeOK
  TestDeliveryBacked
  RowsBacked
  NoDoubleFire
PROPERTIES
  OutboxPreserved
  DeliveriesSettle
