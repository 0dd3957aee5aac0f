\* A stream of four changes, and one whose second change can never be applied
\* as a whole; a crash or a lost commit reply, any number of restarts, and a
\* subscriber that is created, changed and removed meanwhile.
CONSTANTS
  Urls = {u1}
  Types = {"invoice.paid", "channel.opened"}
  Tests = {}
  Nil = Nil
  MaxCreates = 2
  Streams <- MCStreams
  MaxFaults = 1
SPECIFICATION FairSpec
INVARIANTS
  TypeOK
  CheckpointCovers
  AllOrNothing
  ProjectionsConverge
PROPERTIES
  AtomicOutbox
  RunCompletes
