\* Three ids, two timestamps (so that timestamps collide), an asset, one that
\* is called unknown, and none; pages of one, two (the maximum, asked for as
\* five) and the default.
CONSTANTS
  Ids = {1, 2, 3}
  Times = {1, 2}
  Assets = {"ckb", "unknown"}
  Null = Null
  Unknown = "unknown"
  Any = Any
  Filters <- MCFilters
  AmountOf <- MCAmountOf
  Exps <- MCExps
  Limits = {0, 1, 5, Any}
  DefaultLimit = 1
  MaxLimit = 2
  NoCursor = NoCursor
  MaxChanges = 1
SPECIFICATION FairSpec
CHECK_DEADLOCK FALSE
INVARIANTS
  TypeOK
  NoRepeat
  NothingSkipped
  StatsAgree
PROPERTIES
  WalkEnds
