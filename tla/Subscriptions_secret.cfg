\* One endpoint created twice.
CONSTANTS
  Urls = {u1}
  Types = {a}
  Tests = {}
  Nil = Nil
  MaxCreates = 2
SPECIFICATION SubSpec
CHECK_DEADLOCK FALSE
INVARIANTS
  ToldSecretSigns
