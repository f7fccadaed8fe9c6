SPECIFICATION MCSpec
CONSTANTS
  Users = {ann, bob, eve}
  Actors = {ann, bob}
  Role = {"member", "admin", "owner"}
  TTL = 1
  Delay = 1
SYMMETRY Symmetry
CHECK_DEADLOCK FALSE
INVARIANTS
  TokensAreRecent
  RemovalTakesEffect
PROPERTY ChangesAreBacked
