SPECIFICATION LineSpec
CONSTANTS
  Users = {u1, u2}
  Requests = {r1, r2, r3}
  MaxConns = 2
  NewRoles = {"owner", "member"}
INVARIANTS
  OwnerRemainsUnlessOverlap
  ReplyIsTruthful
PROPERTIES
  ChangeIsAudited
  AdminsSparePeersUnlessOverlap
  ImplementsRoster
  EveryRequestAnswered
