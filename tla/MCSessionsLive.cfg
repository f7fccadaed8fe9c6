SPECIFICATION SteadySpec
CONSTANTS
  Users = {u1}
  Tenants = {a}
  Roles = {admin}
  Tokens = {t1, t2, t3}
  Requests = {r1, r2, r3}
PROPERTIES
  EveryRequestAnswered
  ExpiredArePruned
CHECK_DEADLOCK FALSE
