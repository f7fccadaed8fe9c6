SPECIFICATION Spec
CONSTANTS
  Users = {u1}
  Tenants = {a, b}
  Roles = {admin}
  Tokens = {t1, t2, t3}
  Requests = {r1, r2, r3}
SYMMETRY Symmetry
INVARIANTS
  OneTokenPerSession
  CookiesAgree
  ClaimsWereTrue
PROPERTY DeadSessionStaysDead
