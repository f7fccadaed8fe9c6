SPECIFICATION Spec
CONSTANTS
  Tenants = {a, b}
  Subs = {s1, s2}
  Items <- MCItems
  MaxEvents = 4
SYMMETRY Symmetry
CHECK_DEADLOCK FALSE
INVARIANTS
  BillingIsOwn
  PlanNeedsSubscription
  PlanIsTrackedUnlessDisturbed
