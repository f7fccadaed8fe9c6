SPECIFICATION FirstSpec
CONSTANTS
  First = r4
  Names <- MCNames
  Emails = {e1, e2}
  Passwords = {p1, p2}
  Requests = {r1, r2, r3, r4}
SYMMETRY Symmetry
CHECK_DEADLOCK FALSE
INVARIANTS
  RegisterIsAtomic
  SlugsAreCanonical
  OnlySwapsWaitInCircles
PROPERTIES
  ConflictIsReal
  ReplacedWasKnown
