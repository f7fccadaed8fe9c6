SPECIFICATION FewSpec
CONSTANTS
  Latecomer = r4
  Users = {u1, u2}
  Emails = {e1, e2, e3}
  Invites = {i1, i2}
  Requests = {r1, r2, r3, r4}
SYMMETRY Symmetry
INVARIANTS
  CreatedInvitesStay
  InviteesOnly
  NobodyWaitsForEver
PROPERTIES
  NobodyJoinsTwice
  ImplementsInvitations
