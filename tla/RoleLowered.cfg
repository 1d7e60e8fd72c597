SPECIFICATION Spec
CONSTANTS
  u1 = u1
  u2 = u2
  d1 = d1
  Users = {u1, u2}
  BPs = {A}
  LeadCards = {l1, l2}
  Domains = {d1}
  DomainOf <- MCDomainOf
  Invitations = {i1, i2}
  RowIds = {r1, r2}
  InviteRoles = {"buyer"}
  Calls = {c1, c2}
  MaxRequests = 4
  None = None
  New = New
PROPERTY JoinNeverLowers
SYMMETRY Symmetry
