SPECIFICATION Spec
CONSTANTS
  c1 = c1
  c2 = c2
  u1 = u1
  u2 = u2
  u3 = u3
  r1 = r1
  e1 = e1
  s1 = s1
  s2 = s2
  Callers = {c1, c2}
  Users = {u1, u2, u3}
  NoUser = none
  Roles = {r1}
  Emails = {e1}
  Slugs = {s1, s2}
  NoName = none
  MaxWorkspaces = 2
  MaxInvitations = 2
  MaxCalls = 3
  MaxFailures = 1
SYMMETRY Symmetry
INVARIANTS
  MembersAgree
PROPERTIES
  InvitationsKept
  OwnershipKept
CHECK_DEADLOCK FALSE
