SPECIFICATION Spec
CONSTANTS
  Users = {u1, u2}
  Sessions = {s1, s2}
  None = None
SYMMETRY UserAndSessionSymmetry
INVARIANTS
  MembersAccepted
  OwnersWereAppointed
