SPECIFICATION Spec
CONSTANTS
  Users = {u1, u2, u3}
  Sessions = {s1, s2}
  None = None
SYMMETRY UserAndSessionSymmetry
INVARIANT OwnersAgree
