SPECIFICATION Spec
CONSTANTS
  Users = {u1, u2, u3}
  Sessions = {s1}
  None = None
INVARIANTS
  TypeOK
  OneOwner
PROPERTIES
  ImplementsRoster
