CONSTANTS
  u1 = u1 u2 = u2 u3 = u3 u4 = u4 p1 = p1 p2 = p2 p3 = p3
  Users = {u1, u2, u3}
  Procs = {p1, p2}
  Founder = u1
SPECIFICATION Spec
SYMMETRY Symmetry
INVARIANT OwnerActive
