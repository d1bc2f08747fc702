CONSTANTS
  e1 = e1 u1 = u1 u2 = u2 u3 = u3 s1 = s1 s2 = s2
  p1 = p1 p2 = p2 p3 = p3 o1 = o1
  Emails <- OneEmail
  Users <- ThreeUsers
  Shards <- TwoShards
  Home <- HomeOfThree
  Procs = {p1, p2}
  Operators = {o1}
  MaxCrashes = 2
  Conditions = {"overlap", "unrouted"}
  NoRow = NoRow
  NoUser = NoUser
SPECIFICATION Spec
SYMMETRY Symmetry
INVARIANTS TypeOK EveryUserReserved GlobalEmailUniqueness SleepingHandlers
PROPERTY ImplementsDirectory
