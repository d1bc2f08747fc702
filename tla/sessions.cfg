CONSTANTS
  t1 = t1 t2 = t2 t3 = t3 p1 = p1 p2 = p2
  Tokens = {t1, t2, t3}
  Procs = {p1, p2}
  Lifetime = 2
  MaxTime = 2
  MaxResets = 1
  MaxCrashes = 1
  Conditions = {}
  NoToken = NoToken
  NoTtl = NoTtl
SPECIFICATION Spec
SYMMETRY Symmetry
INVARIANTS TypeOK OneTokenPerSession UnusedTokenAccepted ReuseRevokesAll OldPasswordSessionsEnd
PROPERTY ImplementsSessionBook
