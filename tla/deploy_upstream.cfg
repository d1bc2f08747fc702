\* With the recovery marker set the script refuses to run until an operator acts.
CONSTANTS
  c1 = c1 c2 = c2
  Shas = {c1, c2}
  MaxKills = 1
  Troubles <- KilledOnly
  None = None
SPECIFICATION Spec
INVARIANT UpstreamRestored
CHECK_DEADLOCK FALSE
