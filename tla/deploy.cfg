\* With the recovery marker set the script refuses to run until an operator acts.
CONSTANTS
  c1 = c1 c2 = c2
  Shas = {c1, c2}
  MaxKills = 2
  Troubles <- KilledOrDisturbed
  None = None
SPECIFICATION LiveSpec
INVARIANTS TypeOK CandidateNotServed SuccessAgrees RollbackKeepsActive
PROPERTIES ServingNotRemoved DeploysAgain
CHECK_DEADLOCK FALSE
