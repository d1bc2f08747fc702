\* An owner's requests end, and ids and views run out.
CONSTANTS
  f1 = f1 j1 = j1 j2 = j2 j3 = j3
  d1 = d1 d2 = d2 d3 = d3 e1 = e1 e2 = e2
  l1 = l1 v1 = v1 v2 = v2 v3 = v3
  c1 = c1 c2 = c2 c3 = c3
  Files = {f1}
  Uploaders = {j1, j2, j3}
  UploadConditions = {"refused", "cut"}
  Folders = {d1, d2, d3}
  Top = Top
  Names = {"docs", "docs2"}
  NameStarts <- PrefixedNames
  Editors = {e1, e2}
  FolderOverlap = FALSE
  Links = {l1}
  Visitors = {v1, v2, v3}
  ViewLimits = {0, 1, 2}
  None = None
  MaxViewsSeen = 3
  Callers = {c1, c2, c3}
  Threshold = 5
  Cooldown = 3
  Timeout = 3
SPECIFICATION Spec
SYMMETRY Symmetry
INVARIANTS StorageTypeOK UploadedHasObject PrivateNotExposed PathsAgree ScopeIsSubtree
           ViewsBounded ServedIsCounted
PROPERTIES InTimeKept LeftAlone ClosesAgain
CHECK_DEADLOCK FALSE
