\* Two requests change folders at a time.  The ids run out.
CONSTANTS
  d1 = d1 d2 = d2 e1 = e1 e2 = e2
  Folders = {d1, d2}
  Top = Top
  Names = {"docs", "docs2"}
  NameStarts <- PrefixedNames
  Editors = {e1, e2}
  FolderOverlap = TRUE
SPECIFICATION FoldersSpec
SYMMETRY Symmetry
INVARIANT NoFolderInItself
CHECK_DEADLOCK FALSE
