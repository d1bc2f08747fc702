----------------------------- MODULE MCFolders -----------------------------
EXTENDS Folders, TLC

CONSTANTS d1, d2, e1, e2

Symmetry == Permutations(Folders) \cup Permutations(Editors)

\* "docs" begins the name "docs2".
PrefixedNames == {<<n, n>> : n \in Names} \cup {<<"docs", "docs2">>}
=============================================================================
