----------------------------- MODULE MCStorage -----------------------------
(***************************************************************************)
(* The four parts around stored files, checked in one run.  They share no  *)
(* state, so a behaviour follows one of them.                              *)
(***************************************************************************)
EXTENDS Uploads, Folders, ShareLinks, StorageBridge, TLC

CONSTANTS f1, j1, j2, j3, d1, d2, d3, e1, e2, l1, v1, v2, v3, c1, c2, c3

VARIABLE part

\* "docs" begins the name "docs2".
PrefixedNames == {<<n, n>> : n \in Names} \cup {<<"docs", "docs2">>}

\* Only the part with the most states is reduced, and no liveness property
\* is about it.
Symmetry == Permutations(Uploaders)

Init ==
  /\ part \in {"uploads", "folders", "links", "bridge"}
  /\ InitUploads /\ InitFolders /\ InitLinks /\ InitBridge

Next ==
  /\ UNCHANGED part
  /\ \/ part = "uploads" /\ NextUploads /\ UNCHANGED <<folderVars, linkVars, bridgeVars>>
     \/ part = "folders" /\ NextFolders /\ UNCHANGED <<uploadVars, linkVars, bridgeVars>>
     \/ part = "links" /\ NextLinks /\ UNCHANGED <<uploadVars, folderVars, bridgeVars>>
     \/ part = "bridge" /\ NextBridge /\ UNCHANGED <<uploadVars, folderVars, linkVars>>

Spec == Init /\ [][Next]_<<part, uploadVars, folderVars, linkVars, bridgeVars>> /\ BridgeFairness
-----------------------------------------------------------------------------
\* The rows, paths, counts and requests of each part keep their types.
StorageTypeOK == UploadTypeOK /\ FoldersTypeOK /\ LinksTypeOK /\ BridgeTypeOK
=============================================================================
