---------------------------- MODULE StorageProof ----------------------------
(***************************************************************************)
(* Access to the storage service, for any number of links, visitors and    *)
(* callers: how far a limited link is overshot, what is never served       *)
(* uncounted, and that a service that keeps failing is left alone.  At the *)
(* end, all that is checked of the four parts around stored files, of the  *)
(* specification that composes them.                                       *)
(***************************************************************************)
EXTENDS MCStorage, UploadsProof, FoldersProof, FiniteSetTheorems, TLAPS
-----------------------------------------------------------------------------
(***************************************************************************)
(* Share links.  Both invariants are inductive once a link is known to have *)
(* no views and no visitors before its row, and single files to be asked   *)
(* for through links to folders only.                                      *)
(***************************************************************************)
VisitRec == [at : VisitAt, of : Links \cup {None}]

\* A link that was never created has been seen by nobody.
Unseen ==
  \A l \in Links : linkRow[l] = "none" =>
    views[l] = 0 /\ \A v \in Visitors : visit[v].of # l

\* Single files are of folders.
FilesOfFolders ==
  \A v \in Visitors : visit[v].at = "file" => visit[v].of \in ofFolder

\* What may have gone out through the link uncounted.
SingleFiles(l) == IF l \in ofFolder THEN streamed[l] ELSE 0

LInv == LinksTypeOK /\ Unseen /\ FilesOfFolders /\ ViewsBounded /\ ServedIsCounted

USE LinkAssumption

LEMMA Finite ==
  ASSUME NEW l \in Links
  PROVE  /\ IsFiniteSet(Visitors) /\ Cardinality(Visitors) \in Nat \ {0}
         /\ IsFiniteSet(Uncounted(l)) /\ Cardinality(Uncounted(l)) \in Nat
         /\ IsFiniteSet(Unserved(l)) /\ Cardinality(Unserved(l)) \in Nat
         /\ Cardinality(Uncounted(l)) <= Cardinality(Visitors)
<1>1. Uncounted(l) \subseteq Visitors /\ Unserved(l) \subseteq Visitors
  BY DEF Uncounted, Unserved
<1> QED  BY <1>1, FS_Subset, FS_CardinalityType, FS_EmptySet

LEMMA LinksInit == InitLinks => LInv
<1> SUFFICES ASSUME InitLinks PROVE LInv
  OBVIOUS
<1>1. NoVisit \in VisitRec
  BY DEF NoVisit, VisitRec, VisitAt
<1>2. LinksTypeOK
  BY <1>1 DEF InitLinks, LinksTypeOK, VisitRec
<1>3. Unseen
  BY DEF InitLinks, Unseen, NoVisit
<1>4. ViewsBounded
  BY DEF InitLinks, ViewsBounded, Limited
<1>5. ASSUME NEW l \in Links PROVE Unserved(l) = {}
  BY DEF InitLinks, Unserved, NoVisit
<1>6. ASSUME NEW l \in Links
      PROVE  served[l] + Cardinality(Unserved(l)) <= views[l] + (IF l \in ofFolder THEN streamed[l] ELSE 0)
  <2>1. /\ served[l] = 0 /\ views[l] = 0 /\ l \notin ofFolder
        /\ Cardinality(Unserved(l)) = 0
    BY <1>5, FS_EmptySet DEF InitLinks
  <2> QED  BY <2>1
<1>7. FilesOfFolders
  BY DEF InitLinks, FilesOfFolders, NoVisit
<1> QED  BY <1>2, <1>3, <1>4, <1>6, <1>7 DEF LInv, ServedIsCounted

LEMMA SingleFilesNat ==
  ASSUME LInv, NEW l \in Links
  PROVE  SingleFiles(l) \in Nat /\ served[l] + Cardinality(Unserved(l)) <= views[l] + SingleFiles(l)
BY DEF LInv, LinksTypeOK, ServedIsCounted, SingleFiles

\* Fewer visitors wait, and at most as many are about to be served.
LEMMA Fewer ==
  ASSUME NEW l \in Links, NEW S, S \subseteq Uncounted(l), NEW T, T \subseteq Unserved(l)
  PROVE  /\ Cardinality(S) \in Nat /\ Cardinality(S) <= Cardinality(Uncounted(l))
         /\ Cardinality(T) \in Nat /\ Cardinality(T) <= Cardinality(Unserved(l))
BY Finite, FS_Subset, FS_CardinalityType

LEMMA OpenKeeps ==
  ASSUME LInv, NEW v \in Visitors, NEW k \in Links, OpenLink(v, k)
  PROVE  LInv'
<1> DEFINE x == [at |-> "count", of |-> k]
<1>1. /\ x \in VisitRec /\ visit' = [visit EXCEPT ![v] = x] /\ linkRow[k] = "live"
      /\ Limited(k) => views[k] < maxViews[k]
      /\ UNCHANGED <<linkRow, ofFolder, maxViews, views, lapsed, served, streamed>>
  BY DEF OpenLink, Open, VisitRec, VisitAt
<1>2. LinksTypeOK' /\ Unseen' /\ FilesOfFolders'
  BY <1>1 DEF LInv, LinksTypeOK, VisitRec, Unseen, FilesOfFolders
<1>3. ASSUME NEW l \in Links, Limited(l)'
      PROVE  views[l] + Cardinality(Uncounted(l)') < maxViews[l] + Cardinality(Visitors)
  <2>1. Limited(l) /\ views[l] \in Nat /\ maxViews[l] \in Nat
    BY <1>1, <1>3 DEF Limited, LInv, LinksTypeOK
  <2>2. CASE l = k
    <3>1. Uncounted(l)' \subseteq Visitors
      BY DEF Uncounted
    <3>2. Cardinality(Uncounted(l)') \in Nat /\ Cardinality(Uncounted(l)') <= Cardinality(Visitors)
      BY <3>1, Finite, FS_Subset, FS_CardinalityType
    <3> QED  BY <1>1, <2>1, <2>2, <3>2, Finite
  <2>3. CASE l # k
    <3>0. x # [at |-> "count", of |-> l]
      BY <2>3
    <3>1. Uncounted(l)' \subseteq Uncounted(l)
      BY <1>1, <3>0 DEF Uncounted, Unserved, LInv, LinksTypeOK
    <3>2. Cardinality(Uncounted(l)') \in Nat /\ Cardinality(Uncounted(l)') <= Cardinality(Uncounted(l))
      BY <3>1, Finite, FS_Subset, FS_CardinalityType
    <3> QED  BY <2>1, <3>2, Finite DEF LInv, ViewsBounded
  <2> QED  BY <2>2, <2>3
<1>4. ASSUME NEW l \in Links
      PROVE  served[l] + Cardinality(Unserved(l)') <= views[l] + SingleFiles(l)
  <2>0. x # [at |-> "serve", of |-> l]
    OBVIOUS
  <2>1. Unserved(l)' \subseteq Unserved(l)
    BY <1>1, <2>0 DEF Uncounted, Unserved, LInv, LinksTypeOK
  <2>2. Cardinality(Unserved(l)') \in Nat /\ Cardinality(Unserved(l)') <= Cardinality(Unserved(l))
    BY <2>1, Finite, FS_Subset, FS_CardinalityType
  <2> QED  BY <2>2, Finite, SingleFilesNat DEF LInv, LinksTypeOK
<1>5. ViewsBounded'
  BY <1>1, <1>3 DEF ViewsBounded
<1>6. ServedIsCounted'
  BY <1>1, <1>4 DEF ServedIsCounted, SingleFiles
<1> QED  BY <1>2, <1>5, <1>6 DEF LInv

\* A step after which no more visitors wait or are to be served than before.
LEMMA LessKeeps ==
  ASSUME LInv, UNCHANGED <<maxViews, views, ofFolder, streamed>>,
         served' = served, LinksTypeOK', Unseen', FilesOfFolders',
         \A l \in Links : Uncounted(l)' \subseteq Uncounted(l) /\ Unserved(l)' \subseteq Unserved(l)
  PROVE  LInv'
<1>1. ASSUME NEW l \in Links, Limited(l)'
      PROVE  views[l] + Cardinality(Uncounted(l)') < maxViews[l] + Cardinality(Visitors)
  <2>1. Limited(l) /\ views[l] \in Nat /\ maxViews[l] \in Nat
    BY <1>1 DEF Limited, LInv, LinksTypeOK
  <2> QED  BY <2>1, Fewer, Finite DEF LInv, ViewsBounded
<1>2. ASSUME NEW l \in Links
      PROVE  served[l] + Cardinality(Unserved(l)') <= views[l] + SingleFiles(l)
  BY Fewer, Finite, SingleFilesNat DEF LInv, LinksTypeOK
<1>3. ViewsBounded'
  BY <1>1 DEF ViewsBounded
<1>4. ServedIsCounted'
  BY <1>2 DEF ServedIsCounted, SingleFiles
<1> QED  BY <1>3, <1>4 DEF LInv

\* A visitor that starts over is in neither set.
LEMMA BackKeeps ==
  ASSUME LInv, NEW v \in Visitors, visit' = [visit EXCEPT ![v] = NoVisit],
         UNCHANGED <<linkRow, ofFolder, maxViews, views, lapsed, served, streamed>>
  PROVE  LInv'
<1>1. NoVisit \in VisitRec /\ \A l \in Links : NoVisit.of # l
  BY DEF NoVisit, VisitRec, VisitAt
<1>2. \A l \in Links : NoVisit # [at |-> "count", of |-> l] /\ NoVisit # [at |-> "serve", of |-> l]
  BY DEF NoVisit
<1>3. LinksTypeOK' /\ Unseen'
  BY <1>1 DEF LInv, LinksTypeOK, VisitRec, Unseen
<1>5. FilesOfFolders'
  BY DEF LInv, LinksTypeOK, FilesOfFolders, NoVisit
<1>4. \A l \in Links : Uncounted(l)' \subseteq Uncounted(l) /\ Unserved(l)' \subseteq Unserved(l)
  BY <1>1, <1>2 DEF Uncounted, Unserved, LInv, LinksTypeOK
<1> QED  BY <1>3, <1>4, <1>5, LessKeeps

LEMMA CountKeeps ==
  ASSUME LInv, NEW v \in Visitors, NEW k \in Links, CountView(v, k)
  PROVE  LInv'
<1>1. CASE linkRow[k] # "live"
  BY <1>1, BackKeeps DEF CountView
<1>2. CASE linkRow[k] = "live"
  <2> DEFINE x == [at |-> "serve", of |-> k]
  <2>1. /\ v \in Uncounted(k) /\ views' = [views EXCEPT ![k] = @ + 1]
        /\ visit' = [visit EXCEPT ![v] = x] /\ x \in VisitRec
        /\ UNCHANGED <<linkRow, ofFolder, maxViews, lapsed, served, streamed>>
    <3>1. visit[v] = [at |-> "count", of |-> k] /\ visit \in [Visitors -> VisitRec]
      BY DEF CountView, Uncounted, LInv, LinksTypeOK, VisitRec
    <3>2. [visit[v] EXCEPT !.at = "serve"] = x
      BY <3>1
    <3>3. visit' = [visit EXCEPT ![v] = [visit[v] EXCEPT !.at = "serve"]]
      BY <1>2 DEF CountView
    <3> QED  BY <1>2, <3>2, <3>3 DEF CountView, VisitRec, VisitAt
  <2>2. LinksTypeOK' /\ Unseen' /\ FilesOfFolders'
    BY <2>1, <1>2 DEF LInv, LinksTypeOK, VisitRec, Unseen, FilesOfFolders
  <2>3. ASSUME NEW l \in Links
        PROVE  /\ Uncounted(l)' = Uncounted(l) \ {v}
               /\ Unserved(l)' = IF l = k THEN Unserved(l) \cup {v} ELSE Unserved(l) \ {v}
    <3>1. x # [at |-> "count", of |-> l] /\ (x = [at |-> "serve", of |-> l] <=> l = k)
      OBVIOUS
    <3> QED  BY <2>1, <3>1 DEF Uncounted, Unserved, LInv, LinksTypeOK
  <2>4. ASSUME NEW l \in Links PROVE views[l] \in Nat /\ served[l] \in Nat
    BY DEF LInv, LinksTypeOK
  <2>5. v \notin Unserved(k)
    BY <2>1 DEF Uncounted, Unserved
  <2>6. Cardinality(Uncounted(k)') = Cardinality(Uncounted(k)) - 1
    BY <2>1, <2>3, Finite, FS_RemoveElement
  <2>7. Cardinality(Unserved(k)') = Cardinality(Unserved(k)) + 1
    BY <2>3, <2>5, Finite, FS_AddElement
  <2>8. views'[k] = views[k] + 1 /\ \A l \in Links : l # k => views'[l] = views[l]
    BY <2>1 DEF LInv, LinksTypeOK
  <2>9. ASSUME NEW l \in Links, Limited(l)'
        PROVE  views'[l] + Cardinality(Uncounted(l)') < maxViews[l] + Cardinality(Visitors)
    <3>1. Limited(l) /\ maxViews[l] \in Nat
      BY <2>1, <2>9 DEF Limited, LInv, LinksTypeOK
    <3>2. views[l] + Cardinality(Uncounted(l)) < maxViews[l] + Cardinality(Visitors)
      BY <3>1 DEF LInv, ViewsBounded
    <3>3. CASE l = k
      BY <2>4, <2>6, <2>8, <3>1, <3>2, <3>3, Finite
    <3>4. CASE l # k
      <4>1. Cardinality(Uncounted(l)') \in Nat /\ Cardinality(Uncounted(l)') <= Cardinality(Uncounted(l))
        <5>1. Uncounted(l)' \subseteq Uncounted(l)
          BY <2>3
        <5> QED  BY <5>1, Fewer
      <4> QED  BY <2>4, <2>8, <3>1, <3>2, <3>4, <4>1, Finite
    <3> QED  BY <3>3, <3>4
  <2>10. ASSUME NEW l \in Links
         PROVE  served[l] + Cardinality(Unserved(l)') <= views'[l] + SingleFiles(l)
    <3>1. SingleFiles(l) \in Nat /\ served[l] + Cardinality(Unserved(l)) <= views[l] + SingleFiles(l)
      BY SingleFilesNat
    <3>2. CASE l = k
      BY <2>4, <2>7, <2>8, <3>1, <3>2, Finite
    <3>3. CASE l # k
      <4>1. Unserved(l)' \subseteq Unserved(l)
        BY <2>3, <3>3
      <4>2. Cardinality(Unserved(l)') \in Nat /\ Cardinality(Unserved(l)') <= Cardinality(Unserved(l))
        BY <4>1, Fewer
      <4> QED  BY <2>4, <2>8, <3>1, <3>3, <4>2, Finite
    <3> QED  BY <3>2, <3>3
  <2>11. ViewsBounded'
    BY <2>1, <2>9 DEF ViewsBounded
  <2>12. ServedIsCounted'
    BY <2>1, <2>10 DEF ServedIsCounted, SingleFiles
  <2> QED  BY <2>2, <2>11, <2>12 DEF LInv
<1> QED  BY <1>1, <1>2

LEMMA ServeKeeps ==
  ASSUME LInv, NEW v \in Visitors, NEW k \in Links, Serve(v, k)
  PROVE  LInv'
<1>1. /\ v \in Unserved(k) /\ served' = [served EXCEPT ![k] = @ + 1]
      /\ visit' = [visit EXCEPT ![v] = NoVisit] /\ NoVisit \in VisitRec
      /\ UNCHANGED <<linkRow, ofFolder, maxViews, views, lapsed, streamed>>
  BY DEF Serve, NoVisit, VisitRec, VisitAt
<1>2. LinksTypeOK' /\ Unseen' /\ FilesOfFolders'
  BY <1>1 DEF LInv, LinksTypeOK, VisitRec, Unseen, FilesOfFolders, NoVisit
<1>3. ASSUME NEW l \in Links
      PROVE  /\ Uncounted(l)' = Uncounted(l) \ {v} /\ Unserved(l)' = Unserved(l) \ {v}
             /\ Uncounted(l)' \subseteq Uncounted(l) /\ Unserved(l)' \subseteq Unserved(l)
  <2>1. NoVisit # [at |-> "count", of |-> l] /\ NoVisit # [at |-> "serve", of |-> l]
    BY DEF NoVisit
  <2> QED  BY <1>1, <2>1 DEF Uncounted, Unserved, LInv, LinksTypeOK
<1>4. ASSUME NEW l \in Links
      PROVE  /\ views[l] \in Nat /\ served[l] \in Nat
             /\ served'[l] = IF l = k THEN served[l] + 1 ELSE served[l]
  BY <1>1 DEF LInv, LinksTypeOK
<1>5. Cardinality(Unserved(k)') = Cardinality(Unserved(k)) - 1
  BY <1>1, <1>3, Finite, FS_RemoveElement
<1>6. ASSUME NEW l \in Links, Limited(l)'
      PROVE  views[l] + Cardinality(Uncounted(l)') < maxViews[l] + Cardinality(Visitors)
  <2>1. Limited(l) /\ maxViews[l] \in Nat
    BY <1>1, <1>6 DEF Limited, LInv, LinksTypeOK
  <2>2. views[l] + Cardinality(Uncounted(l)) < maxViews[l] + Cardinality(Visitors)
    BY <2>1 DEF LInv, ViewsBounded
  <2>3. Cardinality(Uncounted(l)') \in Nat /\ Cardinality(Uncounted(l)') <= Cardinality(Uncounted(l))
    BY <1>3, Fewer
  <2> QED  BY <1>4, <2>1, <2>2, <2>3, Finite
<1>7. ASSUME NEW l \in Links
      PROVE  served'[l] + Cardinality(Unserved(l)') <= views[l] + SingleFiles(l)
  <2>1. SingleFiles(l) \in Nat /\ served[l] + Cardinality(Unserved(l)) <= views[l] + SingleFiles(l)
    BY SingleFilesNat
  <2>2. Cardinality(Unserved(l)') \in Nat /\ Cardinality(Unserved(l)') <= Cardinality(Unserved(l))
    BY <1>3, Fewer
  <2>3. CASE l = k
    BY <1>4, <1>5, <2>1, <2>3, Finite
  <2>4. CASE l # k
    BY <1>4, <2>1, <2>2, <2>4, Finite
  <2> QED  BY <2>3, <2>4
<1>8. ViewsBounded'
  BY <1>1, <1>6 DEF ViewsBounded
<1>9. ServedIsCounted'
  BY <1>1, <1>7 DEF ServedIsCounted, SingleFiles
<1> QED  BY <1>2, <1>8, <1>9 DEF LInv

LEMMA OpenFileKeeps ==
  ASSUME LInv, NEW v \in Visitors, NEW k \in Links, OpenFile(v, k)
  PROVE  LInv'
<1> DEFINE x == [at |-> "file", of |-> k]
<1>1. /\ x \in VisitRec /\ visit' = [visit EXCEPT ![v] = x] /\ linkRow[k] = "live" /\ k \in ofFolder
      /\ UNCHANGED <<linkRow, ofFolder, maxViews, views, lapsed, served, streamed>>
  BY DEF OpenFile, Open, VisitRec, VisitAt
<1>2. LinksTypeOK' /\ Unseen' /\ FilesOfFolders'
  BY <1>1 DEF LInv, LinksTypeOK, VisitRec, Unseen, FilesOfFolders
<1>3. \A l \in Links : x # [at |-> "count", of |-> l] /\ x # [at |-> "serve", of |-> l]
  OBVIOUS
<1>4. \A l \in Links : Uncounted(l)' \subseteq Uncounted(l) /\ Unserved(l)' \subseteq Unserved(l)
  BY <1>1, <1>3 DEF Uncounted, Unserved, LInv, LinksTypeOK
<1> QED  BY <1>1, <1>2, <1>4, LessKeeps

\* A single file goes out: one more of each, and the link is to a folder.
LEMMA ServeFileKeeps ==
  ASSUME LInv, NEW v \in Visitors, NEW k \in Links, ServeFile(v, k)
  PROVE  LInv'
<1>1. /\ k \in ofFolder /\ visit[v] = [at |-> "file", of |-> k]
      /\ served' = [served EXCEPT ![k] = @ + 1] /\ streamed' = [streamed EXCEPT ![k] = @ + 1]
      /\ visit' = [visit EXCEPT ![v] = NoVisit] /\ NoVisit \in VisitRec
      /\ UNCHANGED <<linkRow, ofFolder, maxViews, views, lapsed>>
  BY DEF ServeFile, NoVisit, VisitRec, VisitAt, LInv, FilesOfFolders
<1>2. LinksTypeOK' /\ Unseen' /\ FilesOfFolders'
  BY <1>1 DEF LInv, LinksTypeOK, VisitRec, Unseen, FilesOfFolders, NoVisit
<1>3. ASSUME NEW l \in Links
      PROVE  Uncounted(l)' = Uncounted(l) /\ Unserved(l)' = Unserved(l)
  <2>1. /\ NoVisit # [at |-> "count", of |-> l] /\ NoVisit # [at |-> "serve", of |-> l]
        /\ visit[v] # [at |-> "count", of |-> l] /\ visit[v] # [at |-> "serve", of |-> l]
    BY <1>1 DEF NoVisit
  <2> QED  BY <1>1, <2>1 DEF Uncounted, Unserved, LInv, LinksTypeOK
<1>4. ASSUME NEW l \in Links
      PROVE  served'[l] + Cardinality(Unserved(l)) <= views[l] + SingleFiles(l)'
  <2>1. /\ served[l] \in Nat /\ streamed[l] \in Nat /\ views[l] \in Nat
        /\ served'[l] = (IF l = k THEN served[l] + 1 ELSE served[l])
        /\ SingleFiles(l)' = (IF l = k THEN SingleFiles(l) + 1 ELSE SingleFiles(l))
    BY <1>1 DEF LInv, LinksTypeOK, SingleFiles
  <2> QED  BY <2>1, SingleFilesNat, Finite
<1>5. ViewsBounded'
  BY <1>1, <1>3 DEF LInv, ViewsBounded, Limited
<1>6. ServedIsCounted'
  BY <1>1, <1>3, <1>4 DEF ServedIsCounted, SingleFiles
<1> QED  BY <1>2, <1>5, <1>6 DEF LInv

\* Nobody has seen the link, so any limit is above what was counted.
LEMMA CreateKeeps ==
  ASSUME LInv, NEW k \in Links, NEW limit \in ViewLimits \cup {None}, CreateLink(k, limit)
  PROVE  LInv'
<1>1. /\ linkRow[k] = "none" /\ linkRow' = [linkRow EXCEPT ![k] = "live"]
      /\ ofFolder' \in {ofFolder, ofFolder \cup {k}} /\ maxViews' = [maxViews EXCEPT ![k] = limit]
      /\ UNCHANGED <<views, lapsed, visit, served, streamed>>
  BY DEF CreateLink
<1>2. LinksTypeOK' /\ Unseen' /\ FilesOfFolders'
  BY <1>1 DEF LInv, LinksTypeOK, Unseen, FilesOfFolders
<1>3. \A l \in Links : Uncounted(l)' = Uncounted(l) /\ Unserved(l)' = Unserved(l)
  BY <1>1 DEF Uncounted, Unserved
<1>4. ASSUME NEW l \in Links, Limited(l)'
      PROVE  views[l] + Cardinality(Uncounted(l)) < maxViews'[l] + Cardinality(Visitors)
  <2>1. CASE l = k
    <3>1. views[k] = 0 /\ Uncounted(k) = {}
      BY <1>1 DEF LInv, Unseen, Uncounted
    <3>2. Cardinality(Uncounted(k)) = 0
      BY <3>1, FS_EmptySet
    <3>3. maxViews'[l] \in Nat
      BY <1>2, <1>4 DEF LinksTypeOK, Limited
    <3> QED  BY <2>1, <3>1, <3>2, <3>3, Finite
  <2>2. CASE l # k
    BY <1>1, <1>4, <2>2 DEF LInv, LinksTypeOK, ViewsBounded, Limited
  <2> QED  BY <2>1, <2>2
<1>5. ViewsBounded'
  BY <1>1, <1>3, <1>4 DEF ViewsBounded
<1>6. ASSUME NEW l \in Links
      PROVE  served[l] + Cardinality(Unserved(l)) <= views[l] + SingleFiles(l)'
  <2>1. SingleFiles(l)' \in Nat /\ SingleFiles(l) <= SingleFiles(l)'
    BY <1>1 DEF LInv, LinksTypeOK, SingleFiles
  <2>2. views[l] \in Nat /\ served[l] \in Nat
    BY DEF LInv, LinksTypeOK
  <2> QED  BY <2>1, <2>2, SingleFilesNat, Finite
<1>7. ServedIsCounted'
  BY <1>1, <1>3, <1>6 DEF ServedIsCounted, SingleFiles
<1> QED  BY <1>2, <1>5, <1>7 DEF LInv

\* No visitor moves.
LEMMA RowKeeps ==
  ASSUME LInv, LinksTypeOK', UNCHANGED <<ofFolder, maxViews, views, visit, served, streamed>>,
         \A l \in Links : linkRow'[l] = "none" => linkRow[l] = "none"
  PROVE  LInv'
<1>1. Unseen' /\ FilesOfFolders'
  BY DEF LInv, Unseen, FilesOfFolders
<1>2. \A l \in Links : Uncounted(l)' = Uncounted(l) /\ Unserved(l)' = Unserved(l)
  BY DEF Uncounted, Unserved
<1> QED  BY <1>1, <1>2, LessKeeps

LEMMA LinksNext == LInv /\ [NextLinks]_linkVars => LInv'
<1> SUFFICES ASSUME LInv, [NextLinks]_linkVars PROVE LInv'
  OBVIOUS
<1>1. ASSUME NEW l \in Links, NEW limit \in ViewLimits \cup {None}, CreateLink(l, limit)
      PROVE  LInv'
  BY <1>1, CreateKeeps
<1>2. ASSUME NEW l \in Links, Lapse(l) PROVE LInv'
  <2>1. LinksTypeOK'
    BY <1>2 DEF Lapse, LInv, LinksTypeOK
  <2> QED  BY <1>2, <2>1, RowKeeps DEF Lapse
<1>3. ASSUME NEW l \in Links, DeleteLink(l) PROVE LInv'
  <2>1. LinksTypeOK' /\ \A k \in Links : linkRow'[k] = "none" => linkRow[k] = "none"
    BY <1>3 DEF DeleteLink, LInv, LinksTypeOK
  <2> QED  BY <1>3, <2>1, RowKeeps DEF DeleteLink
<1>4. ASSUME CleanLinks PROVE LInv'
  <2>1. LinksTypeOK' /\ \A k \in Links : linkRow'[k] = "none" => linkRow[k] = "none"
    BY <1>4 DEF CleanLinks, LInv, LinksTypeOK
  <2> QED  BY <1>4, <2>1, RowKeeps DEF CleanLinks
<1>5. ASSUME NEW v \in Visitors, Leave(v) PROVE LInv'
  BY <1>5, BackKeeps DEF Leave
<1>6. CASE UNCHANGED linkVars
  <2>1. LinksTypeOK'
    BY <1>6 DEF linkVars, LInv, LinksTypeOK
  <2> QED  BY <1>6, <2>1, RowKeeps DEF linkVars
<1> QED  BY <1>1, <1>2, <1>3, <1>4, <1>5, <1>6, OpenKeeps, CountKeeps, ServeKeeps,
         OpenFileKeeps, ServeFileKeeps
  DEF NextLinks

THEOREM LinksInv == LinksSpec => []LInv
BY LinksInit, LinksNext, PTL DEF LinksSpec

\* The rows, the counts and the visits keep their types.
THEOREM LinksTyping == LinksSpec => []LinksTypeOK
<1>1. LInv => LinksTypeOK
  BY DEF LInv
<1> QED  BY <1>1, LinksInv, PTL

\* The check of the view limit and the count are two calls, yet a limited
\* link is never overshot by as much as the number of requests in flight.
THEOREM Overshoot == LinksSpec => []ViewsBounded
<1>1. LInv => ViewsBounded
  BY DEF LInv
<1> QED  BY <1>1, LinksInv, PTL

\* Whatever is deleted or breaks off in between, what goes out through a link
\* to a file was counted, and of a link to a folder all but its single files.
THEOREM NothingUncounted == LinksSpec => []ServedIsCounted
<1>1. LInv => ServedIsCounted
  BY DEF LInv
<1> QED  BY <1>1, LinksInv, PTL
-----------------------------------------------------------------------------
(***************************************************************************)
(* The circuit breaker.  Inductive are Counted, that the counter holds at  *)
(* least the failures at the end of the history, although calls of long    *)
(* before end among those of now, and quiet <= wait.                       *)
(***************************************************************************)
\* The last k outcomes were failures.
Failing(list, k) == \A i \in (Len(list) - k + 1)..Len(list) : list[i] = "failed"

Counted == \A k \in 0..Len(outcomes) : Failing(outcomes, k) => k <= failures

BInv == BridgeTypeOK /\ Counted /\ quiet <= wait

USE BridgeAssumption

LEMMA BridgeInit == InitBridge => BInv
<1> SUFFICES ASSUME InitBridge PROVE BInv
  OBVIOUS
<1>1. outcomes \in Seq({"ok", "failed"}) /\ Len(outcomes) = 0
  BY DEF InitBridge
<1>2. BridgeTypeOK
  BY <1>1 DEF InitBridge, BridgeTypeOK
<1>3. Counted
  BY <1>1 DEF InitBridge, Counted
<1> QED  BY <1>2, <1>3 DEF BInv, InitBridge

\* What one more outcome makes of the history.
LEMMA RecentFacts ==
  ASSUME BridgeTypeOK, NEW o \in {"ok", "failed"}
  PROVE  /\ Recent(o) \in Seq({"ok", "failed"})
         /\ Len(Recent(o)) \in 1..Threshold
         /\ Recent(o)[Len(Recent(o))] = o
         /\ Len(Recent(o)) <= Len(outcomes) + 1
         /\ \A j \in 1..(Len(Recent(o)) - 1) :
              Recent(o)[Len(Recent(o)) - j] = outcomes[Len(outcomes) - j + 1]
<1> DEFINE all == Append(outcomes, o)
           n == Len(outcomes)
<1>1. /\ outcomes \in Seq({"ok", "failed"}) /\ n \in Nat /\ n <= Threshold
      /\ all \in Seq({"ok", "failed"}) /\ Len(all) = n + 1 /\ all[n + 1] = o
      /\ \A i \in 1..n : all[i] = outcomes[i]
  BY DEF BridgeTypeOK
<1> HIDE DEF all
<1>2. CASE n + 1 > Threshold
  <2>1. Recent(o) = Tail(all)
    BY <1>1, <1>2 DEF Recent, all
  <2>2. /\ Tail(all) \in Seq({"ok", "failed"}) /\ Len(Tail(all)) = n
        /\ \A i \in 1..n : Tail(all)[i] = all[i + 1]
    BY <1>1
  <2>3. n = Threshold
    BY <1>1, <1>2
  <2> QED  BY <1>1, <2>1, <2>2, <2>3
<1>3. CASE ~(n + 1 > Threshold)
  <2>1. Recent(o) = all
    BY <1>1, <1>3 DEF Recent, all
  <2> QED  BY <1>1, <1>3, <2>1
<1> QED  BY <1>2, <1>3

LEMMA SucceedCounted ==
  ASSUME BInv, outcomes' = Recent("ok"), failures' = 0
  PROVE  Counted'
<1>1. /\ Len(outcomes') \in 1..Threshold /\ outcomes'[Len(outcomes')] = "ok"
  BY RecentFacts DEF BInv
<1>2. ASSUME NEW k \in 0..Len(outcomes'), Failing(outcomes', k) PROVE k <= 0
  BY <1>1, <1>2 DEF Failing
<1> QED  BY <1>2 DEF Counted

LEMMA FailCounted ==
  ASSUME BInv, outcomes' = Recent("failed"),
         failures' = IF failures < Threshold THEN failures + 1 ELSE failures
  PROVE  Counted'
<1> DEFINE n == Len(outcomes)  m == Len(outcomes')
<1>1. /\ m \in 1..Threshold /\ m <= n + 1 /\ n \in Nat
      /\ \A j \in 1..(m - 1) : outcomes'[m - j] = outcomes[n - j + 1]
  BY RecentFacts DEF BInv, BridgeTypeOK
<1>2. failures \in 0..Threshold
  BY DEF BInv, BridgeTypeOK
<1>3. ASSUME NEW k \in 0..m, Failing(outcomes', k) PROVE k <= failures'
  <2>1. CASE k = 0
    BY <1>2, <2>1
  <2>2. CASE k > 0
    <3>1. k - 1 \in 0..n
      BY <1>1, <2>2
    <3>2. ASSUME NEW i \in (n - (k - 1) + 1)..n PROVE outcomes[i] = "failed"
      <4>1. n - i + 1 \in 1..(m - 1) /\ m - (n - i + 1) \in (m - k + 1)..m
        BY <1>1, <2>2
      <4>2. outcomes'[m - (n - i + 1)] = outcomes[n - (n - i + 1) + 1]
        BY <1>1, <4>1
      <4>3. outcomes'[m - (n - i + 1)] = "failed"
        BY <1>3, <4>1 DEF Failing
      <4>4. n - (n - i + 1) + 1 = i
        BY <1>1
      <4> QED  BY <4>2, <4>3, <4>4
    <3>3. k - 1 <= failures
      BY <3>1, <3>2 DEF BInv, Counted, Failing
    <3> QED  BY <1>1, <1>2, <3>3
  <2> QED  BY <2>1, <2>2
<1> QED  BY <1>3 DEF Counted

\* Threshold failures in a row are counted to the threshold.
LEMMA AllFailedCounted ==
  ASSUME BridgeTypeOK', Counted', AllFailed(outcomes')
  PROVE  failures' = Threshold
<1>1. Len(outcomes') = Threshold /\ Failing(outcomes', Threshold)
  BY DEF AllFailed, Failing
<1>2. Threshold <= failures' /\ failures' \in 0..Threshold
  BY <1>1 DEF Counted, BridgeTypeOK
<1> QED  BY <1>2

LEMMA SucceedKeeps ==
  ASSUME BInv, NEW c \in Callers, Succeed(c)
  PROVE  BInv'
<1>1. Counted'
  BY SucceedCounted DEF Succeed
<1>2. BridgeTypeOK'
  BY RecentFacts DEF BInv, BridgeTypeOK, Succeed
<1> QED  BY <1>1, <1>2 DEF BInv, Succeed

LEMMA FailKeeps ==
  ASSUME BInv, NEW c \in Callers, Fail(c)
  PROVE  BInv'
<1>1. Counted'
  BY FailCounted DEF Fail
<1>2. /\ outcomes' \in Seq({"ok", "failed"}) /\ Len(outcomes') <= Threshold
  BY RecentFacts DEF BInv, Fail
<1>3. /\ failures' \in 0..Threshold /\ wait' \in 0..Cooldown /\ quiet' \in 0..Cooldown
      /\ call' \in [Callers -> {"idle", "sent", "reading"}] /\ age' \in [Callers -> 0..Timeout]
  BY DEF BInv, BridgeTypeOK, Fail
<1>4. BridgeTypeOK'
  BY <1>2, <1>3 DEF BridgeTypeOK
<1>5. quiet' <= wait'
  <2>1. CASE AllFailed(outcomes')
    BY <1>1, <1>3, <1>4, <2>1, AllFailedCounted DEF Fail
  <2>2. CASE ~AllFailed(outcomes')
    BY <1>3, <2>2 DEF BInv, BridgeTypeOK, Fail
  <2> QED  BY <2>1, <2>2
<1> QED  BY <1>1, <1>4, <1>5 DEF BInv

LEMMA BridgeNext == BInv /\ [NextBridge]_bridgeVars => BInv'
<1> SUFFICES ASSUME BInv, [NextBridge]_bridgeVars PROVE BInv'
  OBVIOUS
<1>1. ASSUME NEW c \in Callers, Call(c) \/ Answer(c) PROVE BInv'
  BY <1>1 DEF Call, Answer, BInv, BridgeTypeOK, Counted
<1>2. ASSUME Tick PROVE BInv'
  <2>1. /\ wait \in Nat /\ quiet \in Nat /\ quiet <= wait
        /\ wait' = (IF wait > 0 THEN wait - 1 ELSE 0) /\ quiet' = (IF quiet > 0 THEN quiet - 1 ELSE 0)
    BY <1>2 DEF Tick, BInv, BridgeTypeOK
  <2>2. wait' \in 0..Cooldown /\ quiet' \in 0..Cooldown /\ quiet' <= wait'
    BY <1>2, <2>1 DEF Tick, BInv, BridgeTypeOK
  <2>3. age' \in [Callers -> 0..Timeout]
    BY <1>2 DEF Tick, BInv, BridgeTypeOK
  <2> QED  BY <1>2, <2>2, <2>3 DEF Tick, BInv, BridgeTypeOK, Counted
<1>3. CASE UNCHANGED bridgeVars
  BY <1>3 DEF bridgeVars, BInv, BridgeTypeOK, Counted
<1> QED
  BY <1>1, <1>2, <1>3, SucceedKeeps, FailKeeps DEF NextBridge, TurnAway

LEMMA BridgeInvariant == BridgeSpec => []BInv
BY BridgeInit, BridgeNext, PTL DEF BridgeSpec
-----------------------------------------------------------------------------
\* The counters and the history keep their types.
THEOREM BridgeTyping == BridgeSpec => []BridgeTypeOK
<1>1. BInv => BridgeTypeOK  BY DEF BInv
<1> QED  BY <1>1, BridgeInvariant, PTL

\* "Fails fast after 5 consecutive failures (30s cooldown)": no call reaches
\* the storage service within Cooldown of Threshold failures in a row, also
\* when calls from before the trip end, well or badly, after it.
THEOREM Alone == BridgeSpec => LeftAlone
<1>1. BInv /\ [NextBridge]_bridgeVars =>
        [\A c \in Callers : call[c] = "idle" /\ call'[c] # "idle" => quiet = 0]_bridgeVars
  <2> SUFFICES ASSUME BInv, NextBridge, NEW c \in Callers, call[c] = "idle", call'[c] # "idle"
               PROVE  quiet = 0
    OBVIOUS
  <2>1. PICK d \in Callers : Call(d)
    BY DEF NextBridge, TurnAway, Answer, Succeed, Fail, Tick, bridgeVars, BInv, BridgeTypeOK
  <2> QED  BY <2>1 DEF Call, BInv, BridgeTypeOK
<1> QED  BY <1>1, BridgeInvariant, PTL DEF BridgeSpec, LeftAlone

(***************************************************************************)
(* The part of ClosesAgain that needs no fairness: what an open breaker    *)
(* still has before it is a pair that only goes down, the requests in      *)
(* flight first and the cool-down second.                                  *)
(***************************************************************************)
InFlight == {c \in Callers : call[c] # "idle"}

Prolongs == wait' > wait

RunsDown ==
  [][wait > 0 =>
       /\ InFlight' \subseteq InFlight
       /\ Prolongs => InFlight' # InFlight
       /\ Tick => InFlight' = InFlight /\ wait' = wait - 1]_bridgeVars

\* While the breaker is open no retry gets into flight, each tick brings it
\* nearer to closing, and each time it is prolonged one of the requests that
\* were in flight when it opened is gone: it is prolonged no more often than there
\* were such requests.
THEOREM OpenRunsDown == BridgeSpec => RunsDown
<1>1. ASSUME BInv, NextBridge, wait > 0
      PROVE  /\ InFlight' \subseteq InFlight
             /\ Prolongs => InFlight' # InFlight
             /\ Tick => InFlight' = InFlight /\ wait' = wait - 1
  <2>1. wait \in 0..Cooldown /\ call \in [Callers -> {"idle", "sent", "reading"}]
    BY <1>1 DEF BInv, BridgeTypeOK
  <2>2. Tick => InFlight' = InFlight /\ wait' = wait - 1
    BY <1>1, <2>1 DEF Tick, InFlight
  <2>3. ASSUME NEW c \in Callers, Call(c) \/ TurnAway(c) \/ Answer(c) \/ Succeed(c)
        PROVE  InFlight' \subseteq InFlight /\ ~Prolongs
    BY <1>1, <2>1, <2>3
       DEF Call, TurnAway, Answer, Succeed, bridgeVars, InFlight, Prolongs
  <2>4. ASSUME NEW c \in Callers, Fail(c)
        PROVE  InFlight' \subseteq InFlight /\ InFlight' # InFlight
    <3>1. call[c] # "idle" /\ call' = [call EXCEPT ![c] = "idle"]
      BY <2>4 DEF Fail
    <3>2. c \in InFlight /\ c \notin InFlight'
      BY <2>1, <3>1 DEF InFlight
    <3> QED  BY <2>1, <3>1, <3>2 DEF InFlight
  <2>5. Tick => ~Prolongs
    BY <2>1, <2>2 DEF Prolongs
  <2> QED  BY <1>1, <2>2, <2>3, <2>4, <2>5 DEF NextBridge
<1> QED  BY <1>1, BridgeInvariant, PTL DEF BridgeSpec, RunsDown
-----------------------------------------------------------------------------
(***************************************************************************)
(* The composition.  The parts share no variable, so every behaviour of    *)
(* the whole is one of each part, the fairness of the bridge included.     *)
(***************************************************************************)
LEMMA StorageImplementsParts == Spec => UploadsSpec /\ FoldersSpec /\ LinksSpec /\ BridgeSpec
<1>1. Init => InitUploads /\ InitFolders /\ InitLinks /\ InitBridge
  BY DEF Init
<1>2. [Next]_<<part, uploadVars, folderVars, linkVars, bridgeVars>> =>
        /\ [NextUploads]_uploadVars /\ [NextFolders]_folderVars
        /\ [NextLinks]_linkVars /\ [NextBridge]_bridgeVars
  BY DEF Next
<1> QED  BY <1>1, <1>2, PTL DEF Spec, UploadsSpec, FoldersSpec, LinksSpec, BridgeSpec

\* StorageTypeOK: uploads, folders, share links and the bridge keep their types,
\* side by side.
THEOREM StorageTyping == Spec => []StorageTypeOK
<1>1. UploadTypeOK /\ FoldersTypeOK /\ LinksTypeOK /\ BridgeTypeOK => StorageTypeOK
  BY DEF StorageTypeOK
<1> QED
  BY <1>1, StorageImplementsParts, UploadTyping, FoldersTyping, LinksTyping, BridgeTyping, PTL

\* The safety that the run storage checks on a small instance holds of the
\* composition for all files, folders, links, visitors and callers, late and
\* early confirmations alike, while no two changes of the folder tree overlap.
THEOREM StorageHolds ==
  ASSUME ~FolderOverlap
  PROVE  Spec =>
           /\ [](UploadedHasObject /\ PrivateNotExposed /\ PathsAgree /\ ScopeIsSubtree
                 /\ ViewsBounded /\ ServedIsCounted)
           /\ InTimeKept /\ LeftAlone
<1> QED
  BY StorageImplementsParts, UploadedStored, PrivateKept, CleanUpKeeps, PathsKept, Scope,
     Overshoot, NothingUncounted, Alone, PTL
=============================================================================
