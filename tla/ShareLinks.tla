----------------------------- MODULE ShareLinks -----------------------------
(***************************************************************************)
(* Share links of the storage service: a link may expire, be deleted and   *)
(* be limited to a number of views.  A visitor's request reads the link    *)
(* with its view count, later adds one to the count in the database, and   *)
(* then serves the file or the folder page.  A single file of a shared     *)
(* folder is served after the same check without being counted.            *)
(***************************************************************************)
EXTENDS Naturals, FiniteSets

CONSTANTS
  Links,         \* link ids
  Visitors,      \* requests of visitors
  ViewLimits,    \* the values of maxViews that owners ask for
  None,          \* no limit of a link, no link of a visit
  MaxViewsSeen   \* bound: the views of a link, and the single files sent, that are followed

ASSUME LinkAssumption == /\ ViewLimits \subseteq Nat /\ None \notin Nat /\ None \notin Links
                         /\ IsFiniteSet(Visitors) /\ Visitors # {}
                         /\ MaxViewsSeen \in Nat

VARIABLES
  linkRow,   \* whether the row exists
  ofFolder,  \* the links to a folder; the others are to a file
  maxViews,  \* ShareLink.maxViews
  views,     \* ShareLink.views
  lapsed,    \* the links whose expiresAt has passed
  visit,     \* the requests of visitors
  served,    \* history: how often anything went out through a link
  streamed   \* history: how often it was a single file of a folder

linkVars == <<linkRow, ofFolder, maxViews, views, lapsed, visit, served, streamed>>

VisitAt == {"idle", "count", "serve", "file"}

\* A visit holds the link it has read.
NoVisit == [at |-> "idle", of |-> None]

LinksTypeOK ==
  /\ linkRow \in [Links -> {"none", "live", "gone"}]
  /\ maxViews \in [Links -> ViewLimits \cup {None}]
  /\ views \in [Links -> Nat] /\ served \in [Links -> Nat] /\ streamed \in [Links -> Nat]
  /\ ofFolder \in SUBSET Links /\ lapsed \in SUBSET Links
  /\ visit \in [Visitors -> [at : VisitAt, of : Links \cup {None}]]

InitLinks ==
  /\ linkRow = [l \in Links |-> "none"]
  /\ maxViews = [l \in Links |-> None]
  /\ views = [l \in Links |-> 0] /\ served = [l \in Links |-> 0] /\ streamed = [l \in Links |-> 0]
  /\ ofFolder = {} /\ lapsed = {}
  /\ visit = [v \in Visitors |-> NoVisit]

Limited(l) == maxViews[l] # None

\* The visits that have passed the check and are not counted yet.
Uncounted(l) == {v \in Visitors : visit[v] = [at |-> "count", of |-> l]}

\* The visits that are counted and not answered yet.
Unserved(l) == {v \in Visitors : visit[v] = [at |-> "serve", of |-> l]}
-----------------------------------------------------------------------------
\* Faulty: the last view is let through once more.
OpenLinkOnce(v, l) ==
  /\ visit[v] = NoVisit
  /\ linkRow[l] = "live" /\ l \notin lapsed
  /\ Limited(l) => views[l] <= maxViews[l]
  /\ views[l] < MaxViewsSeen
  /\ visit' = [visit EXCEPT ![v] = [at |-> "count", of |-> l]]
  /\ UNCHANGED <<linkRow, ofFolder, maxViews, views, lapsed, served, streamed>>

\* Faulty: the content goes out although the row is gone.
CountViewAnyhow(v, l) ==
  /\ v \in Uncounted(l)
  /\ views' = IF linkRow[l] = "live" THEN [views EXCEPT ![l] = @ + 1] ELSE views
  /\ visit' = [visit EXCEPT ![v].at = "serve"]
  /\ UNCHANGED <<linkRow, ofFolder, maxViews, lapsed, served, streamed>>
-----------------------------------------------------------------------------
CreateLink(l, limit) ==
  /\ linkRow[l] = "none"
  /\ linkRow' = [linkRow EXCEPT ![l] = "live"]
  /\ ofFolder' \in {ofFolder, ofFolder \cup {l}}
  /\ maxViews' = [maxViews EXCEPT ![l] = limit]
  /\ UNCHANGED <<views, lapsed, visit, served, streamed>>

Lapse(l) ==
  /\ linkRow[l] = "live"
  /\ lapsed' = lapsed \cup {l}
  /\ UNCHANGED <<linkRow, ofFolder, maxViews, views, visit, served, streamed>>

\* getShareLinkByToken, and the password the visitor knows.
Open(v, l) ==
  /\ visit[v] = NoVisit
  /\ linkRow[l] = "live" /\ l \notin lapsed
  /\ Limited(l) => views[l] < maxViews[l]

OpenLink(v, l) ==
  /\ Open(v, l)
  /\ views[l] < MaxViewsSeen  \* bound
  /\ visit' = [visit EXCEPT ![v] = [at |-> "count", of |-> l]]
  /\ UNCHANGED <<linkRow, ofFolder, maxViews, views, lapsed, served, streamed>>

\* incrementShareLinkViews; the update of a row that is gone throws.
CountView(v, l) ==
  /\ v \in Uncounted(l)
  /\ IF linkRow[l] = "live"
     THEN views' = [views EXCEPT ![l] = @ + 1] /\ visit' = [visit EXCEPT ![v].at = "serve"]
     ELSE UNCHANGED views /\ visit' = [visit EXCEPT ![v] = NoVisit]
  /\ UNCHANGED <<linkRow, ofFolder, maxViews, lapsed, served, streamed>>

Serve(v, l) ==
  /\ v \in Unserved(l)
  /\ served' = [served EXCEPT ![l] = @ + 1]
  /\ visit' = [visit EXCEPT ![v] = NoVisit]
  /\ UNCHANGED <<linkRow, ofFolder, maxViews, views, lapsed, streamed>>

\* A single file of a shared folder: nothing is counted.
OpenFile(v, l) ==
  /\ Open(v, l) /\ l \in ofFolder
  /\ streamed[l] < MaxViewsSeen  \* bound
  /\ visit' = [visit EXCEPT ![v] = [at |-> "file", of |-> l]]
  /\ UNCHANGED <<linkRow, ofFolder, maxViews, views, lapsed, served, streamed>>

ServeFile(v, l) ==
  /\ visit[v] = [at |-> "file", of |-> l]
  /\ served' = [served EXCEPT ![l] = @ + 1] /\ streamed' = [streamed EXCEPT ![l] = @ + 1]
  /\ visit' = [visit EXCEPT ![v] = NoVisit]
  /\ UNCHANGED <<linkRow, ofFolder, maxViews, views, lapsed>>

\* The visitor hangs up, the file or the folder is not there, or the process dies.
Leave(v) ==
  /\ visit[v] # NoVisit
  /\ visit' = [visit EXCEPT ![v] = NoVisit]
  /\ UNCHANGED <<linkRow, ofFolder, maxViews, views, lapsed, served, streamed>>

\* deleteShareLink, or the cascade from the file or the folder.
DeleteLink(l) ==
  /\ linkRow[l] = "live"
  /\ linkRow' = [linkRow EXCEPT ![l] = "gone"]
  /\ UNCHANGED <<ofFolder, maxViews, views, lapsed, visit, served, streamed>>

\* cleanupExpiredShareLinks, one statement.
CleanLinks ==
  /\ \E l \in lapsed : linkRow[l] = "live"
  /\ linkRow' = [l \in Links |-> IF l \in lapsed THEN "gone" ELSE linkRow[l]]
  /\ UNCHANGED <<ofFolder, maxViews, views, lapsed, visit, served, streamed>>
-----------------------------------------------------------------------------
NextLinks ==
  \/ \E l \in Links, limit \in ViewLimits \cup {None} : CreateLink(l, limit)
  \/ \E l \in Links : Lapse(l) \/ DeleteLink(l)
  \/ \E v \in Visitors, l \in Links :
       \/ OpenLink(v, l) \/ CountView(v, l) \/ Serve(v, l)
       \/ OpenFile(v, l) \/ ServeFile(v, l)
  \/ \E v \in Visitors : Leave(v)
  \/ CleanLinks

LinksSpec == InitLinks /\ [][NextLinks]_linkVars
-----------------------------------------------------------------------------
\* The check and the count of a view are two calls, so visits that come
\* together overshoot maxViews; but never by more than the other requests
\* that were in flight when the last view was granted.
ViewsBounded ==
  \A l \in Links : Limited(l) =>
    views[l] + Cardinality(Uncounted(l)) < maxViews[l] + Cardinality(Visitors)

\* What goes out through a link was counted before, whatever is deleted,
\* expires or breaks off in between; but for single files of a shared folder,
\* which no route counts.  A link to a file lets nothing out uncounted.
ServedIsCounted ==
  \A l \in Links :
    served[l] + Cardinality(Unserved(l)) <= views[l] + (IF l \in ofFolder THEN streamed[l] ELSE 0)
=============================================================================
