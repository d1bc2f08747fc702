--------------------------- MODULE RequestContext ---------------------------
(***************************************************************************)
(* How a request learns who its caller is: createContext looks into the    *)
(* user cache for the shard, reads the row from the database, refuses a    *)
(* caller who is not active, fills the cache behind its back and hands the *)
(* row to the guards of the resolver.  The row changes meanwhile, and the  *)
(* cache holds whatever fill came last.                                    *)
(*                                                                         *)
(* A row is known by its version, an index into the history of its images. *)
(* The invalidations of the cache after a change of the row may come late  *)
(* or, when Redis is down, never: Forget stands for them and for the TTL.  *)
(***************************************************************************)
EXTENDS Naturals, Sequences

CONSTANTS
  Calls,       \* requests with an access token of the user
  MaxVersions  \* bound: images of the row

ASSUME ContextAssumption == MaxVersions \in Nat \ {0}

VARIABLES
  images,  \* the images of User with its Workspace, the last of them the row
  entry,   \* the version in the user cache; 0 if there is none
  fills,   \* the versions that setUser calls on their way will put there
  ctx      \* the requests

contextVars == <<images, entry, fills, ctx>>

Images == [user : {"ACTIVE", "SUSPENDED", "INVITED", "gone"}, workspace : {"ACTIVE", "SUSPENDED", "ARCHIVED"}]
CallLabels == {"idle", "cache", "miss", "hinted", "scan", "check", "guard", "run"}
Versions == 1..MaxVersions

\* began is the version when the request came in, row the one it has read.
NoCall == [at |-> "idle", pending |-> FALSE, began |-> 0, row |-> 0]

ContextTypeOK ==
  /\ images \in Seq(Images) /\ Len(images) \in Versions
  /\ entry \in 0..Len(images)
  /\ fills \subseteq 1..Len(images)
  /\ ctx \in [Calls -> [at : CallLabels, pending : BOOLEAN, began : 0..MaxVersions, row : 0..MaxVersions]]

InitContext ==
  /\ images = <<[user |-> "ACTIVE", workspace |-> "ACTIVE"]>>
  /\ entry = 0 /\ fills = {}
  /\ ctx = [p \in Calls |-> NoCall]

Now == Len(images)
RowExists == images[Now].user # "gone"
Active(image) == image.user = "ACTIVE" /\ image.workspace = "ACTIVE"
InCall(p, label) == ctx[p].at = label
CallGoto(p, label) == ctx' = [ctx EXCEPT ![p].at = label]
CallEnds(p) == ctx' = [ctx EXCEPT ![p] = NoCall]
-----------------------------------------------------------------------------
\* Faulty: the cached row is as good as the database's.
ReadHintedCached(p) ==
  /\ InCall(p, "hinted")
  /\ IF entry # 0
     THEN ctx' = [ctx EXCEPT ![p].at = "check", ![p].row = entry]
     ELSE CallGoto(p, "scan")
  /\ UNCHANGED <<images, entry, fills>>
-----------------------------------------------------------------------------
\* Any mutation of the user or the workspace.
Change(image) ==
  /\ Now < MaxVersions /\ RowExists
  /\ images' = Append(images, image)
  /\ UNCHANGED <<entry, fills, ctx>>

ApplyFill(v) ==
  /\ v \in fills
  /\ entry' = v /\ fills' = fills \ {v}
  /\ UNCHANGED <<images, ctx>>

Forget ==
  /\ entry # 0
  /\ entry' = 0
  /\ UNCHANGED <<images, fills, ctx>>
-----------------------------------------------------------------------------
Arrive(p, pending) ==
  /\ InCall(p, "idle")
  /\ ctx' = [ctx EXCEPT ![p] = [at |-> "cache", pending |-> pending, began |-> Now, row |-> 0]]
  /\ UNCHANGED <<images, entry, fills>>

\* Without Redis, getUser reads the database as on a miss.
ReadCache(p) ==
  /\ InCall(p, "cache")
  /\ \/ entry # 0 /\ CallGoto(p, "hinted")
     \/ CallGoto(p, "miss")
  /\ UNCHANGED <<images, entry, fills>>

\* getUser fills the cache itself on a miss; it may fail.
FillOnMiss(p) ==
  /\ InCall(p, "miss")
  /\ \/ RowExists /\ fills' = fills \cup {Now} /\ CallGoto(p, "hinted")
     \/ UNCHANGED fills /\ CallGoto(p, "scan")
  /\ UNCHANGED <<images, entry>>

\* A hint to a shard that is gone or down only costs the entry.
ReadHinted(p) ==
  /\ InCall(p, "hinted")
  /\ \/ RowExists /\ ctx' = [ctx EXCEPT ![p].at = "check", ![p].row = Now] /\ UNCHANGED entry
     \/ CallGoto(p, "scan") /\ entry' \in {0, entry}
  /\ UNCHANGED <<images, fills>>

\* No row on any shard gives an empty context, an error ends the request.
Scan(p) ==
  /\ InCall(p, "scan")
  /\ \/ RowExists /\ ctx' = [ctx EXCEPT ![p].at = "check", ![p].row = Now] /\ UNCHANGED entry
     \/ CallEnds(p) /\ entry' \in {0, entry}
  /\ UNCHANGED <<images, fills>>

Admit(p) ==
  /\ InCall(p, "check") /\ (ctx[p].pending \/ Active(images[ctx[p].row]))
  /\ fills' = fills \cup {ctx[p].row}
  /\ CallGoto(p, "guard")
  /\ UNCHANGED <<images, entry>>

TurnDown(p) ==
  /\ InCall(p, "check") /\ ~ctx[p].pending /\ ~Active(images[ctx[p].row])
  /\ entry' = 0
  /\ CallEnds(p)
  /\ UNCHANGED <<images, fills>>

\* requireAuth and Protect; no resolver allows a pending second factor, a
\* suspended user or an inactive workspace.
Guard(p) ==
  /\ InCall(p, "guard")
  /\ IF ~ctx[p].pending /\ Active(images[ctx[p].row]) THEN CallGoto(p, "run") ELSE CallEnds(p)
  /\ UNCHANGED <<images, entry, fills>>

Return(p) ==
  /\ InCall(p, "run")
  /\ CallEnds(p)
  /\ UNCHANGED <<images, entry, fills>>
-----------------------------------------------------------------------------
NextContext ==
  \/ \E image \in Images : Change(image)
  \/ \E v \in fills : ApplyFill(v)
  \/ Forget
  \/ \E p \in Calls :
       \/ \E pending \in BOOLEAN : Arrive(p, pending)
       \/ ReadCache(p) \/ FillOnMiss(p) \/ ReadHinted(p) \/ Scan(p)
       \/ Admit(p) \/ TurnDown(p) \/ Guard(p) \/ Return(p)

ContextSpec == InitContext /\ [][NextContext]_contextVars
-----------------------------------------------------------------------------
\* A resolver runs for a caller who was active, in an active workspace, at
\* some time since the request came in, and who owes no second factor: a row
\* that a late fill left in the cache after its invalidation, or that the
\* cache kept while Redis was away, never decides.
RunsOnFreshRow ==
  \A p \in Calls : InCall(p, "run") =>
    /\ ctx[p].row >= ctx[p].began
    /\ Active(images[ctx[p].row])
    /\ ~ctx[p].pending
=============================================================================
