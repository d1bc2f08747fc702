--------------------------- MODULE WorkspaceProof ---------------------------
(***************************************************************************)
(* Who owns a workspace and what its members may do, for any users, roles, *)
(* permissions and number of requests: there is one owner, only that one   *)
(* hands over, what a member other than the owner may do has a source, and *)
(* the Admin role comes from the owner.                                    *)
(***************************************************************************)
EXTENDS Ownership, AccessGrants, TLAPS
-----------------------------------------------------------------------------
(***************************************************************************)
(* Ownership.  TypeOK and OneOwner are inductive together: nothing a request *)
(* read has to stay true, since the index and the foreign key judge each   *)
(* write by the rows as they are.                                          *)
(***************************************************************************)
OwnerInv == TypeOK /\ OneOwner

LEMMA OwnershipInit == Init => OwnerInv
BY FounderAssumption
   DEF Init, OwnerInv, TypeOK, OneOwner, UserType, UserStatus, Request, Labels, Idle

\* Steps of a request that write no table.
LEMMA ReadsKeep ==
  ASSUME OwnerInv, NEW p \in Procs, UNCHANGED <<ownerId, type, status>>,
         NEW r \in Request, h' = [h EXCEPT ![p] = r]
  PROVE  OwnerInv'
BY DEF OwnerInv, TypeOK, OneOwner

LEMMA IdleRequest == Idle \in Request
BY FounderAssumption DEF Idle, Request, Labels, UserStatus

LEMMA FinishType ==
  ASSUME TypeOK, NEW p \in Procs, Finish(p)
  PROVE  h' \in [Procs -> Request]
BY IdleRequest DEF Finish, TypeOK

LEMMA GotoType ==
  ASSUME TypeOK, NEW p \in Procs, NEW label \in Labels, Goto(p, label)
  PROVE  h' \in [Procs -> Request]
<1>1. h[p] \in Request  BY DEF TypeOK
<1>2. [h[p] EXCEPT !.pc = label] \in Request  BY <1>1 DEF Request
<1>3. h' = [h EXCEPT ![p] = [h[p] EXCEPT !.pc = label]]  BY DEF Goto
<1> QED  BY <1>2, <1>3 DEF TypeOK

LEMMA RowsKeep ==
  ASSUME OwnerInv, UNCHANGED <<ownerId, type, status>>, h' \in [Procs -> Request]
  PROVE  OwnerInv'
BY DEF OwnerInv, TypeOK, OneOwner

\* A committed transfer moves both halves of the ownership, or neither: the
\* index admits the promotion only when the caller was the owner or the target
\* already is.
LEMMA CommitKeeps ==
  ASSUME OwnerInv, NEW p \in Procs, Commit(p)
  PROVE  OwnerInv'
<1> DEFINE caller == h[p].caller
           target == h[p].target
           rows == [type EXCEPT ![caller] = "MEMBER", ![target] = "OWNER"]
<1>1. caller \in Users /\ target \in Users
  BY DEF OwnerInv, TypeOK, Request
<1>2. h' \in [Procs -> Request]
  BY FinishType DEF OwnerInv, Commit
<1>3. CASE Exists(caller) /\ Exists(target) /\ OwnerIndexAllows(rows)
  <2>1. type' = rows /\ ownerId' = target /\ status' = status
    BY <1>3 DEF Commit
  <2>2. rows \in [Users -> UserType \cup {"absent", "deleted"}]
    BY <1>1 DEF OwnerInv, TypeOK, UserType
  <2>3. rows[target] = "OWNER"
    BY <1>1 DEF OwnerInv, TypeOK
  <2>4. \A u \in Users : rows[u] = "OWNER" <=> u = target
    BY <1>1, <1>3, <2>3 DEF OwnerIndexAllows
  <2> QED
    BY <1>1, <1>2, <2>1, <2>2, <2>4 DEF OwnerInv, TypeOK, OneOwner
<1>4. CASE ~(Exists(caller) /\ Exists(target) /\ OwnerIndexAllows(rows))
  BY <1>2, <1>4, RowsKeep DEF Commit
<1> QED  BY <1>3, <1>4

LEMMA DeleteKeeps ==
  ASSUME OwnerInv, NEW p \in Procs, Delete(p)
  PROVE  OwnerInv'
<1>1. h[p].target \in Users  BY DEF OwnerInv, TypeOK, Request
<1>2. h' \in [Procs -> Request]  BY FinishType DEF OwnerInv, Delete
<1>3. CASE Exists(h[p].target) /\ ownerId # h[p].target
  <2>1. type' = [type EXCEPT ![h[p].target] = "deleted"] /\ UNCHANGED <<ownerId, status>>
    BY <1>3 DEF Delete
  <2> QED  BY <1>1, <1>2, <1>3, <2>1 DEF OwnerInv, TypeOK, OneOwner, UserType
<1>4. CASE ~(Exists(h[p].target) /\ ownerId # h[p].target)
  BY <1>2, <1>4, RowsKeep DEF Delete
<1> QED  BY <1>3, <1>4

LEMMA SetStatusKeeps ==
  ASSUME OwnerInv, NEW p \in Procs, SetStatus(p)
  PROVE  OwnerInv'
<1>1. h[p] \in Request  BY DEF OwnerInv, TypeOK
<1>2. h' \in [Procs -> Request]  BY FinishType DEF OwnerInv, SetStatus
<1>3. status' \in [Users -> UserStatus]
  BY <1>1 DEF OwnerInv, TypeOK, Request, SetStatus
<1> QED  BY <1>2, <1>3 DEF OwnerInv, TypeOK, OneOwner, SetStatus

LEMMA OwnershipNext == OwnerInv /\ [Next]_vars => OwnerInv'
<1> SUFFICES ASSUME OwnerInv, [Next]_vars PROVE OwnerInv'
  OBVIOUS
<1>1. ASSUME NEW p \in Procs, NEW u \in Users, NEW v \in Users, CallTransfer(p, u, v)
      PROVE  OwnerInv'
  <2> DEFINE r == [pc |-> "readOwner", caller |-> u, target |-> v, status |-> "ACTIVE"]
  <2>1. r \in Request  BY <1>1 DEF Request, Labels, UserStatus
  <2> QED  BY <1>1, <2>1, ReadsKeep DEF CallTransfer
<1>2. ASSUME NEW p \in Procs, NEW u \in Users, NEW new \in UserStatus, CallSetStatus(p, u, new)
      PROVE  OwnerInv'
  <2> DEFINE r == [pc |-> "setStatus", caller |-> Founder, target |-> u, status |-> new]
  <2>1. r \in Request  BY <1>2, FounderAssumption DEF Request, Labels
  <2> QED  BY <1>2, <2>1, ReadsKeep DEF CallSetStatus
<1>3. ASSUME NEW p \in Procs, NEW u \in Users, CallDelete(p, u)
      PROVE  OwnerInv'
  <2> DEFINE r == [pc |-> "delete", caller |-> Founder, target |-> u, status |-> "ACTIVE"]
  <2>1. r \in Request  BY <1>3, FounderAssumption DEF Request, Labels, UserStatus
  <2> QED  BY <1>3, <2>1, ReadsKeep DEF CallDelete
<1>4. ASSUME NEW p \in Procs, ReadOwner(p) PROVE OwnerInv'
  <2>1. Goto(p, "readTarget") \/ Finish(p)  BY <1>4 DEF ReadOwner
  <2>2. h' \in [Procs -> Request]  BY <2>1, GotoType, FinishType DEF OwnerInv, Labels
  <2> QED  BY <1>4, <2>2, RowsKeep DEF ReadOwner
<1>5. ASSUME NEW p \in Procs, ReadTarget(p) PROVE OwnerInv'
  <2>1. Goto(p, "transfer") \/ Finish(p)  BY <1>5 DEF ReadTarget
  <2>2. h' \in [Procs -> Request]  BY <2>1, GotoType, FinishType DEF OwnerInv, Labels
  <2> QED  BY <1>5, <2>2, RowsKeep DEF ReadTarget
<1>6. ASSUME NEW p \in Procs, Commit(p) PROVE OwnerInv'
  BY <1>6, CommitKeeps
<1>7. ASSUME NEW p \in Procs, SetStatus(p) PROVE OwnerInv'
  BY <1>7, SetStatusKeeps
<1>8. ASSUME NEW p \in Procs, Delete(p) PROVE OwnerInv'
  BY <1>8, DeleteKeeps
<1>9. ASSUME NEW p \in Procs, Crash(p) PROVE OwnerInv'
  BY <1>9, FinishType, RowsKeep DEF OwnerInv, Crash
<1>10. ASSUME NEW u \in Users, CreateUser(u) PROVE OwnerInv'
  BY <1>10 DEF OwnerInv, TypeOK, OneOwner, CreateUser, UserType, requests
<1>11. CASE UNCHANGED vars
  BY <1>11, RowsKeep DEF vars, OwnerInv, TypeOK
<1> QED
  BY <1>1, <1>2, <1>3, <1>4, <1>5, <1>6, <1>7, <1>8, <1>9, <1>10, <1>11 DEF Next

\* The rows and the requests keep their types, and OneOwner holds, in every
\* behaviour: the invariant the other theorems rest on.
THEOREM OwnershipInvariance == Spec => []OwnerInv
<1> QED  BY OwnershipInit, OwnershipNext, PTL DEF Spec

\* However transfers, deletions and status changes interleave, the user named by
\* Workspace.ownerId exists and is the only OWNER of the workspace.
THEOREM SingleOwner == Spec => []OneOwner
<1>1. OwnerInv => OneOwner  BY DEF OwnerInv
<1> QED  BY <1>1, OwnershipInvariance, PTL

\* Requests and rows keep their types.
THEOREM OwnershipTyping == Spec => []TypeOK
<1>1. OwnerInv => TypeOK  BY DEF OwnerInv
<1> QED  BY <1>1, OwnershipInvariance, PTL

LEMMA HandOverStep ==
  OwnerInv /\ [Next]_vars =>
    (ownerId' # ownerId =>
       \E p \in Procs : At(p, "transfer") /\ h[p].caller = ownerId /\ h[p].target = ownerId')
<1> SUFFICES ASSUME OwnerInv, [Next]_vars, ownerId' # ownerId
             PROVE  \E p \in Procs :
                      At(p, "transfer") /\ h[p].caller = ownerId /\ h[p].target = ownerId'
  OBVIOUS
<1>1. PICK p \in Procs : Commit(p)
  BY DEF Next, vars, CallTransfer, CallSetStatus, CallDelete, ReadOwner, ReadTarget, SetStatus,
         Delete, Crash, CreateUser
<1> DEFINE caller == h[p].caller
           target == h[p].target
           rows == [type EXCEPT ![caller] = "MEMBER", ![target] = "OWNER"]
<1>2. At(p, "transfer") /\ ownerId' = target /\ OwnerIndexAllows(rows)
  BY <1>1 DEF Commit
<1>3. caller \in Users /\ target \in Users /\ ownerId \in Users
  BY DEF OwnerInv, TypeOK, Request
<1>4. rows[target] = "OWNER" /\ type[ownerId] = "OWNER"
  BY <1>3 DEF OwnerInv, TypeOK, OneOwner
\* Else the old owner's row still says OWNER when the target's does.
<1>5. caller = ownerId
  <2> SUFFICES ASSUME caller # ownerId PROVE FALSE
    OBVIOUS
  <2>1. rows[ownerId] = "OWNER"
    BY <1>2, <1>3, <1>4 DEF OwnerInv, TypeOK
  <2> QED  BY <1>2, <1>3, <1>4, <2>1 DEF OwnerIndexAllows
<1> QED  BY <1>2, <1>5

\* Ownership changes hands only in a transfer called by the user that owns the
\* workspace at its commit, although the transaction checked that much earlier
\* and holds no lock on what it checked.
THEOREM HandOver == Spec => OnlyOwnerHandsOver
<1> QED  BY OwnershipInvariance, HandOverStep, PTL DEF Spec, OnlyOwnerHandsOver

(***************************************************************************)
(* OwnerActive, which the run ownership_suspended violates.  What is needed *)
(* is only that no change of a member's status spans the end of a transfer *)
(* to that member.                                                         *)
(***************************************************************************)
Apart ==
  \A p, q \in Procs : At(p, "transfer") /\ At(q, "setStatus") => h[p].target # h[q].target

\* The owner is active, whoever is about to become owner is, and no write of a
\* status that is under way will meet the owner.
ActiveInv ==
  /\ OwnerActive
  /\ \A p \in Procs : At(p, "transfer") => status[h[p].target] = "ACTIVE"
  /\ \A p \in Procs : At(p, "setStatus") => h[p].target # ownerId

\* A request that finishes or moves on, and writes nothing.
LEMMA ActiveWaits ==
  ASSUME OwnerInv, ActiveInv, NEW p \in Procs, UNCHANGED <<ownerId, type, status>>,
         NEW r \in Request, h' = [h EXCEPT ![p] = r],
         r.pc = "transfer" => status[r.target] = "ACTIVE",
         r.pc = "setStatus" => r.target # ownerId
  PROVE  ActiveInv'
<1>1. \A q \in Procs : h'[q] = IF q = p THEN r ELSE h[q]
  BY DEF OwnerInv, TypeOK
<1> QED  BY <1>1 DEF ActiveInv, OwnerActive, At

LEMMA ActiveNext == OwnerInv /\ ActiveInv /\ Apart /\ [Next]_vars => ActiveInv'
<1> SUFFICES ASSUME OwnerInv, ActiveInv, Apart, [Next]_vars PROVE ActiveInv'
  OBVIOUS
<1>1. /\ ownerId \in Users /\ type[ownerId] = "OWNER"
      /\ \A p \in Procs : h[p] \in Request /\ h[p].caller \in Users /\ h[p].target \in Users
  BY DEF OwnerInv, TypeOK, OneOwner, Request
<1>2. Idle \in Request /\ Idle.pc = "idle"
  BY IdleRequest DEF Idle
<1>3. ASSUME NEW p \in Procs, Finish(p) PROVE \A q \in Procs : h'[q] = IF q = p THEN Idle ELSE h[q]
  BY <1>3 DEF Finish, OwnerInv, TypeOK
<1>4. ASSUME NEW p \in Procs, NEW u \in Users, NEW v \in Users, CallTransfer(p, u, v)
      PROVE  ActiveInv'
  <2> DEFINE r == [pc |-> "readOwner", caller |-> u, target |-> v, status |-> "ACTIVE"]
  <2>1. r \in Request  BY <1>4 DEF Request, Labels, UserStatus
  <2> QED  BY <1>4, <2>1, ActiveWaits DEF CallTransfer
<1>5. ASSUME NEW p \in Procs, NEW u \in Users, NEW new \in UserStatus, CallSetStatus(p, u, new)
      PROVE  ActiveInv'
  <2> DEFINE r == [pc |-> "setStatus", caller |-> Founder, target |-> u, status |-> new]
  <2>1. r \in Request  BY <1>5, FounderAssumption DEF Request, Labels
  <2>2. u # ownerId  BY <1>1, <1>5 DEF CallSetStatus
  <2> QED  BY <1>5, <2>1, <2>2, ActiveWaits DEF CallSetStatus
<1>6. ASSUME NEW p \in Procs, NEW u \in Users, CallDelete(p, u)
      PROVE  ActiveInv'
  <2> DEFINE r == [pc |-> "delete", caller |-> Founder, target |-> u, status |-> "ACTIVE"]
  <2>1. r \in Request  BY <1>6, FounderAssumption DEF Request, Labels, UserStatus
  <2> QED  BY <1>6, <2>1, ActiveWaits DEF CallDelete
<1>7. ASSUME NEW p \in Procs, ReadOwner(p) \/ ReadTarget(p) PROVE ActiveInv'
  <2>1. CASE Finish(p)
    BY <1>2, <1>7, <2>1, ActiveWaits DEF Finish, ReadOwner, ReadTarget
  <2>2. CASE ReadOwner(p) /\ Goto(p, "readTarget")
    <3> DEFINE r == [h[p] EXCEPT !.pc = "readTarget"]
    <3>1. r \in Request /\ r.pc = "readTarget"  BY <1>1 DEF Request, Labels
    <3>2. h' = [h EXCEPT ![p] = r]  BY <2>2 DEF Goto
    <3> QED  BY <2>2, <3>1, <3>2, ActiveWaits DEF ReadOwner
  <2>3. CASE ReadTarget(p) /\ Goto(p, "transfer")
    <3> DEFINE r == [h[p] EXCEPT !.pc = "transfer"]
    <3>1. r \in Request /\ r.pc = "transfer" /\ r.target = h[p].target
      BY <1>1 DEF Request, Labels
    <3>2. h' = [h EXCEPT ![p] = r]  BY <2>3 DEF Goto
    <3>3. status[h[p].target] = "ACTIVE" \/ Finish(p)  BY <2>3 DEF ReadTarget
    <3> QED  BY <2>1, <2>3, <3>1, <3>2, <3>3, ActiveWaits DEF ReadTarget
  <2> QED  BY <1>7, <2>1, <2>2, <2>3 DEF ReadOwner, ReadTarget
<1>8. ASSUME NEW p \in Procs, Commit(p) PROVE ActiveInv'
  <2>1. At(p, "transfer") /\ Finish(p) /\ UNCHANGED status /\ ownerId' \in {ownerId, h[p].target}
    BY <1>8 DEF Commit
  <2> QED  BY <1>2, <1>3, <2>1 DEF ActiveInv, OwnerActive, Apart, At
<1>9. ASSUME NEW p \in Procs, SetStatus(p) PROVE ActiveInv'
  <2>1. /\ At(p, "setStatus") /\ Finish(p) /\ UNCHANGED ownerId
        /\ \A u \in Users : u # h[p].target => status'[u] = status[u]
    BY <1>1, <1>9 DEF SetStatus, OwnerInv, TypeOK
  <2> QED  BY <1>1, <1>2, <1>3, <2>1 DEF ActiveInv, OwnerActive, Apart, At
<1>10. ASSUME NEW p \in Procs, Delete(p) \/ Crash(p) PROVE ActiveInv'
  <2>1. Finish(p) /\ UNCHANGED <<ownerId, status>>
    BY <1>10 DEF Delete, Crash
  <2> QED  BY <1>2, <1>3, <2>1 DEF ActiveInv, OwnerActive, At
<1>11. ASSUME NEW u \in Users, CreateUser(u) PROVE ActiveInv'
  BY <1>11 DEF CreateUser, requests, ActiveInv, OwnerActive, At
<1>12. CASE UNCHANGED vars
  BY <1>12 DEF vars, ActiveInv, OwnerActive, At
<1> QED
  BY <1>4, <1>5, <1>6, <1>7, <1>8, <1>9, <1>10, <1>11, <1>12 DEF Next

\* "The workspace owner cannot be suspended": true as long as no status change of
\* a member is between its check and its write when a transfer to that member is
\* between its own, whatever else interleaves.
THEOREM OwnerStaysActive == Spec /\ []Apart => []OwnerActive
<1>1. Init => ActiveInv
  BY FounderAssumption DEF Init, Idle, ActiveInv, OwnerActive, At
<1>2. ActiveInv => OwnerActive  BY DEF ActiveInv
<1> QED  BY <1>1, <1>2, OwnershipInvariance, ActiveNext, PTL DEF Spec
-----------------------------------------------------------------------------
(***************************************************************************)
(* Access grants.  Inductive are Sources, on the rows, and Requests, on what *)
(* a request carries from its checks to its write: one that does not act for *)
(* the owner carries no permission without a source, and never Admin.      *)
(***************************************************************************)
Sources ==
  /\ rolePerms[Admin] = Permissions
  /\ \A r \in Roles \ {Admin} : rolePerms[r] \subseteq released
  /\ \A u \in Members : custom[u] \subseteq released
  /\ \A u \in Members : Admin \in held[u] => Permissions \subseteq released

Harmless(g) ==
  ~g.asOwner =>
    /\ g.mine \subseteq released /\ g.perms \subseteq released
    /\ g.at = "write" /\ g.op # "dropRoles" => Admin \notin g.roles
    /\ g.op = "setCustom" => Admin \notin g.roles

Requests == \A p \in Grants : Harmless(grant[p])

GInv == GrantsTypeOK /\ Sources /\ Requests

GrantRec == [op : GrantOps, at : GrantLabels, asOwner : BOOLEAN,
             mine : SUBSET Permissions, target : Members,
             roles : SUBSET Roles, perms : SUBSET Permissions]

USE GrantsAssumption

LEMMA NoGrantRec == NoGrant \in GrantRec
BY DEF NoGrant, GrantRec, GrantOps, GrantLabels, GrantsTypeOK

LEMMA InitGInv == InitGrants => GInv
BY NoGrantRec DEF InitGrants, GInv, GrantsTypeOK, Sources, Requests, Harmless, NoGrant, GrantRec

\* What a member may do, unless it is the owner, has a source.
LEMMA EffectiveHasSource ==
  ASSUME GInv, NEW u \in Members, u # owner
  PROVE  Effective(u) \subseteq released
BY DEF GInv, GrantsTypeOK, Sources, Effective

LEMMA EffectiveType ==
  ASSUME GInv, NEW u \in Members
  PROVE  Effective(u) \subseteq Permissions
BY DEF GInv, GrantsTypeOK, Effective

\* A step that changes one request only, to a harmless one.
LEMMA RequestStep ==
  ASSUME GInv, NEW p \in Grants, NEW g \in GrantRec, Harmless(g),
         grant' = [grant EXCEPT ![p] = g],
         UNCHANGED <<memberVars, roleVars, released, writes>>
  PROVE  GInv'
<1>1. grant' \in [Grants -> GrantRec]
  BY DEF GInv, GrantsTypeOK, GrantRec
<1>2. GrantsTypeOK' /\ Sources'
  BY <1>1 DEF GInv, GrantsTypeOK, GrantRec, Sources, memberVars, roleVars
<1>3. Requests'
  BY DEF GInv, GrantsTypeOK, GrantRec, Requests, Harmless
<1> QED  BY <1>2, <1>3 DEF GInv

\* Releasing more never makes a request harmful.
LEMMA RequestsKeep ==
  ASSUME GInv, UNCHANGED grant, released \subseteq released'
  PROVE  Requests'
BY DEF GInv, Requests, Harmless

LEMMA EndHarmless == Harmless(NoGrant)
BY DEF Harmless, NoGrant

LEMMA AskKeeps ==
  ASSUME GInv, NEW p \in Grants, NEW u \in Members, NEW op \in GrantOps,
         NEW label \in {"target", "roles"}, NEW target \in Members,
         NEW roles \in SUBSET Roles, NEW perms \in SUBSET Permissions,
         op = "setCustom" => roles = {}, perms = {} \/ MayGive(u, perms),
         Ask(p, u, op, label, target, roles, perms)
  PROVE  GInv'
<1> DEFINE g == [op |-> op, at |-> label, asOwner |-> (u = owner), mine |-> Effective(u),
                 target |-> target, roles |-> roles, perms |-> perms]
<1>1. g \in GrantRec
  BY EffectiveType DEF GrantRec, GrantLabels
<1>2. Harmless(g)
  BY EffectiveHasSource DEF Harmless, MayGive
<1> QED  BY <1>1, <1>2, RequestStep DEF Ask

LEMMA GotoRec ==
  ASSUME GInv, NEW p \in Grants, NEW label \in GrantLabels, GrantGoto(p, label)
  PROVE  /\ [grant[p] EXCEPT !.at = label] \in GrantRec
         /\ grant' = [grant EXCEPT ![p] = [grant[p] EXCEPT !.at = label]]
BY DEF GInv, GrantsTypeOK, GrantRec, GrantGoto

LEMMA ReadMemberKeeps ==
  ASSUME GInv, NEW p \in Grants, ReadMember(p)
  PROVE  GInv'
<1> DEFINE label == IF grant[p].op = "setCustom" THEN "write" ELSE "roles"
<1>1. UNCHANGED <<memberVars, roleVars, released, writes>>
  BY DEF ReadMember
<1>2. CASE GrantEnds(p)
  BY <1>1, <1>2, NoGrantRec, EndHarmless, RequestStep DEF GrantEnds
<1>3. CASE GrantGoto(p, label)
  <2>1. label \in GrantLabels  BY DEF GrantLabels
  <2>2. Harmless([grant[p] EXCEPT !.at = label])
    <3>1. Harmless(grant[p]) /\ grant[p] \in GrantRec
      BY DEF GInv, Requests, GrantsTypeOK, GrantRec
    <3> QED  BY <3>1 DEF Harmless, GrantRec
  <2> HIDE DEF label
  <2> QED  BY <1>1, <1>3, <2>1, <2>2, GotoRec, RequestStep
<1> QED  BY <1>2, <1>3 DEF ReadMember

LEMMA CheckRolesKeeps ==
  ASSUME GInv, NEW p \in Grants, CheckRoles(p)
  PROVE  GInv'
<1>1. UNCHANGED <<memberVars, roleVars, released, writes>>
  BY DEF CheckRoles
<1>2. CASE GrantEnds(p)
  BY <1>1, <1>2, NoGrantRec, EndHarmless, RequestStep DEF GrantEnds
<1>3. CASE ~GrantEnds(p)
  <2>1. GrantGoto(p, "write")
    BY <1>3 DEF CheckRoles
  <2>2. grant[p].asOwner \/ grant[p].op = "dropRoles" \/ Admin \notin grant[p].roles
    BY <1>3 DEF CheckRoles
  <2>3. Harmless([grant[p] EXCEPT !.at = "write"])
    <3>1. Harmless(grant[p]) /\ grant[p] \in GrantRec
      BY DEF GInv, Requests, GrantsTypeOK, GrantRec
    <3> QED  BY <2>2, <3>1 DEF Harmless, GrantRec
  <2>4. "write" \in GrantLabels  BY DEF GrantLabels
  <2> QED  BY <1>1, <2>1, <2>3, <2>4, GotoRec, RequestStep
<1> QED  BY <1>2, <1>3

\* Releasing more never makes a request harmful, nor does its end.
LEMMA RequestsEnd ==
  ASSUME GInv, NEW p \in Grants, GrantEnds(p), released \subseteq released'
  PROVE  Requests' /\ grant' \in [Grants -> GrantRec]
<1>1. grant' \in [Grants -> GrantRec]
  BY NoGrantRec DEF GInv, GrantsTypeOK, GrantRec, GrantEnds
<1>2. \A q \in Grants : grant'[q] = IF q = p THEN NoGrant ELSE grant[q]
  BY DEF GInv, GrantsTypeOK, GrantEnds
<1>3. \A q \in Grants : Harmless(grant[q])
  BY DEF GInv, Requests
<1>4. Requests'
  BY <1>2, <1>3 DEF Requests, Harmless, NoGrant
<1> QED  BY <1>1, <1>4

LEMMA WriteKeeps ==
  ASSUME GInv, NEW p \in Grants, Write(p)
  PROVE  GInv'
<1> DEFINE op == grant[p].op  target == grant[p].target  roles == grant[p].roles
           perms == grant[p].perms
           roles2 == CASE op \in {"setRoles", "create"} -> roles
                       [] op = "addRoles" -> held[target] \cup roles
                       [] op = "dropRoles" -> held[target] \ roles
                       [] OTHER -> held[target]
           Done == /\ IF op = "create" THEN target \notin past ELSE target \in present
                   /\ op = "dropRoles" \/ roles \subseteq live
<1>1. /\ grant[p] \in GrantRec /\ Harmless(grant[p]) /\ grant[p].at = "write"
      /\ GrantEnds(p) /\ UNCHANGED <<owner, roleVars>> /\ writes' \in 0..MaxWrites
  BY DEF GInv, Requests, GrantsTypeOK, GrantRec, Write, GrantAt, Changes
<1>2. target \in Members /\ roles \subseteq Roles /\ perms \subseteq Permissions
  BY <1>1 DEF GrantRec
<1>3. roles2 \subseteq Roles
  BY <1>2 DEF GInv, GrantsTypeOK
<1>4. CASE ~Done
  <2>1. UNCHANGED <<present, past, held, custom, released>>
    BY <1>4 DEF Write
  <2>2. Requests' /\ grant' \in [Grants -> GrantRec]
    BY <1>1, <2>1, RequestsEnd
  <2>3. GrantsTypeOK' /\ Sources'
    BY <1>1, <2>1, <2>2 DEF GInv, GrantsTypeOK, GrantRec, Sources, roleVars
  <2> QED  BY <2>2, <2>3 DEF GInv
<1>5. CASE Done
  <2>1. /\ present' = present \cup {target} /\ past' = past \cup {target}
        /\ held' = [held EXCEPT ![target] = roles2]
        /\ custom' = IF op \in {"setCustom", "create"} THEN [custom EXCEPT ![target] = perms] ELSE custom
        /\ released' = IF grant[p].asOwner
                       THEN released \cup perms \cup UNION {rolePerms[r] : r \in roles2}
                       ELSE released
    BY <1>5 DEF Write
  <2> HIDE DEF roles2
  <2>2. released \subseteq released' /\ released' \subseteq Permissions
    BY <1>2, <1>3, <2>1 DEF GInv, GrantsTypeOK
  <2>3. Requests' /\ grant' \in [Grants -> GrantRec]
    BY <1>1, <2>2, RequestsEnd
  <2>4. GrantsTypeOK'
    BY <1>1, <1>2, <1>3, <2>1, <2>2, <2>3 DEF GInv, GrantsTypeOK, GrantRec, roleVars
  <2>5. perms \subseteq released'
    BY <1>1, <2>1 DEF Harmless
  <2>6. Admin \in roles2 => Permissions \subseteq released'
    <3>1. CASE grant[p].asOwner
      <4>1. Admin \in roles2 => rolePerms[Admin] \subseteq UNION {rolePerms[r] : r \in roles2}
        OBVIOUS
      <4> QED  BY <2>1, <3>1, <4>1 DEF GInv, Sources
    <3>2. CASE ~grant[p].asOwner
      <4>1. Admin \in roles2 => Admin \in held[target]
        BY <1>1, <3>2 DEF Harmless, roles2
      <4> QED  BY <1>2, <2>2, <4>1 DEF GInv, Sources
    <3> QED  BY <3>1, <3>2
  <2>7. Sources'
    BY <1>1, <1>2, <2>1, <2>2, <2>5, <2>6 DEF GInv, GrantsTypeOK, Sources, roleVars
  <2> QED  BY <2>3, <2>4, <2>7 DEF GInv
<1> QED  BY <1>4, <1>5

LEMMA GrantsNext == GInv /\ [NextGrants]_grantVars => GInv'
<1> SUFFICES ASSUME GInv, [NextGrants]_grantVars PROVE GInv'
  OBVIOUS
<1>1. ASSUME NEW p \in Grants, NEW u \in Members, NEW target \in Members, NEW roles \in SUBSET Roles,
             NEW op \in {"setRoles", "addRoles", "dropRoles"}, AskRoles(p, u, op, target, roles)
      PROVE  GInv'
  <2>1. op \in GrantOps /\ op # "setCustom"  BY DEF GrantOps
  <2> QED  BY <1>1, <2>1, AskKeeps DEF AskRoles
<1>2. ASSUME NEW p \in Grants, NEW u \in Members, NEW target \in Members,
             NEW perms \in SUBSET Permissions, AskSetCustom(p, u, target, perms)
      PROVE  GInv'
  BY <1>2, AskKeeps DEF AskSetCustom, GrantOps
<1>3. ASSUME NEW p \in Grants, NEW u \in Members, NEW target \in Members,
             NEW perms \in SUBSET Permissions, NEW roles \in SUBSET Roles,
             AskCreate(p, u, target, roles, perms)
      PROVE  GInv'
  BY <1>3, AskKeeps DEF AskCreate, GrantOps
<1>4. ASSUME NEW u \in Members, NEW r \in Roles, NEW perms \in SUBSET Permissions, EditRole(u, r, perms)
      PROVE  GInv'
  <2>1. Requests'  BY <1>4, RequestsKeep DEF EditRole
  <2>2. GrantsTypeOK' /\ Sources'
    BY <1>4 DEF EditRole, Changes, GInv, GrantsTypeOK, Sources, memberVars
  <2> QED  BY <2>1, <2>2 DEF GInv
<1>5. ASSUME NEW u \in Members, NEW r \in Roles, DeleteRole(u, r)
      PROVE  GInv'
  <2>1. Requests'  BY <1>5, RequestsKeep DEF DeleteRole
  <2>2. GrantsTypeOK' /\ Sources'
    BY <1>5 DEF DeleteRole, Changes, GInv, GrantsTypeOK, Sources
  <2> QED  BY <2>1, <2>2 DEF GInv
<1>6. ASSUME NEW u \in Members, Transfer(u) \/ Leave(u)
      PROVE  GInv'
  <2>1. Requests'  BY <1>6, RequestsKeep DEF Transfer, Leave, roleVars
  <2>2. GrantsTypeOK' /\ Sources'
    BY <1>6 DEF Transfer, Leave, Changes, GInv, GrantsTypeOK, Sources, roleVars
  <2> QED  BY <2>1, <2>2 DEF GInv
<1>7. CASE UNCHANGED grantVars
  <2>1. Requests'  BY <1>7, RequestsKeep DEF grantVars
  <2>2. GrantsTypeOK' /\ Sources'
    BY <1>7 DEF grantVars, GInv, GrantsTypeOK, Sources
  <2> QED  BY <2>1, <2>2 DEF GInv
<1>8. Free \subseteq Grants /\ present \subseteq Members
  BY DEF Free, GInv, GrantsTypeOK
<1> QED
  BY <1>1, <1>2, <1>3, <1>4, <1>5, <1>6, <1>7, <1>8, ReadMemberKeeps, CheckRolesKeeps, WriteKeeps
  DEF NextGrants

LEMMA GrantsInvariant == GrantsSpec => []GInv
<1>1. InitGrants => GInv  BY InitGInv
<1>2. GInv /\ [NextGrants]_grantVars => GInv'  BY GrantsNext
<1> QED  BY <1>1, <1>2, PTL DEF GrantsSpec
-----------------------------------------------------------------------------
\* Rows and requests keep their types.
THEOREM GrantsTyping == GrantsSpec => []GrantsTypeOK
<1>1. GInv => GrantsTypeOK  BY DEF GInv
<1> QED  BY <1>1, GrantsInvariant, PTL

\* What a member other than the owner may do was given out by an owner or
\* written into a role by an editor of roles, for any chain of requests that
\* check, wait and write (access-grant.policy.ts).
THEOREM HaveSource == GrantsSpec => []PermissionsHaveSource
<1>1. GInv => PermissionsHaveSource
  <2> SUFFICES ASSUME GInv, NEW u \in present \ {owner}
               PROVE  Effective(u) \subseteq released
    BY DEF PermissionsHaveSource
  <2>1. u \in Members  BY DEF GInv, GrantsTypeOK
  <2> QED  BY <2>1, EffectiveHasSource
<1> QED  BY <1>1, GrantsInvariant, PTL

\* The Admin role comes only from a request that acts for the owner.
THEOREM AdminSource == GrantsSpec => AdminFromOwner
<1> DEFINE A == \A u \in Members : Admin \in held'[u] \ held[u]
                  => \E p \in Grants : grant[p].asOwner /\ grant'[p] = NoGrant
<1>1. GInv /\ [NextGrants]_grantVars => [A]_grantVars
  <2> SUFFICES ASSUME GInv, NextGrants, NEW u \in Members, Admin \in held'[u], Admin \notin held[u]
               PROVE  \E p \in Grants : grant[p].asOwner /\ grant'[p] = NoGrant
    BY DEF GrantsTypeOK
  <2>1. PICK p \in Grants : Write(p)
    BY DEF NextGrants, Free, AskRoles, AskSetCustom, AskCreate, Ask, ReadMember, CheckRoles, EditRole,
           DeleteRole, Transfer, Leave, memberVars, GInv, GrantsTypeOK
  <2>2. /\ grant[p] \in GrantRec /\ Harmless(grant[p])
    BY DEF GInv, Requests, GrantsTypeOK, GrantRec
  <2>3. grant[p].asOwner
    BY <2>1, <2>2 DEF Write, GrantAt, Harmless, GInv, GrantsTypeOK, GrantRec
  <2>4. grant'[p] = NoGrant
    BY <2>1 DEF Write, GrantEnds, GInv, GrantsTypeOK
  <2> QED  BY <2>3, <2>4
<1> QED  BY <1>1, GrantsInvariant, PTL DEF GrantsSpec, AdminFromOwner
=============================================================================
