----------------------------- MODULE Ownership -----------------------------
(***************************************************************************)
(* Who owns a workspace: User.userType = OWNER and Workspace.ownerId, which*)
(* transferOwnership changes together, against the user-management         *)
(* mutations that check a member's row in one call and write it in a later *)
(* one.  Every row of a workspace is on one shard; workspaces do not       *)
(* share rows, so one is enough.                                           *)
(*                                                                         *)
(* Each awaited database call is a step.  The three writes of a transfer   *)
(* are one step: the first of them locks the row of the caller until the   *)
(* transaction ends, so that no two transfers by one owner overlap from    *)
(* there on, and a transfer by the next owner that meets those locks waits *)
(* or is rolled back.  The reads before them lock nothing (READ COMMITTED).*)
(*                                                                         *)
(* deleteUser marks and releases the email reservation around its delete;  *)
(* nothing here depends on that, and EmailReservation models it.           *)
(***************************************************************************)
CONSTANTS
  Users,   \* user ids; they are random UUIDs and never used twice
  Procs,   \* requests of all API instances
  Founder  \* the user that signup created with the workspace

ASSUME FounderAssumption == Founder \in Users

VARIABLES
  ownerId,  \* Workspace.ownerId
  type,     \* User.userType, or that there is no row yet or no more
  status,   \* User.status
  h         \* the requests

vars == <<ownerId, type, status, h>>
requests == h

UserType == {"OWNER", "MEMBER"}
UserStatus == {"ACTIVE", "SUSPENDED", "INVITED"}
Labels == {"idle", "readOwner", "readTarget", "transfer", "setStatus", "delete"}

\* A request holds its arguments; nothing it read survives in it.
Request == [pc : Labels, caller : Users, target : Users, status : UserStatus]

Idle == [pc |-> "idle", caller |-> Founder, target |-> Founder, status |-> "ACTIVE"]

TypeOK ==
  /\ ownerId \in Users
  /\ type \in [Users -> UserType \cup {"absent", "deleted"}]
  /\ status \in [Users -> UserStatus]
  /\ h \in [Procs -> Request]

Init ==
  /\ ownerId = Founder
  /\ type = [u \in Users |-> IF u = Founder THEN "OWNER" ELSE "absent"]
  /\ status = [u \in Users |-> "ACTIVE"]
  /\ h = [p \in Procs |-> Idle]

Exists(u) == type[u] \in UserType
At(p, label) == h[p].pc = label
Goto(p, label) == h' = [h EXCEPT ![p].pc = label]
Finish(p) == h' = [h EXCEPT ![p] = Idle]

\* The partial unique index User_one_owner_per_workspace.
OwnerIndexAllows(rows) == \A u, v \in Users : rows[u] = "OWNER" /\ rows[v] = "OWNER" => u = v
-----------------------------------------------------------------------------
\* Faulty: the promotion without the index.
CommitUnindexed(p) ==
  LET caller == h[p].caller  target == h[p].target IN
  /\ At(p, "transfer")
  /\ IF Exists(caller) /\ Exists(target)
     THEN /\ type' = [type EXCEPT ![caller] = "MEMBER", ![target] = "OWNER"]
          /\ ownerId' = target
     ELSE UNCHANGED <<type, ownerId>>
  /\ Finish(p) /\ UNCHANGED status

\* Faulty: the row goes although the workspace refers to it.
DeleteCascades(p) ==
  /\ At(p, "delete")
  /\ IF Exists(h[p].target)
     THEN type' = [type EXCEPT ![h[p].target] = "deleted"]
     ELSE UNCHANGED type
  /\ Finish(p) /\ UNCHANGED <<ownerId, status>>
-----------------------------------------------------------------------------
(***************************************************************************)
(* transferOwnership                                                       *)
(***************************************************************************)

\* requireAuth and assertIsOwner, on the row createContext has read.
CallTransfer(p, caller, target) ==
  /\ At(p, "idle")
  /\ type[caller] = "OWNER" /\ status[caller] = "ACTIVE"
  /\ target # caller
  /\ h' = [h EXCEPT ![p] = [pc |-> "readOwner", caller |-> caller, target |-> target,
                            status |-> "ACTIVE"]]
  /\ UNCHANGED <<ownerId, type, status>>

ReadOwner(p) ==
  /\ At(p, "readOwner")
  /\ IF ownerId = h[p].caller THEN Goto(p, "readTarget") ELSE Finish(p)
  /\ UNCHANGED <<ownerId, type, status>>

ReadTarget(p) ==
  LET target == h[p].target IN
  /\ At(p, "readTarget")
  /\ IF type[target] = "MEMBER" /\ status[target] = "ACTIVE"
     THEN Goto(p, "transfer")
     ELSE Finish(p)
  /\ UNCHANGED <<ownerId, type, status>>

\* Demote, promote, set ownerId.  A row that is gone or a second owner rolls
\* the transaction back.
Commit(p) ==
  LET caller == h[p].caller  target == h[p].target
      rows == [type EXCEPT ![caller] = "MEMBER", ![target] = "OWNER"] IN
  /\ At(p, "transfer")
  /\ IF Exists(caller) /\ Exists(target) /\ OwnerIndexAllows(rows)
     THEN type' = rows /\ ownerId' = target
     ELSE UNCHANGED <<type, ownerId>>
  /\ Finish(p) /\ UNCHANGED status
-----------------------------------------------------------------------------
(***************************************************************************)
(* updateUserStatus, deleteUser, createUser                                *)
(***************************************************************************)

\* getWorkspaceMember, assertNotOwnerTarget, assertCanSuspend
CallSetStatus(p, target, new) ==
  /\ At(p, "idle")
  /\ type[target] = "MEMBER"
  /\ h' = [h EXCEPT ![p] = [pc |-> "setStatus", caller |-> Founder, target |-> target,
                            status |-> new]]
  /\ UNCHANGED <<ownerId, type, status>>

SetStatus(p) ==
  LET target == h[p].target IN
  /\ At(p, "setStatus")
  /\ IF Exists(target)
     THEN status' = [status EXCEPT ![target] = h[p].status]
     ELSE UNCHANGED status
  /\ Finish(p) /\ UNCHANGED <<ownerId, type>>

CallDelete(p, target) ==
  /\ At(p, "idle")
  /\ type[target] = "MEMBER"
  /\ h' = [h EXCEPT ![p] = [pc |-> "delete", caller |-> Founder, target |-> target,
                            status |-> "ACTIVE"]]
  /\ UNCHANGED <<ownerId, type, status>>

\* The foreign key of Workspace.ownerId refuses to let the owner's row go.
Delete(p) ==
  LET target == h[p].target IN
  /\ At(p, "delete")
  /\ IF Exists(target) /\ ownerId # target
     THEN type' = [type EXCEPT ![target] = "deleted"]
     ELSE UNCHANGED type
  /\ Finish(p) /\ UNCHANGED <<ownerId, status>>

CreateUser(u) ==
  /\ type[u] = "absent"
  /\ type' = [type EXCEPT ![u] = "MEMBER"]
  /\ UNCHANGED <<ownerId, status, requests>>
-----------------------------------------------------------------------------
\* The process dies, or a call fails: an open transaction is rolled back.
Crash(p) ==
  /\ ~At(p, "idle")
  /\ Finish(p)
  /\ UNCHANGED <<ownerId, type, status>>

Next ==
  \/ \E p \in Procs :
       \/ \E u \in Users :
            \/ \E v \in Users : CallTransfer(p, u, v)
            \/ \E new \in UserStatus : CallSetStatus(p, u, new)
            \/ CallDelete(p, u)
       \/ ReadOwner(p) \/ ReadTarget(p) \/ Commit(p)
       \/ SetStatus(p) \/ Delete(p) \/ Crash(p)
  \/ \E u \in Users : CreateUser(u)

Spec == Init /\ [][Next]_vars
-----------------------------------------------------------------------------
\* "Represented by both User.userType = OWNER and Workspace.ownerId (kept in
\* sync transactionally)" (ARCHITECTURE.md): however transfers, deletions and
\* status changes interleave, the user ownerId names exists and is the only one
\* whose row says OWNER.
OneOwner == \A u \in Users : type[u] = "OWNER" <=> u = ownerId

\* Ownership changes hands only in a transfer called by the user that owns the
\* workspace at the moment of the commit, never by one that has handed it over
\* since its transaction looked.
OnlyOwnerHandsOver ==
  [][ownerId' # ownerId =>
       \E p \in Procs : At(p, "transfer") /\ h[p].caller = ownerId /\ h[p].target = ownerId']_vars

\* "The workspace owner cannot be suspended" (user-management.policy.ts); "Target
\* must be an ACTIVE MEMBER" (workspace.service.ts).
OwnerActive == status[ownerId] = "ACTIVE"
=============================================================================
