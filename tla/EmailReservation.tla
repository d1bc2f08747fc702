-------------------------- MODULE EmailReservation --------------------------
(***************************************************************************)
(* The email identity protocol of src/identity: one row per email in the   *)
(* control-plane table GlobalEmailReservation, one User table per shard,   *)
(* and no transaction that spans the two.  A request handler is a process  *)
(* whose awaited database calls are single steps; between two of them any  *)
(* other handler, the reconcile command, a crash or the clock may move.    *)
(*                                                                         *)
(* Handlers: createUser and the owner branch of signup and googleLogin     *)
(* (job "create"), resolveUserByEmail (job "login"), deleteUser (job       *)
(* "delete") and the command identity:reconcile (job "reconcile").         *)
(***************************************************************************)
EXTENDS Naturals, FiniteSets

CONSTANTS
  Emails,       \* normalised addresses
  Users,        \* user ids, in the order-free sense of crypto.randomUUID
  Shards,       \* databases that hold User rows
  Home,         \* the shard a user's workspace is assigned to
  Procs,        \* request handlers of all API instances
  Operators,    \* runs of the reconcile command
  MaxCrashes,   \* bound on aborted handlers
  Conditions,   \* what the environment may do, see below
  NoRow, NoUser

(***************************************************************************)
(* Conditions                                                              *)
(*   "stall"     a creator may sleep past the reservation's time to live   *)
(*               between its reservation and its shard transaction         *)
(*   "ambiguous" a shard transaction may commit and still report an error  *)
(*   "overlap"   the reconcile command may run while a deletion is running *)
(*   "legacy"    some users predate the reservation table                  *)
(*   "unrouted"  some rows were left without a shard id                    *)
(***************************************************************************)
ASSUME ConditionsAssumption ==
  Conditions \subseteq {"stall", "ambiguous", "overlap", "legacy", "unrouted"}
ASSUME EmailsAssumption == Emails # {}
ASSUME HomeAssumption == Home \in [Users -> Shards]
ASSUME CrashAssumption == MaxCrashes \in Nat
ASSUME ActorAssumption == Procs \cap Operators = {}
ASSUME NoUserAssumption == NoUser \notin Users

Status == {"PENDING", "ACTIVE", "RELEASE_PENDING"}

\* A reservation: expired is expiresAt < now, routed is "shardId is set".
\* The shard id itself is Home[user]: it is written with the user id.
Row == [user : Users, status : Status, expired : BOOLEAN, routed : BOOLEAN]

ASSUME NoRowAssumption == NoRow \notin Row

VARIABLES
  res,      \* the GlobalEmailReservation table, by email
  member,   \* the User tables, by shard and email (email is unique per shard)
  used,     \* ids handed out by crypto.randomUUID
  born,     \* history: ids whose shard transaction committed
  h,        \* the local state of every handler and command
  crashes   \* handlers aborted so far

vars == <<res, member, used, born, h, crashes>>
tables == <<res, member, used, born>>

Labels ==
  {"idle",
   "expireRead", "expireLook", "expireWrite",   \* reconcileExpiredPendingReservation
   "reserveRead", "reserveInsert",              \* reserveEmail
   "write", "release", "activate",              \* the caller's shard transaction
   "resolveRead", "resolveReread", "load",      \* resolveUserByEmail
   "mark", "markCheck", "delete", "finalize",   \* deleteUser
   "sweepRead", "sweepLook", "sweepWrite"}      \* reconcileReleasePending

Jobs == {"none", "create", "login", "delete", "reconcile"}

Actors == Procs \cup Operators

Handler ==
  [pc : Labels, job : Jobs, em : Emails, uid : Users \cup {NoUser},
   snap : Row \cup {NoRow}, seen : BOOLEAN, todo : SUBSET (Emails \X Users)]

AnEmail == CHOOSE e \in Emails : TRUE

\* A handler that is not running.
Idle == [pc |-> "idle", job |-> "none", em |-> AnEmail, uid |-> NoUser,
         snap |-> NoRow, seen |-> FALSE, todo |-> {}]

TypeOK ==
  /\ res \in [Emails -> Row \cup {NoRow}]
  /\ member \in [Shards -> [Emails -> Users \cup {NoUser}]]
  /\ used \subseteq Users
  /\ born \subseteq Users
  /\ h \in [Actors -> Handler]
  /\ crashes \in 0..MaxCrashes
-----------------------------------------------------------------------------
Has(e, st) == res[e] # NoRow /\ res[e].status = st

\* where: { email, userId, status }
Matches(e, u, st) == Has(e, st) /\ res[e].user = u

\* findFirst where: { id, email, workspaceId } on the recorded shard
OnShard(e, u) == member[Home[u]][e] = u

SetStatus(e, st) ==
  res' = [res EXCEPT ![e] = [@ EXCEPT !.status = st, !.expired = FALSE]]

\* Faulty: the owner is cleared and the row stays.
BlankRow(e) == res' = [res EXCEPT ![e] = [@ EXCEPT !.user = NoUser]]

DeleteRow(e) == res' = [res EXCEPT ![e] = NoRow]

Finish(p) == h' = [h EXCEPT ![p] = Idle]
Goto(p, label) == h' = [h EXCEPT ![p] = [@ EXCEPT !.pc = label]]

At(p, label) == h[p].pc = label

Deleting == \E p \in Procs : h[p].job = "delete"
Sweeping == \E o \in Operators : h[o].job = "reconcile"

\* Users of an earlier release: at most one id per email, no row for it.
LegacyTables ==
  {m \in [Shards -> [Emails -> Users \cup {NoUser}]] :
     /\ \A s \in Shards, e \in Emails : m[s][e] # NoUser => Home[m[s][e]] = s
     /\ \A s, t \in Shards, e, f \in Emails :
          m[s][e] # NoUser /\ m[t][f] = m[s][e] => e = f
     /\ \A s, t \in Shards, e \in Emails :
          m[s][e] # NoUser /\ m[t][e] # NoUser => s = t}

NoMembers == [s \in Shards |-> [e \in Emails |-> NoUser]]

UnroutedRows ==
  [user : Users, status : {"PENDING", "ACTIVE"}, expired : {TRUE}, routed : {FALSE}]

Init ==
  /\ member \in IF "legacy" \in Conditions THEN LegacyTables ELSE {NoMembers}
  /\ res \in IF "unrouted" \in Conditions
             THEN [Emails -> UnroutedRows \cup {NoRow}]
             ELSE {[e \in Emails |-> NoRow]}
  /\ born = {u \in Users : \E s \in Shards, e \in Emails : member[s][e] = u}
  /\ used = born \cup {u \in Users : \E e \in Emails : res[e] # NoRow /\ res[e].user = u}
  /\ \A e \in Emails : res[e] # NoRow => res[e].user \notin born
  /\ \A e, f \in Emails : (res[e] # NoRow /\ res[f] # NoRow /\ e # f)
                          => res[e].user # res[f].user
  /\ h = [p \in Actors |-> Idle]
  /\ crashes = 0
-----------------------------------------------------------------------------
(***************************************************************************)
(* Faulty variants of actions below.  None is part of Next: each is a bug  *)
(* that the property named with it in PROJECT.json is there to catch.      *)
(***************************************************************************)

\* Where the caller of reconcileExpiredPendingReservation goes on.
AfterExpire(p) == IF h[p].job = "create" THEN "reserveRead" ELSE "resolveReread"

\* ExpireRead that forgets to compare expiresAt with the time.
ExpireReadAnyPending(p) ==
  LET e == h[p].em IN
  /\ At(p, "expireRead")
  /\ IF Has(e, "PENDING")
     THEN h' = [h EXCEPT ![p] = [@ EXCEPT !.pc = IF res[e].routed THEN "expireLook"
                                                                  ELSE "expireWrite",
                                          !.snap = res[e], !.seen = FALSE]]
     ELSE Goto(p, AfterExpire(p))
  /\ UNCHANGED <<tables, crashes>>

\* ReserveInsert as an upsert.
ReserveUpsert(p) ==
  /\ At(p, "reserveInsert")
  /\ res' = [res EXCEPT ![h[p].em] = [user |-> h[p].uid, status |-> "PENDING",
                                      expired |-> FALSE, routed |-> TRUE]]
  /\ Goto(p, "write")
  /\ UNCHANGED <<member, used, born, crashes>>

\* Release and FinalizeRelease that delete by email alone.
ReleaseByEmail(p) ==
  /\ At(p, "release") /\ DeleteRow(h[p].em) /\ Finish(p)
  /\ UNCHANGED <<member, used, born, crashes>>

FinalizeByEmail(p) ==
  /\ At(p, "finalize") /\ DeleteRow(h[p].em) /\ Finish(p)
  /\ UNCHANGED <<member, used, born, crashes>>

\* Activate that does not insist on PENDING.
ActivateAnyStatus(p) ==
  LET e == h[p].em IN
  /\ At(p, "activate")
  /\ IF res[e] # NoRow /\ res[e].user = h[p].uid THEN SetStatus(e, "ACTIVE") ELSE UNCHANGED res
  /\ Finish(p)
  /\ UNCHANGED <<member, used, born, crashes>>

\* Load that serves a PENDING user and leaves the row as it is.
LoadWithoutActivation(p) ==
  /\ At(p, "load") /\ Finish(p) /\ UNCHANGED <<tables, crashes>>

SweepKeepsMissing(o) ==
  LET e == h[o].em IN
  /\ At(o, "sweepWrite")
  /\ IF h[o].seen /\ Matches(e, h[o].snap.user, "RELEASE_PENDING")
     THEN SetStatus(e, "ACTIVE") ELSE UNCHANGED res
  /\ h' = [h EXCEPT ![o] = [@ EXCEPT !.pc = "sweepRead", !.snap = NoRow, !.seen = FALSE]]
  /\ UNCHANGED <<member, used, born, crashes>>
-----------------------------------------------------------------------------
(***************************************************************************)
(* Requests and commands arrive.                                           *)
(***************************************************************************)

\* signup, googleLogin and createUser draw an id and call reserveEmail.
StartCreate(p, e, u) ==
  /\ At(p, "idle")
  /\ u \in Users \ used
  /\ used' = used \cup {u}
  /\ h' = [h EXCEPT ![p] = [Idle EXCEPT !.pc = "expireRead", !.job = "create",
                                        !.em = e, !.uid = u]]
  /\ UNCHANGED <<res, member, born, crashes>>

StartLogin(p, e) ==
  /\ At(p, "idle")
  /\ h' = [h EXCEPT ![p] = [Idle EXCEPT !.pc = "resolveRead", !.job = "login", !.em = e]]
  /\ UNCHANGED <<tables, crashes>>

\* deleteUser has read its target on the workspace's shard.
StartDelete(p, e, u) ==
  /\ At(p, "idle")
  /\ OnShard(e, u)
  /\ "overlap" \in Conditions \/ ~Sweeping
  /\ h' = [h EXCEPT ![p] = [Idle EXCEPT !.pc = "mark", !.job = "delete",
                                        !.em = e, !.uid = u]]
  /\ UNCHANGED <<tables, crashes>>

\* reconcileAllReleasePending: the batch reads every RELEASE_PENDING row.
StartBatch(o) ==
  /\ At(o, "idle")
  /\ "overlap" \in Conditions \/ ~Deleting
  /\ \E e \in Emails : Has(e, "RELEASE_PENDING")
  /\ h' = [h EXCEPT ![o] =
             [Idle EXCEPT !.pc = "sweepRead", !.job = "reconcile",
                !.todo = {r \in Emails \X Users : Matches(r[1], r[2], "RELEASE_PENDING")}]]
  /\ UNCHANGED <<tables, crashes>>

\* The command with --email and --userId: any row an operator names.
StartSingle(o, e, u) ==
  /\ At(o, "idle")
  /\ "overlap" \in Conditions \/ ~Deleting
  /\ h' = [h EXCEPT ![o] = [Idle EXCEPT !.pc = "sweepRead", !.job = "reconcile",
                                        !.todo = {<<e, u>>}]]
  /\ UNCHANGED <<tables, crashes>>
-----------------------------------------------------------------------------
(***************************************************************************)
(* reconcileExpiredPendingReservation, called by reserveEmail and by       *)
(* resolveUserByEmail; each goes on with the label its caller is at.       *)
(***************************************************************************)
ExpireRead(p) ==
  LET e == h[p].em IN
  /\ At(p, "expireRead")
  /\ \/ /\ ~(Has(e, "PENDING") /\ res[e].expired)
        /\ Goto(p, AfterExpire(p))
     \/ /\ Has(e, "PENDING") /\ res[e].expired
        /\ h' = [h EXCEPT ![p] = [@ EXCEPT !.pc = IF res[e].routed THEN "expireLook"
                                                                   ELSE "expireWrite",
                                           !.snap = res[e], !.seen = FALSE]]
  /\ UNCHANGED <<tables, crashes>>

ExpireLook(p) ==
  /\ At(p, "expireLook")
  /\ h' = [h EXCEPT ![p] = [@ EXCEPT !.pc = "expireWrite",
                                     !.seen = OnShard(h[p].em, h[p].snap.user)]]
  /\ UNCHANGED <<tables, crashes>>

\* updateMany or deleteMany, each conditional on the row still being PENDING.
ExpireWrite(p) ==
  LET e == h[p].em
      mine == Matches(e, h[p].snap.user, "PENDING")
  IN
  /\ At(p, "expireWrite")
  /\ \/ h[p].seen /\ mine /\ SetStatus(e, "ACTIVE")
     \/ ~h[p].seen /\ mine /\ res[e].expired /\ DeleteRow(e)
     \/ ~(mine /\ (h[p].seen \/ res[e].expired)) /\ UNCHANGED res
  /\ h' = [h EXCEPT ![p] = [@ EXCEPT !.pc = AfterExpire(p), !.snap = NoRow, !.seen = FALSE]]
  /\ UNCHANGED <<member, used, born, crashes>>
-----------------------------------------------------------------------------
(***************************************************************************)
(* reserveEmail and the shard transaction of its callers.                  *)
(***************************************************************************)

\* Every caller drew a fresh id, so an existing row is somebody else's: the
\* branch that extends the caller's own PENDING row is never taken.
ReserveRead(p) ==
  /\ At(p, "reserveRead")
  /\ \/ res[h[p].em] = NoRow /\ Goto(p, "reserveInsert")
     \/ res[h[p].em] # NoRow /\ Finish(p)            \* ConflictError
  /\ UNCHANGED <<tables, crashes>>

\* create; the primary key turns a lost race into P2002 and a ConflictError.
ReserveInsert(p) ==
  LET e == h[p].em IN
  /\ At(p, "reserveInsert")
  /\ \/ /\ res[e] = NoRow
        /\ res' = [res EXCEPT ![e] = [user |-> h[p].uid, status |-> "PENDING",
                                      expired |-> FALSE, routed |-> TRUE]]
        /\ Goto(p, "write")
     \/ res[e] # NoRow /\ Finish(p) /\ UNCHANGED res
  /\ UNCHANGED <<member, used, born, crashes>>

CommitUser(p) ==
  LET e == h[p].em  u == h[p].uid IN
  /\ member[Home[u]][e] = NoUser
  /\ member' = [member EXCEPT ![Home[u]] = [@ EXCEPT ![e] = u]]
  /\ born' = born \cup {u}

\* The $transaction (user.create in createUser) of the shard.
ShardWrite(p) ==
  /\ At(p, "write")
  /\ \/ CommitUser(p) /\ Goto(p, "activate")
     \/ UNCHANGED <<member, born>> /\ Goto(p, "release")   \* rolled back
     \/ "ambiguous" \in Conditions /\ CommitUser(p) /\ Goto(p, "release")
  /\ UNCHANGED <<res, used, crashes>>

\* releaseAfterFailedShardWrite: deleteMany by email and user id, any status.
Release(p) ==
  LET e == h[p].em IN
  /\ At(p, "release")
  /\ IF res[e] # NoRow /\ res[e].user = h[p].uid THEN DeleteRow(e) ELSE UNCHANGED res
  /\ Finish(p)
  /\ UNCHANGED <<member, used, born, crashes>>

\* activateEmailReservation: the read after a zero count only picks the error.
Activate(p) ==
  LET e == h[p].em IN
  /\ At(p, "activate")
  /\ IF Matches(e, h[p].uid, "PENDING") THEN SetStatus(e, "ACTIVE") ELSE UNCHANGED res
  /\ Finish(p)
  /\ UNCHANGED <<member, used, born, crashes>>
-----------------------------------------------------------------------------
(***************************************************************************)
(* resolveUserByEmail.  A missing row ends in the legacy scan, which only  *)
(* reads; every error only ends the handler.                               *)
(***************************************************************************)
ResolveRead(p) ==
  LET e == h[p].em
      routed == res[e] # NoRow /\ res[e].routed
  IN
  /\ At(p, "resolveRead")
  /\ \/ (~routed \/ Has(e, "RELEASE_PENDING")) /\ Finish(p)
     \/ routed /\ Has(e, "PENDING") /\ res[e].expired /\ Goto(p, "expireRead")
     \/ /\ routed
        /\ (Has(e, "ACTIVE") \/ (Has(e, "PENDING") /\ ~res[e].expired))
        /\ h' = [h EXCEPT ![p] = [@ EXCEPT !.pc = "load", !.snap = res[e]]]
  /\ UNCHANGED <<tables, crashes>>

\* After the reconciliation: ACTIVE starts over, anything else ends the call.
ResolveReread(p) ==
  /\ At(p, "resolveReread")
  /\ IF Has(h[p].em, "ACTIVE") THEN Goto(p, "resolveRead") ELSE Finish(p)
  /\ UNCHANGED <<tables, crashes>>

\* loadUserFromRecordedShard; a PENDING row whose user exists is activated.
Load(p) ==
  /\ At(p, "load")
  /\ IF h[p].snap.status = "PENDING" /\ OnShard(h[p].em, h[p].snap.user)
     THEN h' = [h EXCEPT ![p] = [@ EXCEPT !.pc = "activate", !.uid = h[p].snap.user]]
     ELSE Finish(p)
  /\ UNCHANGED <<tables, crashes>>
-----------------------------------------------------------------------------
(***************************************************************************)
(* deleteUser: mark, delete on the shard, finalize.                        *)
(***************************************************************************)
MarkReleasePending(p) ==
  LET e == h[p].em  u == h[p].uid IN
  /\ At(p, "mark")
  /\ \/ /\ Matches(e, u, "ACTIVE") \/ Matches(e, u, "PENDING")
        /\ SetStatus(e, "RELEASE_PENDING")
        /\ Goto(p, "delete")
     \/ /\ ~(Matches(e, u, "ACTIVE") \/ Matches(e, u, "PENDING"))
        /\ Goto(p, "markCheck")
        /\ UNCHANGED res
  /\ UNCHANGED <<member, used, born, crashes>>

\* No row (a legacy user) or its own marker lets the deletion go on.
MarkCheck(p) ==
  LET e == h[p].em IN
  /\ At(p, "markCheck")
  /\ IF res[e] = NoRow \/ Matches(e, h[p].uid, "RELEASE_PENDING")
     THEN Goto(p, "delete")
     ELSE Finish(p)                                   \* ConflictError
  /\ UNCHANGED <<tables, crashes>>

\* user.delete by id; a user that is already gone ends the handler (P2025).
ShardDelete(p) ==
  LET e == h[p].em  u == h[p].uid IN
  /\ At(p, "delete")
  /\ \/ /\ OnShard(e, u)
        /\ member' = [member EXCEPT ![Home[u]] = [@ EXCEPT ![e] = NoUser]]
        /\ Goto(p, "finalize")
     \/ ~OnShard(e, u) /\ Finish(p) /\ UNCHANGED member
  /\ UNCHANGED <<res, used, born, crashes>>

FinalizeRelease(p) ==
  LET e == h[p].em IN
  /\ At(p, "finalize")
  /\ IF Matches(e, h[p].uid, "RELEASE_PENDING") THEN DeleteRow(e) ELSE UNCHANGED res
  /\ Finish(p)
  /\ UNCHANGED <<member, used, born, crashes>>
-----------------------------------------------------------------------------
(***************************************************************************)
(* reconcileReleasePending, once per row of the command's work list.       *)
(***************************************************************************)

\* Read the next row; a row of another user, PENDING or unrouted is kept.
SweepRead(o) ==
  /\ At(o, "sweepRead")
  /\ \/ h[o].todo = {} /\ Finish(o)
     \/ \E r \in h[o].todo :
          LET e == r[1]
              candidate == /\ Matches(e, r[2], "RELEASE_PENDING") \/ Matches(e, r[2], "ACTIVE")
                           /\ res[e].routed
          IN h' = [h EXCEPT ![o] =
                     [@ EXCEPT !.todo = h[o].todo \ {r}, !.em = e,
                               !.pc = IF candidate THEN "sweepLook" ELSE "sweepRead",
                               !.snap = IF candidate THEN res[e] ELSE NoRow]]
  /\ UNCHANGED <<tables, crashes>>

SweepLook(o) ==
  /\ At(o, "sweepLook")
  /\ h' = [h EXCEPT ![o] = [@ EXCEPT !.pc = "sweepWrite",
                                     !.seen = OnShard(h[o].em, h[o].snap.user)]]
  /\ UNCHANGED <<tables, crashes>>

\* User present: RELEASE_PENDING goes back to ACTIVE.  User missing: the row
\* is deleted if it still has the status that was read.
SweepWrite(o) ==
  LET e == h[o].em
      was == h[o].snap.status
      same == Matches(e, h[o].snap.user, was)
  IN
  /\ At(o, "sweepWrite")
  /\ \/ h[o].seen /\ was = "RELEASE_PENDING" /\ same /\ SetStatus(e, "ACTIVE")
     \/ ~h[o].seen /\ same /\ DeleteRow(e)
     \/ (~same \/ (h[o].seen /\ was = "ACTIVE")) /\ UNCHANGED res
  /\ h' = [h EXCEPT ![o] = [@ EXCEPT !.pc = "sweepRead", !.snap = NoRow, !.seen = FALSE]]
  /\ UNCHANGED <<member, used, born, crashes>>

\* The batch counts a row whose lookup or write failed and goes on.
SweepError(o) ==
  /\ h[o].pc \in {"sweepLook", "sweepWrite"}
  /\ crashes < MaxCrashes
  /\ crashes' = crashes + 1
  /\ h' = [h EXCEPT ![o] = [@ EXCEPT !.pc = "sweepRead", !.snap = NoRow, !.seen = FALSE]]
  /\ UNCHANGED tables
-----------------------------------------------------------------------------
\* expiresAt passes.  Without "stall" a creator writes its shard in time.
Expire(e) ==
  /\ Has(e, "PENDING") /\ ~res[e].expired
  /\ \/ "stall" \in Conditions
     \/ ~\E p \in Actors : h[p].pc = "write" /\ h[p].uid = res[e].user
  /\ res' = [res EXCEPT ![e] = [@ EXCEPT !.expired = TRUE]]
  /\ UNCHANGED <<member, used, born, h, crashes>>

\* The process dies, or a database call fails and its error ends the handler.
Crash(p) ==
  /\ ~At(p, "idle")
  /\ crashes < MaxCrashes
  /\ crashes' = crashes + 1
  /\ Finish(p)
  /\ UNCHANGED tables

Step(p) ==
  \/ ExpireRead(p) \/ ExpireLook(p) \/ ExpireWrite(p)
  \/ ReserveRead(p) \/ ReserveInsert(p) \/ ShardWrite(p) \/ Release(p) \/ Activate(p)
  \/ ResolveRead(p) \/ ResolveReread(p) \/ Load(p)
  \/ MarkReleasePending(p) \/ MarkCheck(p) \/ ShardDelete(p) \/ FinalizeRelease(p)
  \/ SweepRead(p) \/ SweepLook(p) \/ SweepWrite(p)

Next ==
  \/ \E p \in Procs, e \in Emails :
       StartLogin(p, e) \/ \E u \in Users : StartCreate(p, e, u) \/ StartDelete(p, e, u)
  \/ \E o \in Operators :
       StartBatch(o) \/ SweepError(o) \/ \E e \in Emails, u \in Users : StartSingle(o, e, u)
  \/ \E p \in Actors : Step(p) \/ Crash(p)
  \/ \E e \in Emails : Expire(e)

Spec == Init /\ [][Next]_vars
\* Handlers that have started go on, and an operator keeps running the batch,
\* between single rows too, whenever no deletion is running.
Fairness ==
  /\ \A p \in Actors : WF_vars(Step(p))
  /\ \A o \in Operators : SF_vars(StartBatch(o))

LiveSpec == Spec /\ Fairness

\* In addition somebody keeps trying to log in with every address.
RetryingSpec == LiveSpec /\ \A e \in Emails : SF_vars(\E p \in Procs : StartLogin(p, e))
-----------------------------------------------------------------------------
\* "Globally unique authenticated identity" (user.prisma): an address never
\* names two users, although every shard only checks its own table.
GlobalEmailUniqueness ==
  \A e \in Emails : \A s, t \in Shards :
    member[s][e] # NoUser /\ member[t][e] # NoUser => member[s][e] = member[t][e]

\* A committed user is always named by the row of its email, whatever failed
\* between the two databases and however many handlers race for the address:
\* the row is neither released nor handed to somebody else.
EveryUserReserved ==
  \A s \in Shards, e \in Emails :
    member[s][e] # NoUser =>
      /\ Home[member[s][e]] = s
      /\ res[e] # NoRow
      /\ res[e].user = member[s][e]

\* No undiscoverable ACTIVE orphan: the batch reads RELEASE_PENDING rows only,
\* so an ACTIVE row must name a user that exists on its shard.
NoActiveOrphan ==
  \A e \in Emails :
    Has(e, "ACTIVE") /\ res[e].routed => OnShard(e, res[e].user)

\* The account under an email, seen across all shards.
AccountOf(e) ==
  IF \E s \in Shards : member[s][e] # NoUser
  THEN member[CHOOSE s \in Shards : member[s][e] # NoUser][e]
  ELSE NoUser

OwnerOf(e) == IF res[e] = NoRow THEN NoUser ELSE res[e].user

Directory == INSTANCE AccountDirectory
               WITH owner <- [e \in Emails |-> OwnerOf(e)],
                    account <- [e \in Emails |-> AccountOf(e)],
                    past <- born

\* The protocol implements the directory: an address is freed only when no
\* shard holds its user any more, and is never taken over while it is held.
ImplementsDirectory == Directory!Spec

\* A deletion that stopped half way does not block its address for ever.
ReleasePendingResolves ==
  \A e \in Emails : Has(e, "RELEASE_PENDING") ~> ~Has(e, "RELEASE_PENDING")

\* A committed user whose creator died before activation can log in at last:
\* its row becomes ACTIVE, unless the user is deleted.
CommittedUserBecomesActive ==
  \A e \in Emails, u \in Users :
    OnShard(e, u) ~> (Matches(e, u, "ACTIVE") \/ ~OnShard(e, u))
-----------------------------------------------------------------------------
(***************************************************************************)
(* Why EveryUserReserved holds: what stays true of the tables while a      *)
(* handler sleeps between two of its database calls.                       *)
(***************************************************************************)
ExpireLabels == {"expireRead", "expireLook", "expireWrite"}
ReserveLabels == {"reserveRead", "reserveInsert"}

\* Creators whose id is in no row yet, and all creators before they commit.
Early(x) == x.pc \in ReserveLabels \/ (x.pc \in ExpireLabels /\ x.job = "create")
Creating(x) == Early(x) \/ x.pc \in {"write", "release"}

HeldBy(e, u) == res[e] # NoRow /\ res[e].user = u

\* Only a committed user gets past PENDING; a row without a route is nobody's.
TablesOK ==
  /\ born \subseteq used
  /\ \A s \in Shards, e \in Emails : member[s][e] # NoUser => member[s][e] \in born
  /\ \A e \in Emails : res[e] # NoRow =>
       /\ res[e].user \in used
       /\ IF res[e].routed THEN res[e].status # "PENDING" => res[e].user \in born
                           ELSE res[e].user \notin born

\* The id of a creator is its own until it commits, and whoever is about to
\* write its shard holds a live PENDING row.
CreatorOK(x) ==
  /\ Creating(x) =>
       /\ x.uid \in used \ born
       /\ \A e \in Emails : HeldBy(e, x.uid) => res[e].routed
  /\ Early(x) => ~HeldBy(x.em, x.uid)
  /\ x.pc = "write" => Matches(x.em, x.uid, "PENDING") /\ ~res[x.em].expired

\* Whoever activates or deletes acts for a user that was committed.
OwnerOK(x) ==
  /\ x.pc \in {"activate", "mark", "markCheck", "delete", "finalize"} => x.uid \in born
  /\ x.pc = "finalize" => ~OnShard(x.em, x.uid)

\* A lookup that found no user still finds none, one that found it was right.
SnapshotOK(x) ==
  /\ x.pc \in {"expireLook", "expireWrite"} => x.snap # NoRow /\ x.snap.user \in used
  /\ x.pc = "expireWrite" =>
       IF x.seen THEN x.snap.user \in born ELSE ~OnShard(x.em, x.snap.user)
  /\ x.pc \in {"sweepLook", "sweepWrite"} => x.snap # NoRow /\ x.snap.user \in born
  /\ x.pc = "sweepWrite" /\ ~x.seen => ~OnShard(x.em, x.snap.user)

\* Creators differ in their ids; an expired row that x has read is not the
\* row of a creator y that may still write its shard.
Distinct(x, y) == Creating(x) /\ Creating(y) => x.uid # y.uid
NotAwaited(x, y) ==
  /\ x.pc \in {"expireLook", "expireWrite"}
  /\ Early(y) \/ y.pc = "write"
  /\ y.em = x.em
  => y.uid # x.snap.user

\* The inductive invariant behind EveryUserReserved: it says why a conditional
\* write of a sleeping handler can no longer hit the row of somebody else.
SleepingHandlers ==
  /\ TablesOK
  /\ \A p \in Actors : CreatorOK(h[p]) /\ OwnerOK(h[p]) /\ SnapshotOK(h[p])
  /\ \A p, q \in Actors : NotAwaited(h[p], h[q]) /\ (p # q => Distinct(h[p], h[q]))
=============================================================================
