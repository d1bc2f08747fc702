----------------------- MODULE EmailReservationProof -----------------------
(***************************************************************************)
(* Theorems about EmailReservation for any number of emails, users,        *)
(* shards, handlers, commands and crashes.                                 *)
(***************************************************************************)
EXTENDS EmailReservation, TLAPS

LEMMA IdleIsHandler == Idle \in Handler
  BY EmailsAssumption DEF Idle, Handler, AnEmail, Labels, Jobs

\* The variables keep their types: whatever the environment does.
LEMMA TypeInit == Init => TypeOK
  <1> SUFFICES ASSUME Init PROVE TypeOK
    OBVIOUS
  <1>1. res \in [Emails -> Row \cup {NoRow}]
    BY DEF Init, Row, UnroutedRows, Status
  <1>2. member \in [Shards -> [Emails -> Users \cup {NoUser}]]
    BY DEF Init, LegacyTables, NoMembers
  <1>3. used \subseteq Users /\ born \subseteq Users
    BY <1>1 DEF Init, Row
  <1>4. h \in [Actors -> Handler] /\ crashes \in 0..MaxCrashes
    BY IdleIsHandler, CrashAssumption DEF Init
  <1> QED
    BY <1>1, <1>2, <1>3, <1>4 DEF TypeOK

\* What Handler leaves open: the id or row a label relies on is there.
LocalOK(x) ==
  /\ Creating(x) => x.job = "create" /\ x.uid \in Users
  /\ x.pc \in ExpireLabels => x.job \in {"create", "login"}
  /\ x.pc \in {"resolveRead", "resolveReread"} => x.job = "login"
  /\ x.pc = "load" => x.snap \in Row

LocalsOK == \A p \in Actors : LocalOK(h[p])

\* A step of p leaves p with a well-formed record and the others alone.
Moved(p) ==
  /\ h' \in [Actors -> Handler]
  /\ LocalOK(h'[p])
  /\ \A q \in Actors : q # p => h'[q] = h[q]

LEMMA TypedRows ==
  ASSUME TypeOK, NEW e \in Emails, res[e] # NoRow
  PROVE  /\ res[e] \in Row
         /\ \A st \in Status : SetStatus(e, st) => res' \in [Emails -> Row \cup {NoRow}]
         /\ DeleteRow(e) => res' \in [Emails -> Row \cup {NoRow}]
  BY DEF TypeOK, SetStatus, DeleteRow, Row

LEMMA TypedLocals ==
  ASSUME TypeOK, NEW p \in Actors
  PROVE  /\ h[p] \in Handler
         /\ h[p].em \in Emails
         /\ h[p].uid \in Users \cup {NoUser}
         /\ res[h[p].em] \in Row \cup {NoRow}
  BY DEF TypeOK, Handler

LEMMA FinishMoves ==
  ASSUME TypeOK, NEW p \in Actors, Finish(p)
  PROVE  Moved(p)
  <1>1. h'[p] = Idle /\ h' \in [Actors -> Handler]
    BY IdleIsHandler DEF Finish, TypeOK
  <1>2. LocalOK(Idle)
    BY DEF LocalOK, Idle, Creating, Early, ReserveLabels, ExpireLabels
  <1> QED
    BY <1>1, <1>2 DEF Moved, Finish, TypeOK

LEMMA GotoMoves ==
  ASSUME TypeOK, NEW p \in Actors, NEW l \in Labels, Goto(p, l),
         LocalOK([h[p] EXCEPT !.pc = l])
  PROVE  Moved(p)
  <1>1. h'[p] = [h[p] EXCEPT !.pc = l] /\ h' \in [Actors -> Handler]
    BY DEF Goto, TypeOK, Handler
  <1> QED
    BY <1>1 DEF Moved, Goto, TypeOK

LEMMA RecordMoves ==
  ASSUME TypeOK, NEW p \in Actors, NEW r \in Handler, h' = [h EXCEPT ![p] = r], LocalOK(r)
  PROVE  Moved(p)
  BY DEF TypeOK, Moved

\* Every handler step, one case per label.
LEMMA StepMoves ==
  ASSUME TypeOK, LocalsOK, NEW p \in Actors, Step(p)
  PROVE  Moved(p)
  <1> DEFINE e == h[p].em
  <1> USE DEF Creating, Early, ReserveLabels, ExpireLabels, At
  <1>0. /\ h \in [Actors -> Handler] /\ h[p] \in Handler /\ e \in Emails
        /\ res[e] \in Row \cup {NoRow} /\ LocalOK(h[p])
    BY TypedLocals DEF LocalsOK, TypeOK
  <1>1. CASE ExpireRead(p)
    <2>1. CASE Goto(p, AfterExpire(p))
      <3>1. AfterExpire(p) \in {"reserveRead", "resolveReread"}
        BY DEF AfterExpire
      <3>2. LocalOK([h[p] EXCEPT !.pc = AfterExpire(p)])
        BY <1>1, <1>0 DEF ExpireRead, AfterExpire, LocalOK, Handler
      <3> QED
        BY <2>1, <3>1, <3>2, GotoMoves DEF Labels
    <2>2. CASE ~Goto(p, AfterExpire(p))
      <3> DEFINE l == IF res[e].routed THEN "expireLook" ELSE "expireWrite"
                 r == [h[p] EXCEPT !.pc = l, !.snap = res[e], !.seen = FALSE]
      <3>1. h[p].pc = "expireRead" /\ res[e] \in Row /\ h' = [h EXCEPT ![p] = r]
        BY <1>1, <2>2, <1>0 DEF ExpireRead, Has
      <3>2. r \in Handler /\ LocalOK(r)
        BY <3>1, <1>0 DEF LocalOK, Handler, Labels
      <3> QED
        BY <3>1, <3>2, RecordMoves
    <2> QED
      BY <2>1, <2>2
  <1>2. CASE ExpireLook(p)
    BY <1>2, <1>0 DEF ExpireLook, OnShard, Moved, LocalOK, Handler, Labels
  <1>3. CASE ExpireWrite(p)
    BY <1>3, <1>0 DEF ExpireWrite, AfterExpire, Moved, LocalOK, Handler, Labels
  <1>4. ASSUME NEW l \in {"reserveInsert", "write", "release", "activate"}, Goto(p, l),
               h[p].pc \in {"reserveRead", "reserveInsert", "write"}
        PROVE  Moved(p)
    BY <1>4, <1>0 DEF Goto, Moved, LocalOK, Handler, Labels
  <1>5. CASE ReserveRead(p) \/ ReserveInsert(p) \/ ShardWrite(p) \/ Release(p) \/ Activate(p)
    BY <1>5, <1>4, FinishMoves DEF ReserveRead, ReserveInsert, ShardWrite, Release, Activate
  <1>6. CASE ResolveRead(p)
    <2>1. CASE Goto(p, "expireRead")
      BY <1>6, <2>1, <1>0 DEF ResolveRead, Goto, Moved, LocalOK, Handler, Labels
    <2>2. CASE ~Goto(p, "expireRead") /\ ~Finish(p)
      <3> DEFINE r == [h[p] EXCEPT !.pc = "load", !.snap = res[e]]
      <3>1. res[e] \in Row /\ h' = [h EXCEPT ![p] = r]
        BY <1>6, <2>2, <1>0 DEF ResolveRead
      <3>2. r \in Handler /\ LocalOK(r)
        BY <3>1, <1>0 DEF LocalOK, Handler, Labels
      <3> QED
        BY <3>1, <3>2, RecordMoves
    <2> QED
      BY <2>1, <2>2, FinishMoves
  <1>7. CASE ResolveReread(p)
    BY <1>7, <1>0, FinishMoves DEF ResolveReread, Goto, Moved, LocalOK, Handler, Labels
  <1>8. CASE Load(p)
    <2>1. CASE ~Finish(p)
      <3> DEFINE r == [h[p] EXCEPT !.pc = "activate", !.uid = h[p].snap.user]
      <3>1. h[p].snap \in Row /\ h' = [h EXCEPT ![p] = r]
        BY <1>8, <2>1, <1>0 DEF Load, LocalOK
      <3>2. r \in Handler /\ LocalOK(r)
        BY <3>1, <1>0 DEF LocalOK, Handler, Labels, Row
      <3> QED
        BY <3>1, <3>2, RecordMoves
    <2> QED
      BY <2>1, FinishMoves
  <1>9. ASSUME NEW l \in {"markCheck", "delete", "finalize"}, Goto(p, l)
        PROVE  Moved(p)
    BY <1>9, <1>0 DEF Goto, Moved, LocalOK, Handler, Labels
  <1>10. CASE MarkReleasePending(p) \/ MarkCheck(p) \/ ShardDelete(p) \/ FinalizeRelease(p)
    BY <1>10, <1>9, FinishMoves DEF MarkReleasePending, MarkCheck, ShardDelete, FinalizeRelease
  <1>11. CASE SweepRead(p)
    <2>1. ASSUME NEW t \in h[p].todo, NEW f, f = t[1],
                 NEW c \in BOOLEAN, c => res[f] # NoRow,
                 h' = [h EXCEPT ![p] =
                         [h[p] EXCEPT !.todo = h[p].todo \ {t}, !.em = f,
                                   !.pc = IF c THEN "sweepLook" ELSE "sweepRead",
                                   !.snap = IF c THEN res[f] ELSE NoRow]]
          PROVE  Moved(p)
      <3> DEFINE r == [h[p] EXCEPT !.todo = h[p].todo \ {t}, !.em = f,
                                   !.pc = IF c THEN "sweepLook" ELSE "sweepRead",
                                   !.snap = IF c THEN res[f] ELSE NoRow]
      <3>1. f \in Emails /\ h[p].todo \in SUBSET (Emails \X Users)
        BY <2>1, <1>0 DEF Handler
      <3>2. res[f] \in Row \cup {NoRow}
        BY <3>1 DEF TypeOK
      <3>3. h' = [h EXCEPT ![p] = r]
        BY <2>1
      <3>4. r \in Handler
        BY <3>1, <3>2, <2>1, <1>0 DEF Handler, Labels
      <3>5. LocalOK(r)
        BY <1>0 DEF LocalOK, Handler
      <3> QED
        BY <3>3, <3>4, <3>5, RecordMoves
    <2>2. CASE ~Finish(p)
      <3>1. PICK t \in h[p].todo :
              LET f == t[1]
                  c == /\ Matches(f, t[2], "RELEASE_PENDING") \/ Matches(f, t[2], "ACTIVE")
                       /\ res[f].routed
              IN h' = [h EXCEPT ![p] =
                         [h[p] EXCEPT !.todo = h[p].todo \ {t}, !.em = f,
                                   !.pc = IF c THEN "sweepLook" ELSE "sweepRead",
                                   !.snap = IF c THEN res[f] ELSE NoRow]]
        BY <1>11, <2>2 DEF SweepRead
      <3> DEFINE c == /\ Matches(t[1], t[2], "RELEASE_PENDING") \/ Matches(t[1], t[2], "ACTIVE")
                      /\ res[t[1]].routed
      <3>2. c \in BOOLEAN /\ (c => res[t[1]] # NoRow)
        BY DEF Matches, Has
      <3> QED
        BY <3>1, <3>2, <2>1
    <2> QED
      BY <2>2, FinishMoves
  <1>12. CASE SweepLook(p)
    <2> DEFINE r == [h[p] EXCEPT !.pc = "sweepWrite", !.seen = OnShard(e, h[p].snap.user)]
    <2>1. h' = [h EXCEPT ![p] = r]
      BY <1>12 DEF SweepLook
    <2>2. r \in Handler /\ LocalOK(r)
      BY <1>0 DEF LocalOK, Handler, Labels, OnShard
    <2> QED
      BY <2>1, <2>2, RecordMoves
  <1>13. CASE SweepWrite(p)
    <2> DEFINE r == [h[p] EXCEPT !.pc = "sweepRead", !.snap = NoRow, !.seen = FALSE]
    <2>1. h' = [h EXCEPT ![p] = r]
      BY <1>13 DEF SweepWrite
    <2>2. r \in Handler /\ LocalOK(r)
      BY <1>0 DEF LocalOK, Handler, Labels
    <2> QED
      BY <2>1, <2>2, RecordMoves
  <1> QED
    BY <1>1, <1>2, <1>3, <1>5, <1>6, <1>7, <1>8, <1>10, <1>11, <1>12, <1>13 DEF Step

\* Arrivals, skipped rows and crashes.
LEMMA OtherMoves ==
  ASSUME TypeOK, LocalsOK, NEW p \in Actors
  PROVE  /\ \A e \in Emails : StartLogin(p, e) => Moved(p)
         /\ \A e \in Emails, u \in Users :
              StartCreate(p, e, u) \/ StartDelete(p, e, u) => Moved(p)
         /\ StartBatch(p) => Moved(p)
         /\ \A e \in Emails, u \in Users : StartSingle(p, e, u) => Moved(p)
         /\ SweepError(p) \/ Crash(p) => Moved(p)
  <1> USE IdleIsHandler DEF LocalOK, Creating, Early, ReserveLabels, ExpireLabels
  <1>0. ASSUME NEW e \in Emails, StartLogin(p, e)
        PROVE  Moved(p)
    <2> DEFINE r == [Idle EXCEPT !.pc = "resolveRead", !.job = "login", !.em = e]
    <2>1. r \in Handler /\ LocalOK(r)
      BY DEF Idle, Handler, Labels, Jobs
    <2>2. h' = [h EXCEPT ![p] = r]
      BY <1>0 DEF StartLogin
    <2> QED
      BY <2>1, <2>2, RecordMoves
  <1>1. ASSUME NEW e \in Emails, NEW u \in Users, StartCreate(p, e, u) \/ StartDelete(p, e, u)
        PROVE  Moved(p)
    <2> DEFINE create == [Idle EXCEPT !.pc = "expireRead", !.job = "create", !.em = e, !.uid = u]
               delete == [Idle EXCEPT !.pc = "mark", !.job = "delete", !.em = e, !.uid = u]
    <2>1. create \in Handler /\ delete \in Handler
      BY DEF Idle, Handler, Labels, Jobs
    <2>2. LocalOK(create) /\ LocalOK(delete)
      BY DEF Idle
    <2> HIDE DEF create, delete, LocalOK
    <2>3. h' = [h EXCEPT ![p] = create] \/ h' = [h EXCEPT ![p] = delete]
      BY <1>1 DEF StartCreate, StartDelete, create, delete
    <2> QED
      BY <2>1, <2>2, <2>3, RecordMoves
  <1>2. ASSUME NEW w \in SUBSET (Emails \X Users),
               h' = [h EXCEPT ![p] = [Idle EXCEPT !.pc = "sweepRead", !.job = "reconcile",
                                                  !.todo = w]]
        PROVE  Moved(p)
    <2> DEFINE r == [Idle EXCEPT !.pc = "sweepRead", !.job = "reconcile", !.todo = w]
    <2>1. r \in Handler /\ LocalOK(r)
      BY DEF Idle, Handler, Labels, Jobs
    <2> QED
      BY <1>2, <2>1, RecordMoves
  <1>5. ASSUME StartBatch(p) PROVE Moved(p)
    <2> DEFINE w == {r \in Emails \X Users : Matches(r[1], r[2], "RELEASE_PENDING")}
    <2>1. w \in SUBSET (Emails \X Users)
      OBVIOUS
    <2>2. h' = [h EXCEPT ![p] = [Idle EXCEPT !.pc = "sweepRead", !.job = "reconcile", !.todo = w]]
      BY <1>5 DEF StartBatch
    <2> HIDE DEF w
    <2> QED
      BY <1>2, <2>1, <2>2
  <1>6. ASSUME NEW e \in Emails, NEW u \in Users, StartSingle(p, e, u) PROVE Moved(p)
    <2> DEFINE w == {<<e, u>>}
    <2>1. w \in SUBSET (Emails \X Users)
      OBVIOUS
    <2>2. h' = [h EXCEPT ![p] = [Idle EXCEPT !.pc = "sweepRead", !.job = "reconcile", !.todo = w]]
      BY <1>6 DEF StartSingle
    <2> HIDE DEF w
    <2> QED
      BY <1>2, <2>1, <2>2
  <1>3. CASE SweepError(p)
    <2> DEFINE r == [h[p] EXCEPT !.pc = "sweepRead", !.snap = NoRow, !.seen = FALSE]
    <2>1. h' = [h EXCEPT ![p] = r]
      BY <1>3 DEF SweepError
    <2>2. r \in Handler /\ LocalOK(r)
      BY TypedLocals DEF Handler, Labels
    <2> QED
      BY <2>1, <2>2, RecordMoves
  <1>4. CASE Crash(p)
    BY <1>4, FinishMoves DEF Crash
  <1> QED
    BY <1>0, <1>1, <1>3, <1>4, <1>5, <1>6

LEMMA TypedMoves ==
  ASSUME TypeOK, LocalsOK, NEW p \in Actors, Moved(p)
  PROVE  h' \in [Actors -> Handler] /\ LocalsOK'
  BY DEF TypeOK, LocalsOK, Moved

LEMMA TypedStep ==
  ASSUME TypeOK, LocalsOK, NEW p \in Actors, Step(p)
  PROVE  /\ res' \in [Emails -> Row \cup {NoRow}]
         /\ member' \in [Shards -> [Emails -> Users \cup {NoUser}]]
         /\ born' \subseteq Users
         /\ UNCHANGED <<used, crashes>>
  <1> DEFINE e == h[p].em
  <1>0. /\ e \in Emails /\ LocalOK(h[p])
        /\ res \in [Emails -> Row \cup {NoRow}]
        /\ member \in [Shards -> [Emails -> Users \cup {NoUser}]]
        /\ born \subseteq Users
    BY TypedLocals DEF LocalsOK, TypeOK
  <1>1. res' \in [Emails -> Row \cup {NoRow}]
        <=> (res' = res \/ res' \in [Emails -> Row \cup {NoRow}])
    BY <1>0
  <1>2. CASE ExpireWrite(p) \/ SweepWrite(p) \/ Release(p) \/ Activate(p)
             \/ MarkReleasePending(p) \/ FinalizeRelease(p)
    <2>1. \/ res' = res
          \/ res[e] # NoRow /\ (DeleteRow(e) \/ \E st \in Status : SetStatus(e, st))
      BY <1>2 DEF ExpireWrite, SweepWrite, Release, Activate, MarkReleasePending,
         FinalizeRelease, Matches, Has, Status
    <2> QED
      BY <1>2, <2>1, <1>0, TypedRows DEF ExpireWrite, SweepWrite, Release, Activate,
         MarkReleasePending, FinalizeRelease
  <1>3. CASE ReserveInsert(p)
    <2>1. h[p].uid \in Users
      BY <1>3, <1>0 DEF ReserveInsert, LocalOK, Creating, Early, ReserveLabels, At
    <2> QED
      <3> DEFINE r == [user |-> h[p].uid, status |-> "PENDING", expired |-> FALSE, routed |-> TRUE]
      <3>1. r \in Row
        BY <2>1 DEF Row, Status
      <3>2. res' = res \/ res' = [res EXCEPT ![e] = r]
        BY <1>3 DEF ReserveInsert
      <3> HIDE DEF r, e
      <3> QED
        BY <3>1, <3>2, <1>3, <1>0 DEF ReserveInsert
  <1>4. CASE ShardWrite(p)
    <2>1. h[p].uid \in Users
      BY <1>4, <1>0 DEF ShardWrite, LocalOK, Creating, At
    <2>2. Home[h[p].uid] \in Shards
      BY <2>1, HomeAssumption
    <2>3. CASE CommitUser(p)
      <3>1. /\ member' = [member EXCEPT ![Home[h[p].uid]] = [@ EXCEPT ![e] = h[p].uid]]
            /\ born' = born \cup {h[p].uid}
        BY <2>3 DEF CommitUser
      <3>2. res' = res /\ UNCHANGED <<used, crashes>>
        BY <1>4 DEF ShardWrite
      <3> HIDE DEF e
      <3> QED
        BY <3>1, <3>2, <2>1, <2>2, <1>0
    <2>4. CASE ~CommitUser(p)
      BY <1>4, <2>4, <1>0 DEF ShardWrite
    <2> QED
      BY <2>3, <2>4
  <1>5. CASE ShardDelete(p)
    BY <1>5, <1>0 DEF ShardDelete
  <1>6. CASE \/ ExpireRead(p) \/ ExpireLook(p) \/ ReserveRead(p) \/ ResolveRead(p)
             \/ ResolveReread(p) \/ Load(p) \/ MarkCheck(p) \/ SweepRead(p) \/ SweepLook(p)
    BY <1>6, <1>0 DEF ExpireRead, ExpireLook, ReserveRead, ResolveRead, ResolveReread, Load,
       MarkCheck, SweepRead, SweepLook, tables
  <1> QED
    BY <1>2, <1>3, <1>4, <1>5, <1>6, <1>0 DEF Step

LEMMA TypeNext ==
  ASSUME TypeOK, LocalsOK, [Next]_vars
  PROVE  TypeOK' /\ LocalsOK'
  <1>1. ASSUME NEW p \in Actors, Step(p)
        PROVE  TypeOK' /\ LocalsOK'
    BY <1>1, StepMoves, TypedMoves, TypedStep DEF TypeOK
  <1>2. ASSUME NEW p \in Actors, NEW e \in Emails, StartLogin(p, e)
        PROVE  TypeOK' /\ LocalsOK'
    BY <1>2, OtherMoves, TypedMoves DEF StartLogin, TypeOK, tables
  <1>8. ASSUME NEW p \in Actors, NEW e \in Emails, NEW u \in Users,
               StartCreate(p, e, u) \/ StartDelete(p, e, u)
        PROVE  TypeOK' /\ LocalsOK'
    BY <1>8, OtherMoves, TypedMoves DEF StartCreate, StartDelete, TypeOK, tables
  <1>3. ASSUME NEW p \in Actors, NEW e \in Emails, NEW u \in Users, StartSingle(p, e, u)
        PROVE  TypeOK' /\ LocalsOK'
    BY <1>3, OtherMoves, TypedMoves DEF StartSingle, TypeOK, tables
  <1>4. ASSUME NEW p \in Actors, SweepError(p) \/ Crash(p)
        PROVE  TypeOK' /\ LocalsOK'
    <2>1. h' \in [Actors -> Handler] /\ LocalsOK'
      BY <1>4, OtherMoves, TypedMoves
    <2>2. crashes' \in 0..MaxCrashes /\ UNCHANGED tables
      BY <1>4, CrashAssumption DEF SweepError, Crash, TypeOK
    <2> QED
      BY <2>1, <2>2 DEF TypeOK, tables
  <1>5. ASSUME NEW p \in Actors, StartBatch(p)
        PROVE  TypeOK' /\ LocalsOK'
    BY <1>5, OtherMoves, TypedMoves DEF StartBatch, TypeOK, tables
  <1>6. ASSUME NEW e \in Emails, Expire(e)
        PROVE  TypeOK' /\ LocalsOK'
    <2>1. res' \in [Emails -> Row \cup {NoRow}]
      BY <1>6 DEF Expire, Has, TypeOK, Row
    <2> QED
      BY <1>6, <2>1 DEF Expire, TypeOK, LocalsOK
  <1>7. CASE UNCHANGED vars
    BY <1>7 DEF vars, TypeOK, LocalsOK
  <1> QED
    BY <1>1, <1>2, <1>3, <1>4, <1>5, <1>6, <1>7, <1>8 DEF Next, Actors

\* Every variable keeps its type, whatever the environment does.
THEOREM Typing == Spec => [](TypeOK /\ LocalsOK)
  <1>1. Init => TypeOK /\ LocalsOK
    BY TypeInit DEF Init, LocalsOK, LocalOK, Idle, Creating, Early, ReserveLabels, ExpireLabels
  <1>2. TypeOK /\ LocalsOK /\ [Next]_vars => TypeOK' /\ LocalsOK'
    BY TypeNext
  <1> QED
    BY <1>1, <1>2, PTL DEF Spec
-----------------------------------------------------------------------------
(***************************************************************************)
(* Uniqueness.  The environment may crash handlers, fail writes, let rows  *)
(* expire, leave unrouted rows and run the reconcile command at any time;  *)
(* it may not stall a writer past its reservation, report a committed      *)
(* transaction as failed, or hold users that were never reserved.          *)
(***************************************************************************)
Reliable == Conditions \cap {"stall", "ambiguous", "legacy"} = {}

IInv == TypeOK /\ LocalsOK /\ SleepingHandlers /\ EveryUserReserved

Kept(x) == CreatorOK(x) /\ OwnerOK(x) /\ SnapshotOK(x)

\* p goes on as the creator it was, or as no creator.
SameCreator(p) ==
  /\ Creating(h'[p]) => Creating(h[p]) /\ h'[p].uid = h[p].uid /\ h'[p].em = h[p].em
  /\ Early(h'[p]) => Early(h[p])
  /\ h'[p].pc = "write" => Early(h[p]) \/ h[p].pc = "write"

LEMMA PairsKept ==
  ASSUME SleepingHandlers, NEW p \in Actors, Moved(p), SameCreator(p),
         \A q \in Actors : NotAwaited(h'[p], h'[q])
  PROVE  \A q, r \in Actors : /\ NotAwaited(h'[q], h'[r])
                              /\ q # r => Distinct(h'[q], h'[r])
  <1> SUFFICES ASSUME NEW q \in Actors, NEW r \in Actors
               PROVE  /\ NotAwaited(h'[q], h'[r])
                      /\ q # r => Distinct(h'[q], h'[r])
    OBVIOUS
  <1>0. /\ q # p => h'[q] = h[q]
        /\ r # p => h'[r] = h[r]
    BY DEF Moved
  <1>1. /\ NotAwaited(h[q], h[r])
        /\ q # r => Distinct(h[q], h[r])
    BY DEF SleepingHandlers
  <1>2. NotAwaited(h'[q], h'[r])
    <2>1. CASE q = p
      BY <2>1
    <2>2. CASE q # p /\ r = p
      BY <2>2, <1>0, <1>1 DEF NotAwaited, SameCreator, Creating
    <2>3. CASE q # p /\ r # p
      BY <2>3, <1>0, <1>1
    <2> QED
      BY <2>1, <2>2, <2>3
  <1>3. q # r => Distinct(h'[q], h'[r])
    BY <1>0, <1>1 DEF Distinct, SameCreator
  <1> QED
    BY <1>2, <1>3

\* What is left to show for a step of p.
LEMMA StepKeeps ==
  ASSUME SleepingHandlers, NEW p \in Actors, Moved(p), SameCreator(p), TablesOK',
         \A q \in Actors : Kept(h[q])',
         \A q \in Actors : NotAwaited(h'[p], h'[q])
  PROVE  SleepingHandlers'
  BY PairsKept DEF SleepingHandlers, Kept

\* A step that only moves p: the others rely on tables that do not change.
LEMMA LocalKeeps ==
  ASSUME SleepingHandlers, NEW p \in Actors, Moved(p), SameCreator(p), UNCHANGED tables,
         h'[p].pc = "write" => h[p].pc = "write",
         OwnerOK(h[p])', SnapshotOK(h[p])',
         \A q \in Actors : NotAwaited(h'[p], h'[q])
  PROVE  SleepingHandlers'
  <1>1. TablesOK'
    BY DEF SleepingHandlers, TablesOK, tables
  <1>2. Kept(h[p])'
    <2>1. CreatorOK(h[p])
      BY DEF SleepingHandlers
    <2>2. CreatorOK(h'[p])
      BY <2>1 DEF CreatorOK, SameCreator, Creating, HeldBy, Matches, Has
    <2>3. CreatorOK(h[p])'
      BY <2>2 DEF CreatorOK, tables, HeldBy, Matches, Has
    <2> QED
      BY <2>3 DEF Kept
  <1>3. \A q \in Actors : q # p => Kept(h[q])'
    BY DEF SleepingHandlers, Moved, Kept, CreatorOK, OwnerOK, SnapshotOK, tables, HeldBy,
       Matches, Has, OnShard
  <1> QED
    BY <1>1, <1>2, <1>3, StepKeeps

\* Labels at which a handler relies on nothing.
Free == {"idle", "resolveRead", "resolveReread", "load", "sweepRead"}

LEMMA FreeKeeps ==
  ASSUME SleepingHandlers, NEW p \in Actors, Moved(p), UNCHANGED tables, h'[p].pc \in Free
  PROVE  SleepingHandlers'
  <1>1. SameCreator(p)
    BY DEF SameCreator, Creating, Early, Free, ReserveLabels, ExpireLabels
  <1>2. OwnerOK(h[p])' /\ SnapshotOK(h[p])' /\ (\A q \in Actors : NotAwaited(h'[p], h'[q]))
    BY DEF OwnerOK, SnapshotOK, NotAwaited, Free
  <1> QED
    BY <1>1, <1>2, LocalKeeps DEF Free

LEMMA FinishKeeps ==
  ASSUME TypeOK, SleepingHandlers, NEW p \in Actors, Finish(p), UNCHANGED tables
  PROVE  SleepingHandlers'
  <1>1. Moved(p)
    BY FinishMoves
  <1>2. h'[p].pc = "idle"
    BY DEF Finish, TypeOK, Idle
  <1> QED
    BY <1>1, <1>2, FreeKeeps DEF Free

\* Steps of a creator or a login that read.
LEMMA ExpireReadKeeps ==
  ASSUME TypeOK, LocalsOK, SleepingHandlers, NEW p \in Actors, ExpireRead(p), Moved(p)
  PROVE  SleepingHandlers'
  <1> DEFINE e == h[p].em
  <1>0. /\ TablesOK /\ CreatorOK(h[p]) /\ h \in [Actors -> Handler] /\ e \in Emails
        /\ UNCHANGED tables /\ h[p].pc = "expireRead" /\ LocalOK(h[p])
    BY TypedLocals DEF SleepingHandlers, TypeOK, ExpireRead, At, LocalsOK
  <1>1. CASE Goto(p, AfterExpire(p))
    <2>1. /\ h'[p].pc \in {"reserveRead", "resolveReread"}
          /\ h'[p].pc = "reserveRead" => h[p].job = "create"
          /\ h'[p].em = h[p].em /\ h'[p].uid = h[p].uid
      BY <1>1, <1>0 DEF Goto, AfterExpire, Handler
    <2>2. SameCreator(p)
      BY <2>1, <1>0 DEF SameCreator, Creating, Early, ExpireLabels, ReserveLabels
    <2>3. OwnerOK(h[p])' /\ SnapshotOK(h[p])' /\ (\A q \in Actors : NotAwaited(h'[p], h'[q]))
      BY <2>1 DEF OwnerOK, SnapshotOK, NotAwaited
    <2> QED
      BY <2>1, <2>2, <2>3, <1>0, LocalKeeps
  <1>2. CASE ~Goto(p, AfterExpire(p))
    <2>1. /\ h'[p].pc \in {"expireLook", "expireWrite"}
          /\ h'[p].pc = "expireWrite" => ~res[e].routed
          /\ h'[p].em = e /\ h'[p].uid = h[p].uid /\ h'[p].job = h[p].job
          /\ h'[p].snap = res[e] /\ h'[p].seen = FALSE
          /\ Has(e, "PENDING") /\ res[e].expired
      <3> DEFINE l == IF res[e].routed THEN "expireLook" ELSE "expireWrite"
                 r == [h[p] EXCEPT !.pc = l, !.snap = res[e], !.seen = FALSE]
      <3>1. /\ h' = [h EXCEPT ![p] = r] /\ h[p] \in Handler
            /\ Has(e, "PENDING") /\ res[e].expired
        BY <1>2, <1>0 DEF ExpireRead
      <3>2. /\ r.pc = l /\ r.em = e /\ r.uid = h[p].uid /\ r.job = h[p].job
            /\ r.snap = res[e] /\ r.seen = FALSE
        BY <3>1 DEF Handler
      <3>3. h'[p] = r
        BY <3>1, <1>0
      <3> HIDE DEF r, e
      <3> QED
        BY <3>1, <3>2, <3>3
    <2>2. res[e] # NoRow /\ res[e] \in Row
      BY <2>1, TypedLocals DEF Has
    <2>3. SameCreator(p)
      BY <2>1, <1>0 DEF SameCreator, Creating, Early, ExpireLabels, ReserveLabels
    <2>4. res[e].user \in used
      BY <2>2, <1>0 DEF TablesOK
    <2>5. ~res[e].routed => ~OnShard(e, res[e].user)
      <3>1. ASSUME ~res[e].routed PROVE res[e].user \in Users /\ res[e].user \notin born
        BY <3>1, <2>2, <1>0 DEF TablesOK, Row
      <3> QED
        BY <3>1, <1>0, HomeAssumption, NoUserAssumption DEF TablesOK, OnShard
    <2>6. OwnerOK(h[p])' /\ SnapshotOK(h[p])'
      BY <2>1, <2>2, <2>4, <2>5, <1>0 DEF OwnerOK, SnapshotOK, tables, OnShard
    <2>7. ASSUME NEW q \in Actors PROVE NotAwaited(h'[p], h'[q])
      <3>1. CreatorOK(h[q])
        BY DEF SleepingHandlers
      <3>2. /\ h'[q].em = h[q].em /\ h'[q].uid = h[q].uid
            /\ Early(h'[q]) => Early(h[q])
            /\ h'[q].pc = "write" => h[q].pc = "write"
        BY <2>1, <2>3 DEF Moved, SameCreator
      <3> QED
        BY <3>1, <3>2, <2>1 DEF NotAwaited, CreatorOK, HeldBy, Matches, Has
    <2> QED
      BY <2>1, <2>3, <2>6, <2>7, <1>0, LocalKeeps
  <1> QED
    BY <1>1, <1>2

LEMMA OnShardIsBorn ==
  ASSUME TypeOK, SleepingHandlers, NEW e \in Emails, NEW u \in Users, OnShard(e, u)
  PROVE  u \in born
  BY HomeAssumption, NoUserAssumption DEF SleepingHandlers, TablesOK, OnShard, TypeOK

LEMMA ExpireLookKeeps ==
  ASSUME TypeOK, LocalsOK, SleepingHandlers, NEW p \in Actors, ExpireLook(p), Moved(p)
  PROVE  SleepingHandlers'
  <1> DEFINE r == [h[p] EXCEPT !.pc = "expireWrite", !.seen = OnShard(h[p].em, h[p].snap.user)]
  <1>0. /\ h \in [Actors -> Handler] /\ h[p] \in Handler /\ h[p].em \in Emails
        /\ UNCHANGED tables /\ h[p].pc = "expireLook" /\ SnapshotOK(h[p])
    BY TypedLocals DEF SleepingHandlers, TypeOK, ExpireLook, At
  <1>1. h' = [h EXCEPT ![p] = r]
    BY DEF ExpireLook
  <1>2. /\ r.pc = "expireWrite" /\ r.em = h[p].em /\ r.uid = h[p].uid /\ r.job = h[p].job
        /\ r.snap = h[p].snap /\ (r.seen <=> OnShard(h[p].em, h[p].snap.user))
    BY <1>0 DEF Handler
  <1>3. h'[p] = r
    BY <1>1, <1>0
  <1> HIDE DEF r
  <1>4. SameCreator(p)
    BY <1>0, <1>2, <1>3 DEF SameCreator, Creating, Early, ExpireLabels, ReserveLabels
  <1>5. h[p].snap # NoRow /\ h[p].snap.user \in used /\ h[p].snap.user \in Users
    BY <1>0 DEF SnapshotOK, Handler, Row
  <1>6. OwnerOK(h[p])' /\ SnapshotOK(h[p])'
    BY <1>0, <1>2, <1>3, <1>5, OnShardIsBorn DEF OwnerOK, SnapshotOK, tables, OnShard
  <1>7. ASSUME NEW q \in Actors PROVE NotAwaited(h'[p], h'[q])
    <2>1. /\ h'[q].em = h[q].em /\ h'[q].uid = h[q].uid
          /\ Early(h'[q]) => Early(h[q])
          /\ h'[q].pc = "write" => h[q].pc = "write"
      BY <1>2, <1>3, <1>4 DEF Moved, SameCreator
    <2>2. NotAwaited(h[p], h[q])
      BY DEF SleepingHandlers
    <2> QED
      BY <1>0, <1>2, <1>3, <2>1, <2>2 DEF NotAwaited
  <1> QED
    BY <1>0, <1>2, <1>3, <1>4, <1>6, <1>7, LocalKeeps

LEMMA ReserveReadKeeps ==
  ASSUME TypeOK, LocalsOK, SleepingHandlers, NEW p \in Actors, ReserveRead(p), Moved(p)
  PROVE  SleepingHandlers'
  <1>0. UNCHANGED tables /\ h[p].pc = "reserveRead"
    BY DEF ReserveRead, At
  <1>1. CASE Goto(p, "reserveInsert")
    <2>1. h'[p].pc = "reserveInsert" /\ h'[p].em = h[p].em /\ h'[p].uid = h[p].uid
      BY <1>1 DEF Goto, TypeOK, Handler
    <2>2. SameCreator(p)
      BY <1>0, <2>1 DEF SameCreator, Creating, Early, ReserveLabels
    <2>3. OwnerOK(h[p])' /\ SnapshotOK(h[p])' /\ (\A q \in Actors : NotAwaited(h'[p], h'[q]))
      BY <2>1 DEF OwnerOK, SnapshotOK, NotAwaited
    <2> QED
      BY <1>0, <2>1, <2>2, <2>3, LocalKeeps
  <1>2. CASE Finish(p)
    BY <1>0, <1>2, FinishKeeps
  <1> QED
    BY <1>1, <1>2 DEF ReserveRead

LEMMA ResolveKeeps ==
  ASSUME TypeOK, LocalsOK, SleepingHandlers, NEW p \in Actors, Moved(p),
         ResolveRead(p) \/ ResolveReread(p)
  PROVE  SleepingHandlers'
  <1>0. /\ UNCHANGED tables /\ h[p].pc \in {"resolveRead", "resolveReread"}
        /\ h[p].job = "login" /\ h \in [Actors -> Handler]
    BY DEF ResolveRead, ResolveReread, At, LocalsOK, LocalOK, TypeOK
  <1>1. CASE Goto(p, "expireRead")
    <2>1. h'[p].pc = "expireRead" /\ h'[p].job = "login"
      BY <1>0, <1>1 DEF Goto, Handler
    <2>2. SameCreator(p)
      BY <1>0, <2>1 DEF SameCreator, Creating, Early, ReserveLabels, ExpireLabels
    <2>3. OwnerOK(h[p])' /\ SnapshotOK(h[p])' /\ (\A q \in Actors : NotAwaited(h'[p], h'[q]))
      BY <2>1 DEF OwnerOK, SnapshotOK, NotAwaited
    <2> QED
      BY <1>0, <2>1, <2>2, <2>3, LocalKeeps
  <1>2. CASE ~Goto(p, "expireRead")
    <2>1. h'[p].pc \in {"idle", "resolveRead", "load"}
      <3>1. CASE Finish(p)
        BY <3>1, <1>0 DEF Finish, Idle
      <3>2. CASE Goto(p, "resolveRead")
        BY <3>2, <1>0 DEF Goto, Handler
      <3>3. CASE h' = [h EXCEPT ![p] = [h[p] EXCEPT !.pc = "load", !.snap = res[h[p].em]]]
        BY <3>3, <1>0 DEF Handler
      <3> QED
        BY <3>1, <3>2, <3>3, <1>2 DEF ResolveRead, ResolveReread
    <2> QED
      BY <1>0, <2>1, FreeKeeps DEF Free
  <1> QED
    BY <1>1, <1>2

\* Labels that rely on a committed id only.
LEMMA OwnerKeeps ==
  ASSUME SleepingHandlers, NEW p \in Actors, Moved(p), UNCHANGED tables,
         h'[p].pc \in {"activate", "mark", "markCheck", "delete"}, h'[p].uid \in born
  PROVE  SleepingHandlers'
  <1>1. SameCreator(p)
    BY DEF SameCreator, Creating, Early, ReserveLabels, ExpireLabels
  <1>2. OwnerOK(h[p])' /\ SnapshotOK(h[p])' /\ (\A q \in Actors : NotAwaited(h'[p], h'[q]))
    BY DEF OwnerOK, SnapshotOK, NotAwaited, tables
  <1> QED
    BY <1>1, <1>2, LocalKeeps

LEMMA LoadKeeps ==
  ASSUME TypeOK, LocalsOK, SleepingHandlers, NEW p \in Actors, Load(p), Moved(p)
  PROVE  SleepingHandlers'
  <1>0. UNCHANGED tables /\ h[p].pc = "load" /\ h \in [Actors -> Handler] /\ h[p] \in Handler
    BY DEF Load, At, TypeOK
  <1>1. CASE Finish(p)
    BY <1>0, <1>1, FinishKeeps
  <1>2. CASE ~Finish(p)
    <2> DEFINE r == [h[p] EXCEPT !.pc = "activate", !.uid = h[p].snap.user]
    <2>1. OnShard(h[p].em, h[p].snap.user) /\ h' = [h EXCEPT ![p] = r]
      BY <1>2 DEF Load
    <2>2. h[p].snap.user \in Users
      BY <1>0 DEF LocalsOK, LocalOK, Row
    <2>3. h'[p].pc = "activate" /\ h'[p].uid = h[p].snap.user
      BY <1>0, <2>1 DEF Handler
    <2> QED
      BY <1>0, <2>1, <2>2, <2>3, OnShardIsBorn, OwnerKeeps, TypedLocals
  <1> QED
    BY <1>1, <1>2

LEMMA MarkCheckKeeps ==
  ASSUME TypeOK, LocalsOK, SleepingHandlers, NEW p \in Actors, MarkCheck(p), Moved(p)
  PROVE  SleepingHandlers'
  <1>0. UNCHANGED tables /\ h[p].uid \in born
    BY DEF MarkCheck, At, SleepingHandlers, OwnerOK
  <1>1. CASE Finish(p)
    BY <1>0, <1>1, FinishKeeps
  <1>2. CASE Goto(p, "delete")
    <2>1. h'[p].pc = "delete" /\ h'[p].uid = h[p].uid
      BY <1>2 DEF Goto, TypeOK, Handler
    <2> QED
      BY <1>0, <2>1, OwnerKeeps
  <1> QED
    BY <1>1, <1>2 DEF MarkCheck

LEMMA SweepReadKeeps ==
  ASSUME TypeOK, LocalsOK, SleepingHandlers, NEW p \in Actors, SweepRead(p), Moved(p)
  PROVE  SleepingHandlers'
  <1>0. UNCHANGED tables /\ h \in [Actors -> Handler] /\ h[p] \in Handler
    BY DEF SweepRead, TypeOK
  <1>1. CASE Finish(p)
    BY <1>0, <1>1, FinishKeeps
  <1>2. ASSUME NEW f \in Emails, NEW t \in SUBSET (Emails \X Users),
               Has(f, "RELEASE_PENDING") \/ Has(f, "ACTIVE"), res[f].routed,
               h' = [h EXCEPT ![p] = [h[p] EXCEPT !.todo = t, !.em = f, !.pc = "sweepLook",
                                                  !.snap = res[f]]]
        PROVE  SleepingHandlers'
    <2>1. h'[p].pc = "sweepLook" /\ h'[p].snap = res[f]
      BY <1>0, <1>2 DEF Handler
    <2>2. res[f] # NoRow /\ res[f].user \in born
      BY <1>2 DEF Has, SleepingHandlers, TablesOK
    <2>3. SameCreator(p)
      BY <2>1 DEF SameCreator, Creating, Early, ReserveLabels, ExpireLabels
    <2>4. OwnerOK(h[p])' /\ SnapshotOK(h[p])' /\ (\A q \in Actors : NotAwaited(h'[p], h'[q]))
      BY <1>0, <2>1, <2>2 DEF OwnerOK, SnapshotOK, NotAwaited, tables
    <2> QED
      BY <1>0, <2>1, <2>3, <2>4, LocalKeeps
  <1>3. CASE ~Finish(p) /\ h'[p].pc \in Free
    BY <1>0, <1>3, FreeKeeps
  <1>4. CASE ~Finish(p) /\ h'[p].pc \notin Free
    <2>1. PICK r \in h[p].todo :
            LET f == r[1]
                c == /\ Matches(f, r[2], "RELEASE_PENDING") \/ Matches(f, r[2], "ACTIVE")
                     /\ res[f].routed
            IN h' = [h EXCEPT ![p] =
                       [h[p] EXCEPT !.todo = h[p].todo \ {r}, !.em = f,
                                    !.pc = IF c THEN "sweepLook" ELSE "sweepRead",
                                    !.snap = IF c THEN res[f] ELSE NoRow]]
      BY <1>4 DEF SweepRead
    <2> DEFINE f == r[1]
               c == /\ Matches(f, r[2], "RELEASE_PENDING") \/ Matches(f, r[2], "ACTIVE")
                    /\ res[f].routed
               t == h[p].todo \ {r}
    <2>2. f \in Emails /\ t \in SUBSET (Emails \X Users)
      BY <1>0 DEF Handler
    <2>3. CASE c
      <3>1. h' = [h EXCEPT ![p] = [h[p] EXCEPT !.todo = t, !.em = f, !.pc = "sweepLook",
                                               !.snap = res[f]]]
        BY <2>1, <2>3
      <3>2. (Has(f, "RELEASE_PENDING") \/ Has(f, "ACTIVE")) /\ res[f].routed
        BY <2>3 DEF Matches
      <3> HIDE DEF f, t
      <3> QED
        BY <3>1, <3>2, <2>2, <1>2
    <2>4. CASE ~c
      <3>1. h' = [h EXCEPT ![p] = [h[p] EXCEPT !.todo = t, !.em = f, !.pc = "sweepRead",
                                               !.snap = NoRow]]
        BY <2>1, <2>4
      <3> HIDE DEF f, t
      <3>2. h'[p].pc = "sweepRead"
        BY <3>1, <1>0 DEF Handler
      <3> QED
        BY <3>2, <1>4 DEF Free
    <2> QED
      BY <2>3, <2>4
  <1> QED
    BY <1>1, <1>3, <1>4

LEMMA SweepLookKeeps ==
  ASSUME TypeOK, LocalsOK, SleepingHandlers, NEW p \in Actors, SweepLook(p), Moved(p)
  PROVE  SleepingHandlers'
  <1> DEFINE r == [h[p] EXCEPT !.pc = "sweepWrite", !.seen = OnShard(h[p].em, h[p].snap.user)]
  <1>0. /\ h \in [Actors -> Handler] /\ h[p] \in Handler
        /\ UNCHANGED tables /\ h[p].pc = "sweepLook" /\ SnapshotOK(h[p])
    BY TypedLocals DEF SleepingHandlers, TypeOK, SweepLook, At
  <1>1. h' = [h EXCEPT ![p] = r]
    BY DEF SweepLook
  <1>2. /\ r.pc = "sweepWrite" /\ r.em = h[p].em
        /\ r.snap = h[p].snap /\ (r.seen <=> OnShard(h[p].em, h[p].snap.user))
    BY <1>0 DEF Handler
  <1>3. h'[p] = r
    BY <1>1, <1>0
  <1> HIDE DEF r
  <1>4. SameCreator(p)
    BY <1>2, <1>3 DEF SameCreator, Creating, Early, ExpireLabels, ReserveLabels
  <1>6. OwnerOK(h[p])' /\ SnapshotOK(h[p])' /\ (\A q \in Actors : NotAwaited(h'[p], h'[q]))
    BY <1>0, <1>2, <1>3 DEF OwnerOK, SnapshotOK, tables, OnShard, NotAwaited
  <1> QED
    BY <1>0, <1>2, <1>3, <1>4, <1>6, LocalKeeps

\* The other handlers rely on tables that change: x stands for one of them.
LEMMA TableKeeps ==
  ASSUME TypeOK, SleepingHandlers, NEW p \in Actors, Moved(p), SameCreator(p), TablesOK',
         \A x \in Handler : (\E q \in Actors : q # p /\ x = h[q]) => Kept(x)',
         Kept(h[p])',
         \A q \in Actors : NotAwaited(h'[p], h'[q])
  PROVE  SleepingHandlers'
  <1>1. ASSUME NEW q \in Actors, q # p PROVE Kept(h[q])'
    <2>1. PICK x \in Handler : x = h[q]
      BY DEF TypeOK
    <2>2. x = h'[q] /\ Kept(x)'
      BY <1>1, <2>1 DEF Moved
    <2> QED
      BY <2>2 DEF Kept, CreatorOK, OwnerOK, SnapshotOK, HeldBy, Matches, Has, OnShard
  <1> QED
    BY <1>1, StepKeeps

LEMMA FreeTableKeeps ==
  ASSUME TypeOK, SleepingHandlers, NEW p \in Actors, Moved(p), TablesOK', h'[p].pc \in Free,
         \A x \in Handler : (\E q \in Actors : q # p /\ x = h[q]) => Kept(x)'
  PROVE  SleepingHandlers'
  <1>1. SameCreator(p)
    BY DEF SameCreator, Creating, Early, Free, ReserveLabels, ExpireLabels
  <1>2. Kept(h[p])' /\ \A q \in Actors : NotAwaited(h'[p], h'[q])
    BY DEF Kept, CreatorOK, OwnerOK, SnapshotOK, NotAwaited, Creating, Early, Free,
       ReserveLabels, ExpireLabels
  <1> QED
    BY <1>1, <1>2, TableKeeps

\* A status change of a committed user's row.
LEMMA StatusKeeps ==
  ASSUME TypeOK, SleepingHandlers, NEW e \in Emails, NEW st \in {"ACTIVE", "RELEASE_PENDING"},
         res[e] # NoRow, res[e].user \in born, SetStatus(e, st),
         UNCHANGED <<member, used, born>>
  PROVE  /\ TablesOK'
         /\ \A x \in Handler : Kept(x) => Kept(x)'
  <1>0. /\ TablesOK /\ res[e] \in Row /\ res \in [Emails -> Row \cup {NoRow}]
    BY DEF SleepingHandlers, TypeOK
  <1>1. /\ res'[e] # NoRow /\ res'[e].user = res[e].user /\ res'[e].routed = res[e].routed
        /\ \A f \in Emails : f # e => res'[f] = res[f]
    <2>1. res'[e] \in Row /\ res'[e].user = res[e].user /\ res'[e].routed = res[e].routed
      BY <1>0 DEF SetStatus, Row, Status
    <2> QED
      BY <1>0, <2>1, NoRowAssumption DEF SetStatus
  <1>2. TablesOK'
    BY <1>0, <1>1 DEF TablesOK
  <1>3. ASSUME NEW x \in Handler, Kept(x) PROVE Kept(x)'
    <2>1. x.em \in Emails
      BY DEF Handler
    <2>2. CreatorOK(x)'
      <3>1. CreatorOK(x)
        BY <1>3 DEF Kept
      <3>2. x.pc = "write" /\ x.em = e => FALSE
        BY <3>1 DEF CreatorOK, Creating, Matches, Has
      <3> QED
        BY <1>1, <2>1, <3>1, <3>2 DEF CreatorOK, HeldBy, Matches, Has
    <2>3. OwnerOK(x)' /\ SnapshotOK(x)'
      BY <1>3 DEF Kept, OwnerOK, SnapshotOK, OnShard
    <2> QED
      BY <2>2, <2>3 DEF Kept
  <1> QED
    BY <1>2, <1>3

\* A row that nobody is about to write for is deleted.
LEMMA DeleteKeeps ==
  ASSUME TypeOK, SleepingHandlers, NEW e \in Emails, DeleteRow(e),
         UNCHANGED <<member, used, born>>
  PROVE  /\ TablesOK'
         /\ \A x \in Handler : Kept(x) /\ ~(x.pc = "write" /\ x.em = e) => Kept(x)'
  <1>0. TablesOK /\ res \in [Emails -> Row \cup {NoRow}]
    BY DEF SleepingHandlers, TypeOK
  <1>1. res'[e] = NoRow /\ \A f \in Emails : f # e => res'[f] = res[f]
    BY <1>0 DEF DeleteRow
  <1>2. TablesOK'
    BY <1>0, <1>1 DEF TablesOK
  <1>3. ASSUME NEW x \in Handler, Kept(x), ~(x.pc = "write" /\ x.em = e) PROVE Kept(x)'
    <2>1. x.em \in Emails
      BY DEF Handler
    <2>2. CreatorOK(x)'
      BY <1>1, <1>3, <2>1 DEF Kept, CreatorOK, HeldBy, Matches, Has
    <2>3. OwnerOK(x)' /\ SnapshotOK(x)'
      BY <1>3 DEF Kept, OwnerOK, SnapshotOK, OnShard
    <2> QED
      BY <2>2, <2>3 DEF Kept
  <1> QED
    BY <1>2, <1>3

LEMMA ReservedStatus ==
  ASSUME TypeOK, EveryUserReserved, NEW e \in Emails, NEW st \in Status, res[e] # NoRow,
         SetStatus(e, st), UNCHANGED member
  PROVE  EveryUserReserved'
  <1>1. res[e] \in Row /\ res \in [Emails -> Row \cup {NoRow}]
    BY DEF TypeOK
  <1>2. res'[e] \in Row /\ res'[e].user = res[e].user
    BY <1>1 DEF SetStatus, Row, Status
  <1>3. \A f \in Emails : f # e => res'[f] = res[f]
    BY <1>1 DEF SetStatus
  <1> QED
    BY <1>1, <1>2, <1>3, NoRowAssumption DEF EveryUserReserved

LEMMA ReservedDelete ==
  ASSUME TypeOK, EveryUserReserved, NEW e \in Emails, res[e] # NoRow,
         ~OnShard(e, res[e].user), DeleteRow(e), UNCHANGED member
  PROVE  EveryUserReserved'
  <1>1. \A s \in Shards : member[s][e] = NoUser
    BY DEF EveryUserReserved, OnShard
  <1> QED
    BY <1>1 DEF EveryUserReserved, DeleteRow, TypeOK

LEMMA ReservedSame ==
  ASSUME EveryUserReserved, UNCHANGED <<res, member>>
  PROVE  EveryUserReserved'
  BY DEF EveryUserReserved

\* A step of p that deletes or restores a row and then relies on nothing.
LEMMA RowSteps ==
  ASSUME TypeOK, SleepingHandlers, EveryUserReserved, NEW p \in Actors, Moved(p),
         h'[p].pc \in Free, UNCHANGED <<member, used, born>>, NEW e \in Emails,
         \/ res' = res
         \/ /\ res[e] # NoRow /\ res[e].user \in born
            /\ SetStatus(e, "ACTIVE") \/ SetStatus(e, "RELEASE_PENDING")
         \/ /\ res[e] # NoRow /\ DeleteRow(e) /\ ~OnShard(e, res[e].user)
            /\ \A q \in Actors : q # p => ~(h[q].pc = "write" /\ h[q].em = e)
  PROVE  SleepingHandlers' /\ EveryUserReserved'
  <1>0. \A q \in Actors : Kept(h[q])
    BY DEF SleepingHandlers, Kept
  <1>1. CASE res' = res
    BY <1>1, FreeKeeps, ReservedSame DEF tables
  <1>2. ASSUME NEW st \in {"ACTIVE", "RELEASE_PENDING"}, SetStatus(e, st), res[e] # NoRow,
               res[e].user \in born
        PROVE  SleepingHandlers' /\ EveryUserReserved'
    <2>1. TablesOK' /\ \A x \in Handler : Kept(x) => Kept(x)'
      BY <1>2, StatusKeeps
    <2>2. \A x \in Handler : (\E q \in Actors : q # p /\ x = h[q]) => Kept(x)'
      BY <1>0, <2>1
    <2>3. SleepingHandlers'
      BY <2>1, <2>2, FreeTableKeeps
    <2>4. EveryUserReserved'
      BY <1>2, ReservedStatus DEF Status
    <2> QED
      BY <2>3, <2>4
  <1>3. CASE /\ res[e] # NoRow /\ DeleteRow(e) /\ ~OnShard(e, res[e].user)
             /\ \A q \in Actors : q # p => ~(h[q].pc = "write" /\ h[q].em = e)
    <2>1. /\ TablesOK'
          /\ \A x \in Handler : Kept(x) /\ ~(x.pc = "write" /\ x.em = e) => Kept(x)'
      BY <1>3, DeleteKeeps
    <2>2. \A x \in Handler : (\E q \in Actors : q # p /\ x = h[q]) => Kept(x)'
      BY <1>0, <1>3, <2>1
    <2>3. SleepingHandlers'
      BY <2>1, <2>2, FreeTableKeeps
    <2>4. EveryUserReserved'
      BY <1>3, ReservedDelete
    <2> QED
      BY <2>3, <2>4
  <1> QED
    BY <1>1, <1>2, <1>3

\* A creator other than p about to write e holds the row of e.
LEMMA WriterHolds ==
  ASSUME SleepingHandlers, NEW q \in Actors, h[q].pc = "write"
  PROVE  /\ Matches(h[q].em, h[q].uid, "PENDING")
         /\ ~res[h[q].em].expired
         /\ h[q].uid \notin born
  BY DEF SleepingHandlers, CreatorOK, Creating

LEMMA ReleaseKeeps ==
  ASSUME Reliable, IInv, NEW p \in Actors, Release(p), Moved(p)
  PROVE  SleepingHandlers' /\ EveryUserReserved'
  <1> DEFINE e == h[p].em
  <1>0. /\ h[p].pc = "release" /\ h[p].uid \notin born /\ e \in Emails
        /\ h[p].uid \in Users /\ UNCHANGED <<member, used, born>> /\ Finish(p)
    BY TypedLocals DEF Release, At, IInv, SleepingHandlers, CreatorOK, Creating, LocalsOK, LocalOK
  <1>1. ~OnShard(e, h[p].uid)
    BY <1>0, OnShardIsBorn DEF IInv
  <1>2. ASSUME NEW q \in Actors, q # p, h[q].pc = "write", h[q].em = e, res[e].user = h[p].uid
        PROVE  FALSE
    BY <1>0, <1>2, WriterHolds DEF IInv, SleepingHandlers, Distinct, Creating, Matches
  <1>3. h'[p].pc \in Free
    BY <1>0 DEF Finish, Idle, Free, IInv, TypeOK
  <1> QED
    BY <1>0, <1>1, <1>2, <1>3, RowSteps DEF Release, IInv

LEMMA ActivateKeeps ==
  ASSUME IInv, NEW p \in Actors, Activate(p), Moved(p)
  PROVE  SleepingHandlers' /\ EveryUserReserved'
  <1> DEFINE e == h[p].em
  <1>0. /\ h[p].uid \in born /\ e \in Emails
        /\ UNCHANGED <<member, used, born>> /\ Finish(p)
    BY TypedLocals DEF Activate, At, IInv, SleepingHandlers, OwnerOK
  <1>1. h'[p].pc \in Free
    BY <1>0 DEF Finish, Idle, Free, IInv, TypeOK
  <1> QED
    BY <1>0, <1>1, RowSteps DEF Activate, IInv, Matches, Has

LEMMA FinalizeKeeps ==
  ASSUME IInv, NEW p \in Actors, FinalizeRelease(p), Moved(p)
  PROVE  SleepingHandlers' /\ EveryUserReserved'
  <1> DEFINE e == h[p].em
  <1>0. /\ h[p].uid \in born /\ e \in Emails /\ ~OnShard(e, h[p].uid)
        /\ UNCHANGED <<member, used, born>> /\ Finish(p)
    BY TypedLocals DEF FinalizeRelease, At, IInv, SleepingHandlers, OwnerOK
  <1>1. h'[p].pc \in Free
    BY <1>0 DEF Finish, Idle, Free, IInv, TypeOK
  <1>2. ASSUME Matches(e, h[p].uid, "RELEASE_PENDING"),
               NEW q \in Actors, h[q].pc = "write", h[q].em = e
        PROVE  FALSE
    BY <1>2, WriterHolds DEF IInv, Matches, Has
  <1> QED
    BY <1>0, <1>1, <1>2, RowSteps DEF FinalizeRelease, IInv, Matches, Has

LEMMA SweepWriteKeeps ==
  ASSUME IInv, NEW p \in Actors, SweepWrite(p), Moved(p)
  PROVE  SleepingHandlers' /\ EveryUserReserved'
  <1> DEFINE e == h[p].em
             u == h[p].snap.user
             same == Matches(e, u, h[p].snap.status)
  <1>0. /\ u \in born /\ e \in Emails /\ (~h[p].seen => ~OnShard(e, u))
        /\ UNCHANGED <<member, used, born>>
    BY TypedLocals DEF SweepWrite, At, IInv, SleepingHandlers, SnapshotOK
  <1>1. h'[p].pc \in Free
    <2>1. h' = [h EXCEPT ![p] = [h[p] EXCEPT !.pc = "sweepRead", !.snap = NoRow, !.seen = FALSE]]
      BY DEF SweepWrite
    <2> QED
      BY <2>1 DEF Free, IInv, TypeOK, Handler
  <1>2. ASSUME same, NEW q \in Actors, h[q].pc = "write", h[q].em = e
        PROVE  FALSE
    BY <1>0, <1>2, WriterHolds DEF IInv, Matches, Has
  <1>3. \/ res' = res
        \/ same /\ SetStatus(e, "ACTIVE")
        \/ same /\ ~h[p].seen /\ DeleteRow(e)
    BY DEF SweepWrite
  <1>4. same => res[e] # NoRow /\ res[e].user = u
    BY DEF Matches, Has
  <1> HIDE DEF e, u, same
  <1> QED
    BY <1>0, <1>1, <1>2, <1>3, <1>4, RowSteps DEF IInv

\* A creator that goes on keeps what it knew when the tables changed.
LEMMA OwnKept ==
  ASSUME NEW p \in Actors, SameCreator(p), h'[p].pc # "write", NEW x, x = h[p], CreatorOK(x)'
  PROVE  CreatorOK(h[p])'
  <1> USE DEF HeldBy
  <1>1. /\ Creating(x) => /\ x.uid \in used' \ born'
                          /\ \A e \in Emails : res'[e] # NoRow /\ res'[e].user = x.uid => res'[e].routed
        /\ Early(x) => ~(res'[x.em] # NoRow /\ res'[x.em].user = x.uid)
    BY DEF CreatorOK, Creating, Early
  <1>2. PICK y : y = h'[p]
    OBVIOUS
  <1>3. /\ Creating(y) => Creating(x) /\ y.uid = x.uid /\ y.em = x.em
        /\ Early(y) => Early(x)
        /\ Early(y) => Creating(y)
        /\ y.pc # "write"
    BY <1>2 DEF SameCreator, Creating
  <1>4. /\ Creating(y) => /\ y.uid \in used' \ born'
                          /\ \A e \in Emails : res'[e] # NoRow /\ res'[e].user = y.uid => res'[e].routed
        /\ Early(y) => ~(res'[y.em] # NoRow /\ res'[y.em].user = y.uid)
    BY <1>1, <1>3
  <1>5. CreatorOK(y)'
    BY <1>3, <1>4 DEF CreatorOK, Creating, Early
  <1> QED
    BY <1>2, <1>5 DEF CreatorOK, Creating, Early, Matches, Has

LEMMA ExpireWriteKeeps ==
  ASSUME IInv, NEW p \in Actors, ExpireWrite(p), Moved(p)
  PROVE  SleepingHandlers' /\ EveryUserReserved'
  <1> DEFINE e == h[p].em
             u == h[p].snap.user
             mine == Matches(e, u, "PENDING")
  <1>0. /\ e \in Emails /\ h[p] \in Handler /\ h[p].pc = "expireWrite"
        /\ h[p].seen => u \in born
        /\ ~h[p].seen => ~OnShard(e, u)
        /\ UNCHANGED <<member, used, born>>
        /\ TypeOK /\ SleepingHandlers /\ EveryUserReserved
    BY TypedLocals DEF ExpireWrite, At, IInv, SleepingHandlers, SnapshotOK
  <1>1. /\ h'[p].pc \in {"reserveRead", "resolveReread"}
        /\ h'[p].pc = "reserveRead" => h[p].job = "create"
        /\ h'[p].em = h[p].em /\ h'[p].uid = h[p].uid
    BY <1>0 DEF ExpireWrite, AfterExpire, Handler, TypeOK
  <1>2. SameCreator(p)
    BY <1>0, <1>1 DEF SameCreator, Creating, Early, ReserveLabels, ExpireLabels
  <1>3. OwnerOK(h[p])' /\ SnapshotOK(h[p])' /\ \A q \in Actors : NotAwaited(h'[p], h'[q])
    BY <1>1 DEF OwnerOK, SnapshotOK, NotAwaited
  <1>4. \/ res' = res
        \/ mine /\ h[p].seen /\ SetStatus(e, "ACTIVE")
        \/ mine /\ ~h[p].seen /\ res[e].expired /\ DeleteRow(e)
    BY DEF ExpireWrite
  <1>5. mine => res[e] # NoRow /\ res[e].user = u
    BY DEF Matches, Has
  <1>6. \A q \in Actors : Kept(h[q])
    BY <1>0 DEF SleepingHandlers, Kept
  <1>7. ASSUME TablesOK', \A q \in Actors : \A x \in Handler : x = h[q] => Kept(x)'
        PROVE  SleepingHandlers'
    <2>1. \A x \in Handler : (\E q \in Actors : q # p /\ x = h[q]) => Kept(x)'
      BY <1>7
    <2>2. PICK x \in Handler : x = h[p]
      BY <1>0
    <2>3. CreatorOK(x)'
      BY <1>7, <2>2 DEF Kept
    <2>4. Kept(h[p])'
      BY <1>1, <1>2, <1>3, <2>2, <2>3, OwnKept DEF Kept
    <2> QED
      BY <1>7, <1>0, <1>2, <1>3, <2>1, <2>4, TableKeeps
  <1> HIDE DEF e, u, mine
  <1>8. CASE res' = res
    <2>1. SleepingHandlers'
      BY <1>0, <1>1, <1>2, <1>3, <1>8, LocalKeeps DEF tables
    <2> QED
      BY <1>0, <1>8, <2>1, ReservedSame
  <1>9. CASE mine /\ h[p].seen /\ SetStatus(e, "ACTIVE")
    <2>1. TablesOK' /\ \A x \in Handler : Kept(x) => Kept(x)'
      BY <1>9, <1>0, <1>5, StatusKeeps
    <2>2. SleepingHandlers'
      BY <2>1, <1>6, <1>7
    <2>3. EveryUserReserved'
      BY <1>9, <1>0, <1>5, ReservedStatus DEF Status
    <2> QED
      BY <2>2, <2>3
  <1>10. CASE mine /\ ~h[p].seen /\ res[e].expired /\ DeleteRow(e)
    <2>1. /\ TablesOK'
          /\ \A x \in Handler : Kept(x) /\ ~(x.pc = "write" /\ x.em = e) => Kept(x)'
      BY <1>10, <1>0, DeleteKeeps
    <2>2. \A q \in Actors : ~(h[q].pc = "write" /\ h[q].em = e)
      BY <1>10, <1>0, WriterHolds
    <2>3. SleepingHandlers'
      BY <2>1, <2>2, <1>6, <1>7
    <2>4. EveryUserReserved'
      BY <1>10, <1>0, <1>5, ReservedDelete
    <2> QED
      BY <2>3, <2>4
  <1> QED
    BY <1>4, <1>8, <1>9, <1>10

LEMMA ReserveInsertKeeps ==
  ASSUME IInv, NEW p \in Actors, ReserveInsert(p), Moved(p)
  PROVE  SleepingHandlers' /\ EveryUserReserved'
  <1> DEFINE e == h[p].em
             u == h[p].uid
             r == [user |-> u, status |-> "PENDING", expired |-> FALSE, routed |-> TRUE]
  <1>0. /\ e \in Emails /\ h[p] \in Handler /\ h[p].pc = "reserveInsert"
        /\ UNCHANGED <<member, used, born>> /\ TablesOK
        /\ TypeOK /\ SleepingHandlers /\ EveryUserReserved
        /\ Early(h[p]) /\ Creating(h[p]) /\ CreatorOK(h[p]) /\ u \in Users
        /\ u \in used \ born
    BY TypedLocals DEF ReserveInsert, At, IInv, SleepingHandlers, Creating, Early, ReserveLabels,
       CreatorOK, LocalsOK, LocalOK
  <1>1. CASE Finish(p) /\ res' = res
    BY <1>0, <1>1, FinishKeeps, ReservedSame DEF tables
  <1>2. CASE res[e] = NoRow /\ res' = [res EXCEPT ![e] = r] /\ Goto(p, "write")
    <2>1. h'[p].pc = "write" /\ h'[p].em = e /\ h'[p].uid = u
      BY <1>0, <1>2 DEF Goto, Handler, TypeOK
    <2>2. SameCreator(p)
      BY <1>0, <2>1 DEF SameCreator, Early, ReserveLabels, ExpireLabels
    <2>10. r \in Row
      BY <1>0 DEF Row, Status
    <2>3. r.user = u /\ r.status = "PENDING" /\ r.expired = FALSE /\ r.routed = TRUE
      OBVIOUS
    <2> HIDE DEF r
    <2>11. r # NoRow
      BY <2>10, NoRowAssumption
    <2>4. res'[e] = r /\ \A f \in Emails : f # e => res'[f] = res[f]
      BY <1>0, <1>2 DEF TypeOK
    <2>5. TablesOK'
      BY <1>0, <2>3, <2>4 DEF TablesOK
    <2>6. EveryUserReserved'
      BY <1>0, <1>2, <2>4 DEF EveryUserReserved
    <2>7. Kept(h[p])'
      <3>1. CreatorOK(h[p])'
        BY <1>0, <2>1, <2>2, <2>3, <2>11, <2>4 DEF CreatorOK, SameCreator, Matches, Has, HeldBy,
           Early, ReserveLabels, ExpireLabels
      <3> QED
        BY <2>1, <3>1 DEF Kept, OwnerOK, SnapshotOK
    <2>8. \A q \in Actors : NotAwaited(h'[p], h'[q])
      BY <2>1 DEF NotAwaited
    <2>9. ASSUME NEW x \in Handler, NEW q \in Actors, q # p, x = h[q]
          PROVE  Kept(x)'
      <3>1. Kept(x) /\ Distinct(x, h[p]) /\ x.em \in Emails
        BY <2>9 DEF IInv, SleepingHandlers, Kept, Handler
      <3>2. x.pc = "write" => x.em # e
        BY <1>2, <3>1 DEF Kept, CreatorOK, Matches, Has
      <3>3. Creating(x) => x.uid # u
        BY <1>0, <3>1 DEF Distinct
      <3>4. CreatorOK(x)'
        <4>1. Creating(x) => x.uid \in used' \ born'
          BY <1>0, <3>1 DEF Kept, CreatorOK
        <4>2. ASSUME Creating(x), NEW f \in Emails, HeldBy(f, x.uid)' PROVE res'[f].routed
          BY <4>2, <3>1, <3>3, <2>3, <2>4 DEF Kept, CreatorOK, HeldBy
        <4>3. ASSUME Early(x) PROVE ~HeldBy(x.em, x.uid)'
          BY <4>3, <3>1, <3>3, <2>3, <2>4 DEF Kept, CreatorOK, HeldBy, Creating
        <4>4. ASSUME x.pc = "write" PROVE (Matches(x.em, x.uid, "PENDING") /\ ~res[x.em].expired)'
          BY <4>4, <3>1, <3>2, <2>4 DEF Kept, CreatorOK, Matches, Has
        <4> QED
          BY <4>1, <4>2, <4>3, <4>4 DEF CreatorOK
      <3>5. OwnerOK(x)' /\ SnapshotOK(x)'
        BY <1>0, <3>1 DEF Kept, OwnerOK, SnapshotOK, OnShard
      <3> QED
        BY <3>4, <3>5 DEF Kept
    <2> QED
      BY <1>0, <2>2, <2>5, <2>6, <2>7, <2>8, <2>9, TableKeeps
  <1> QED
    BY <1>0, <1>1, <1>2 DEF ReserveInsert

\* The commit of a shard transaction: u is new to the shard and has its row.
LEMMA CommitKeeps ==
  ASSUME IInv, NEW p \in Actors, h[p].pc = "write", CommitUser(p), Goto(p, "activate"),
         UNCHANGED <<res, used>>, Moved(p)
  PROVE  SleepingHandlers' /\ EveryUserReserved'
  <1> DEFINE e == h[p].em
             u == h[p].uid
  <1>0. /\ e \in Emails /\ u \in Users /\ u \in used \ born /\ Matches(e, u, "PENDING")
        /\ \A f \in Emails : HeldBy(f, u) => res[f].routed
        /\ TypeOK /\ SleepingHandlers /\ EveryUserReserved /\ TablesOK /\ Home[u] \in Shards
    BY TypedLocals, HomeAssumption DEF IInv, SleepingHandlers, CreatorOK, Creating, LocalsOK,
       LocalOK
  <1>1. /\ \A s \in Shards, f \in Emails :
             member'[s][f] = IF s = Home[u] /\ f = e THEN u ELSE member[s][f]
        /\ born' = born \cup {u}
    BY <1>0 DEF CommitUser, TypeOK
  <1>2. h'[p].pc = "activate" /\ h'[p].uid = u
    BY <1>0 DEF Goto, Handler, TypeOK
  <1>3. SameCreator(p) /\ \A q \in Actors : NotAwaited(h'[p], h'[q])
    BY <1>2 DEF SameCreator, Creating, Early, ReserveLabels, ExpireLabels, NotAwaited
  <1>4. TablesOK'
    BY <1>0, <1>1 DEF TablesOK, HeldBy
  <1>5. EveryUserReserved'
    BY <1>0, <1>1 DEF EveryUserReserved, Matches, Has
  <1>6. Kept(h[p])'
    BY <1>1, <1>2 DEF Kept, CreatorOK, OwnerOK, SnapshotOK, Creating, Early, ReserveLabels,
       ExpireLabels
  <1>7. ASSUME NEW x \in Handler, NEW q \in Actors, q # p, x = h[q]
        PROVE  Kept(x)'
    <2>1. Kept(x) /\ Distinct(x, h[p]) /\ NotAwaited(x, h[p]) /\ x.em \in Emails
      BY <1>7, <1>0 DEF SleepingHandlers, Kept, Handler
    <2>2. CreatorOK(x)'
      BY <1>0, <1>1, <2>1 DEF Kept, CreatorOK, Distinct, Creating, HeldBy, Matches, Has
    <2>3. ASSUME NEW v \in Users, ~OnShard(x.em, v), v # u \/ x.em # e
          PROVE  ~OnShard(x.em, v)'
      BY <1>1, <2>1, <2>3, HomeAssumption DEF OnShard
    <2>4. born \subseteq Users /\ used \subseteq Users
      BY <1>0 DEF TypeOK
    <2>5. OwnerOK(x)'
      BY <1>0, <1>1, <2>1, <2>3, <2>4 DEF Kept, OwnerOK, OnShard
    <2>6. SnapshotOK(x)'
      BY <1>0, <1>1, <2>1, <2>3, <2>4 DEF Kept, SnapshotOK, NotAwaited, OnShard
    <2> QED
      BY <2>2, <2>5, <2>6 DEF Kept
  <1> QED
    BY <1>0, <1>3, <1>4, <1>5, <1>6, <1>7, TableKeeps

LEMMA ShardWriteKeeps ==
  ASSUME Reliable, IInv, NEW p \in Actors, ShardWrite(p), Moved(p)
  PROVE  SleepingHandlers' /\ EveryUserReserved'
  <1>0. /\ h[p].pc = "write" /\ UNCHANGED <<res, used>> /\ "ambiguous" \notin Conditions
        /\ TypeOK /\ SleepingHandlers /\ EveryUserReserved
    BY DEF ShardWrite, At, Reliable, IInv
  <1>1. CASE UNCHANGED <<member, born>> /\ Goto(p, "release")
    <2>1. h'[p].pc = "release" /\ h'[p].em = h[p].em /\ h'[p].uid = h[p].uid
      BY <1>0, <1>1 DEF Goto, Handler, TypeOK
    <2>2. SameCreator(p)
      BY <1>0, <2>1 DEF SameCreator, Creating, Early, ReserveLabels, ExpireLabels
    <2>3. OwnerOK(h[p])' /\ SnapshotOK(h[p])' /\ \A q \in Actors : NotAwaited(h'[p], h'[q])
      BY <2>1 DEF OwnerOK, SnapshotOK, NotAwaited
    <2> QED
      BY <1>0, <1>1, <2>1, <2>2, <2>3, LocalKeeps, ReservedSame DEF tables
  <1>2. CASE CommitUser(p) /\ Goto(p, "activate")
    BY <1>0, <1>2, CommitKeeps
  <1> QED
    BY <1>0, <1>1, <1>2 DEF ShardWrite

LEMMA MarkReleasePendingKeeps ==
  ASSUME IInv, NEW p \in Actors, MarkReleasePending(p), Moved(p)
  PROVE  SleepingHandlers' /\ EveryUserReserved'
  <1> DEFINE e == h[p].em
  <1>0. /\ e \in Emails /\ h[p].uid \in born /\ UNCHANGED <<member, used, born>>
        /\ TypeOK /\ SleepingHandlers /\ EveryUserReserved
    BY TypedLocals DEF MarkReleasePending, At, IInv, SleepingHandlers, OwnerOK
  <1>1. ASSUME NEW l \in Labels, Goto(p, l) PROVE h'[p].pc = l /\ h'[p].uid = h[p].uid
    BY <1>0, <1>1 DEF Goto, Handler, TypeOK
  <1>2. CASE Goto(p, "markCheck") /\ UNCHANGED res
    BY <1>0, <1>1, <1>2, OwnerKeeps, ReservedSame DEF tables, Labels
  <1>3. CASE /\ res[e] # NoRow /\ res[e].user = h[p].uid
             /\ SetStatus(e, "RELEASE_PENDING") /\ Goto(p, "delete")
    <2>1. TablesOK' /\ \A x \in Handler : Kept(x) => Kept(x)'
      BY <1>0, <1>3, StatusKeeps
    <2>2. h'[p].pc = "delete" /\ h'[p].uid \in born'
      BY <1>0, <1>1, <1>3 DEF Labels
    <2>3. SameCreator(p) /\ Kept(h[p])' /\ \A q \in Actors : NotAwaited(h'[p], h'[q])
      BY <2>2 DEF SameCreator, Kept, CreatorOK, OwnerOK, SnapshotOK, NotAwaited, Creating, Early,
         ReserveLabels, ExpireLabels
    <2>4. \A x \in Handler : (\E q \in Actors : q # p /\ x = h[q]) => Kept(x)'
      BY <1>0, <2>1 DEF SleepingHandlers, Kept
    <2>5. EveryUserReserved'
      BY <1>0, <1>3, ReservedStatus DEF Status
    <2> QED
      BY <1>0, <2>1, <2>3, <2>4, <2>5, TableKeeps
  <1> QED
    BY <1>2, <1>3 DEF MarkReleasePending, Matches, Has

LEMMA ShardDeleteKeeps ==
  ASSUME IInv, NEW p \in Actors, ShardDelete(p), Moved(p)
  PROVE  SleepingHandlers' /\ EveryUserReserved'
  <1> DEFINE e == h[p].em
             u == h[p].uid
  <1>0. /\ e \in Emails /\ u \in born /\ u \in Users /\ UNCHANGED <<res, used, born>>
        /\ TypeOK /\ SleepingHandlers /\ EveryUserReserved /\ TablesOK
    BY TypedLocals DEF ShardDelete, At, IInv, SleepingHandlers, OwnerOK, TypeOK
  <1>1. CASE Finish(p) /\ UNCHANGED member
    BY <1>0, <1>1, FinishKeeps, ReservedSame DEF tables
  <1>2. CASE /\ member' = [member EXCEPT ![Home[u]] = [@ EXCEPT ![e] = NoUser]]
             /\ Goto(p, "finalize")
    <2>1. \A s \in Shards, f \in Emails :
            member'[s][f] = IF s = Home[u] /\ f = e THEN NoUser ELSE member[s][f]
      BY <1>0, <1>2, HomeAssumption DEF TypeOK
    <2>2. h'[p].pc = "finalize" /\ h'[p].em = e /\ h'[p].uid = u
      BY <1>0, <1>2 DEF Goto, Handler, TypeOK
    <2>3. TablesOK'
      BY <1>0, <2>1 DEF TablesOK
    <2>4. EveryUserReserved'
      BY <1>0, <2>1 DEF EveryUserReserved
    <2>5. ASSUME NEW v \in Users, NEW f \in Emails, ~OnShard(f, v)
          PROVE  ~OnShard(f, v)'
      BY <2>1, <2>5, HomeAssumption, NoUserAssumption DEF OnShard
    <2>6. ~OnShard(e, u)'
      BY <1>0, <2>1, <2>2, HomeAssumption, NoUserAssumption DEF OnShard
    <2>7. SameCreator(p) /\ \A q \in Actors : NotAwaited(h'[p], h'[q])
      BY <2>2 DEF SameCreator, NotAwaited, Creating, Early, ReserveLabels, ExpireLabels
    <2>8. Kept(h[p])'
      BY <1>0, <2>2, <2>6 DEF Kept, CreatorOK, OwnerOK, SnapshotOK, Creating, Early,
         ReserveLabels, ExpireLabels, OnShard
    <2>9. ASSUME NEW x \in Handler, Kept(x)
          PROVE  Kept(x)'
      <3>1. x.em \in Emails /\ born \subseteq Users /\ used \subseteq Users
        BY <1>0 DEF Handler, TypeOK
      <3>2. CreatorOK(x)'
        BY <1>0, <2>9 DEF Kept, CreatorOK, HeldBy, Matches, Has
      <3>3. OwnerOK(x)' /\ SnapshotOK(x)'
        BY <1>0, <2>5, <2>9, <3>1 DEF Kept, OwnerOK, SnapshotOK, OnShard
      <3> QED
        BY <3>2, <3>3 DEF Kept
    <2>10. \A x \in Handler : (\E q \in Actors : q # p /\ x = h[q]) => Kept(x)'
      BY <1>0, <2>9 DEF SleepingHandlers, Kept
    <2> QED
      BY <1>0, <2>3, <2>4, <2>7, <2>8, <2>10, TableKeeps
  <1> QED
    BY <1>1, <1>2 DEF ShardDelete

\* Every step of a handler.
LEMMA HandlerKeeps ==
  ASSUME Reliable, IInv, NEW p \in Actors, Step(p)
  PROVE  SleepingHandlers' /\ EveryUserReserved'
  <1>0. Moved(p) /\ TypeOK /\ LocalsOK /\ SleepingHandlers /\ EveryUserReserved
    BY StepMoves DEF IInv
  <1>1. CASE \/ ExpireRead(p) \/ ExpireLook(p) \/ ReserveRead(p) \/ ResolveRead(p)
             \/ ResolveReread(p) \/ Load(p) \/ MarkCheck(p) \/ SweepRead(p) \/ SweepLook(p)
    <2>1. SleepingHandlers'
      BY <1>0, <1>1, ExpireReadKeeps, ExpireLookKeeps, ReserveReadKeeps, ResolveKeeps, LoadKeeps,
         MarkCheckKeeps, SweepReadKeeps, SweepLookKeeps
    <2>2. UNCHANGED tables
      BY <1>1 DEF ExpireRead, ExpireLook, ReserveRead, ResolveRead, ResolveReread, Load,
         MarkCheck, SweepRead, SweepLook
    <2> QED
      BY <1>0, <2>1, <2>2, ReservedSame DEF tables
  <1>2. CASE \/ ExpireWrite(p) \/ ReserveInsert(p) \/ ShardWrite(p) \/ Release(p) \/ Activate(p)
             \/ MarkReleasePending(p) \/ ShardDelete(p) \/ FinalizeRelease(p) \/ SweepWrite(p)
    BY <1>0, <1>2, ExpireWriteKeeps, ReserveInsertKeeps, ShardWriteKeeps, ReleaseKeeps,
       ActivateKeeps, MarkReleasePendingKeeps, ShardDeleteKeeps, FinalizeKeeps, SweepWriteKeeps
  <1> QED
    BY <1>1, <1>2 DEF Step

LEMMA StartCreateKeeps ==
  ASSUME IInv, NEW p \in Actors, NEW e \in Emails, NEW u \in Users, StartCreate(p, e, u),
         Moved(p)
  PROVE  SleepingHandlers'
  <1>0. /\ u \notin used /\ used' = used \cup {u} /\ UNCHANGED <<res, member, born>>
        /\ SleepingHandlers /\ TablesOK /\ TypeOK
    BY DEF StartCreate, IInv, SleepingHandlers
  <1>1. h'[p].pc = "expireRead" /\ h'[p].job = "create" /\ h'[p].em = e /\ h'[p].uid = u
    BY <1>0 DEF StartCreate, Idle, TypeOK
  <1>2. TablesOK'
    BY <1>0 DEF TablesOK
  <1>3. Kept(h[p])'
    BY <1>0, <1>1 DEF Kept, CreatorOK, OwnerOK, SnapshotOK, TablesOK, Creating, Early,
       ReserveLabels, ExpireLabels, HeldBy
  <1>4. ASSUME NEW q \in Actors, q # p PROVE Kept(h[q])'
    <2>1. h'[q] = h[q] /\ CreatorOK(h[q]) /\ OwnerOK(h[q]) /\ SnapshotOK(h[q])
      BY <1>0, <1>4 DEF Moved, SleepingHandlers
    <2> QED
      BY <1>0, <2>1 DEF Kept, CreatorOK, OwnerOK, SnapshotOK, HeldBy, Matches, Has, OnShard
  <1>5. ASSUME NEW q \in Actors, NEW r \in Actors
        PROVE  /\ NotAwaited(h'[q], h'[r])
               /\ q # r => Distinct(h'[q], h'[r])
    <2>1. /\ q # p => h'[q] = h[q]
          /\ r # p => h'[r] = h[r]
      BY DEF Moved
    <2>2. /\ NotAwaited(h[q], h[r]) /\ (q # r => Distinct(h[q], h[r]))
          /\ CreatorOK(h[q]) /\ SnapshotOK(h[q]) /\ CreatorOK(h[r])
      BY <1>0 DEF SleepingHandlers
    <2>3. NotAwaited(h'[q], h'[r])
      BY <1>0, <1>1, <2>1, <2>2 DEF NotAwaited, SnapshotOK
    <2>4. q # r => Distinct(h'[q], h'[r])
      BY <1>0, <1>1, <2>1, <2>2 DEF Distinct, CreatorOK
    <2> QED
      BY <2>3, <2>4
  <1> QED
    BY <1>2, <1>3, <1>4, <1>5 DEF SleepingHandlers, Kept

LEMMA StartDeleteKeeps ==
  ASSUME IInv, NEW p \in Actors, NEW e \in Emails, NEW u \in Users, StartDelete(p, e, u),
         Moved(p)
  PROVE  SleepingHandlers'
  <1>1. h'[p].pc = "mark" /\ h'[p].uid = u
    BY DEF StartDelete, Idle, IInv, TypeOK
  <1>2. u \in born
    BY OnShardIsBorn DEF StartDelete, IInv
  <1> QED
    BY <1>1, <1>2, OwnerKeeps DEF StartDelete, IInv

LEMMA ExpireKeeps ==
  ASSUME Reliable, IInv, NEW e \in Emails, Expire(e)
  PROVE  SleepingHandlers' /\ EveryUserReserved'
  <1>0. /\ Has(e, "PENDING") /\ ~res[e].expired /\ UNCHANGED <<member, used, born, h>>
        /\ SleepingHandlers /\ EveryUserReserved /\ TypeOK /\ res[e] # NoRow
        /\ \A q \in Actors : ~(h[q].pc = "write" /\ h[q].uid = res[e].user)
    BY DEF Expire, Reliable, IInv, Has
  <1>1. /\ res'[e] # NoRow /\ res'[e].user = res[e].user /\ res'[e].routed = res[e].routed
        /\ res'[e].status = res[e].status
        /\ \A f \in Emails : f # e => res'[f] = res[f]
    <2>1. res[e] \in Row /\ res \in [Emails -> Row \cup {NoRow}]
      BY <1>0 DEF TypeOK
    <2>2. res'[e] = [res[e] EXCEPT !.expired = TRUE] /\ \A f \in Emails : f # e => res'[f] = res[f]
      BY <2>1 DEF Expire
    <2>3. res'[e] \in Row
      BY <2>1, <2>2 DEF Row
    <2> QED
      BY <2>1, <2>2, <2>3, NoRowAssumption DEF Row
  <1>2. TablesOK'
    BY <1>0, <1>1 DEF SleepingHandlers, TablesOK
  <1>3. EveryUserReserved'
    BY <1>0, <1>1 DEF EveryUserReserved
  <1>4. ASSUME NEW q \in Actors PROVE Kept(h[q])'
    <2>1. CreatorOK(h[q]) /\ OwnerOK(h[q]) /\ SnapshotOK(h[q]) /\ h[q].em \in Emails
      BY <1>0, TypedLocals DEF SleepingHandlers
    <2>2. PICK x : x = h[q] /\ x = h'[q]
      BY <1>0
    <2>3. x.pc = "write" => x.em # e
      BY <1>0, <2>1, <2>2 DEF CreatorOK, Matches
    <2>4. CreatorOK(x)' /\ OwnerOK(x)' /\ SnapshotOK(x)'
      BY <1>0, <1>1, <2>1, <2>2, <2>3 DEF CreatorOK, OwnerOK, SnapshotOK, HeldBy, Matches, Has,
         OnShard
    <2> QED
      BY <2>2, <2>4 DEF Kept, CreatorOK, OwnerOK, SnapshotOK, HeldBy, Matches, Has, OnShard
  <1> QED
    BY <1>0, <1>2, <1>3, <1>4 DEF SleepingHandlers, Kept

LEMMA ReservedInit ==
  ASSUME Reliable, Init
  PROVE  SleepingHandlers /\ EveryUserReserved
  <1>1. member = NoMembers /\ \A p \in Actors : h[p] = Idle
    BY DEF Init, Reliable
  <1>2. EveryUserReserved
    BY <1>1 DEF EveryUserReserved, NoMembers
  <1>3. born = {}
    BY <1>1, NoUserAssumption DEF Init, NoMembers
  <1>4. \A e \in Emails : res[e] # NoRow => res[e].user \in used /\ ~res[e].routed
    BY DEF Init, UnroutedRows
  <1>5. TablesOK
    BY <1>1, <1>3, <1>4 DEF TablesOK, NoMembers
  <1>6. \A p \in Actors : CreatorOK(h[p]) /\ OwnerOK(h[p]) /\ SnapshotOK(h[p])
    BY <1>1 DEF CreatorOK, OwnerOK, SnapshotOK, Idle, Creating, Early, ReserveLabels, ExpireLabels
  <1>7. \A p, q \in Actors : NotAwaited(h[p], h[q]) /\ Distinct(h[p], h[q])
    BY <1>1 DEF NotAwaited, Distinct, Idle, Creating, Early, ReserveLabels, ExpireLabels
  <1> QED
    BY <1>2, <1>5, <1>6, <1>7 DEF SleepingHandlers

LEMMA ReservedNext ==
  ASSUME Reliable, IInv, [Next]_vars
  PROVE  IInv'
  <1>0. TypeOK /\ LocalsOK /\ SleepingHandlers /\ EveryUserReserved
    BY DEF IInv
  <1> SUFFICES SleepingHandlers' /\ EveryUserReserved'
    BY <1>0, TypeNext DEF IInv
  <1>1. ASSUME NEW p \in Actors, Step(p) PROVE SleepingHandlers' /\ EveryUserReserved'
    BY <1>1, HandlerKeeps
  <1>2. ASSUME NEW p \in Actors, NEW e \in Emails, StartLogin(p, e)
        PROVE  SleepingHandlers' /\ EveryUserReserved'
    <2>1. h'[p].pc = "resolveRead" /\ UNCHANGED tables
      BY <1>0, <1>2 DEF StartLogin, TypeOK, Idle
    <2> QED
      BY <1>0, <1>2, <2>1, OtherMoves, FreeKeeps, ReservedSame DEF Free, tables
  <1>3. ASSUME NEW p \in Actors, NEW e \in Emails, NEW u \in Users,
               StartCreate(p, e, u) \/ StartDelete(p, e, u)
        PROVE  SleepingHandlers' /\ EveryUserReserved'
    BY <1>0, <1>3, OtherMoves, StartCreateKeeps, StartDeleteKeeps, ReservedSame
       DEF StartCreate, StartDelete, tables
  <1>4. ASSUME NEW p \in Actors, \/ StartBatch(p) \/ SweepError(p)
                                 \/ \E e \in Emails, u \in Users : StartSingle(p, e, u)
        PROVE  SleepingHandlers' /\ EveryUserReserved'
    <2>1. h'[p].pc = "sweepRead" /\ UNCHANGED tables
      <3>1. CASE StartBatch(p) \/ \E e \in Emails, u \in Users : StartSingle(p, e, u)
        BY <1>0, <3>1 DEF StartBatch, StartSingle, TypeOK, Idle
      <3>2. CASE SweepError(p)
        BY <1>0, <3>2 DEF SweepError, TypeOK, Handler
      <3> QED
        BY <1>4, <3>1, <3>2
    <2> QED
      BY <1>0, <1>4, <2>1, OtherMoves, FreeKeeps, ReservedSame DEF Free, tables
  <1>5. ASSUME NEW p \in Actors, Crash(p) PROVE SleepingHandlers' /\ EveryUserReserved'
    BY <1>0, <1>5, FinishKeeps, ReservedSame DEF Crash, tables
  <1>6. ASSUME NEW e \in Emails, Expire(e) PROVE SleepingHandlers' /\ EveryUserReserved'
    BY <1>6, ExpireKeeps
  <1>7. CASE UNCHANGED vars
    BY <1>0, <1>7 DEF vars, SleepingHandlers, EveryUserReserved, TablesOK, CreatorOK, OwnerOK,
       SnapshotOK, NotAwaited, Distinct, HeldBy, Matches, Has, OnShard
  <1> QED
    BY <1>1, <1>2, <1>3, <1>4, <1>5, <1>6, <1>7 DEF Next, Actors

LEMMA Invariance ==
  ASSUME Reliable
  PROVE  Spec => []IInv
  <1>1. Init => IInv
    BY ReservedInit, TypeInit DEF IInv, Init, LocalsOK, LocalOK, Idle, Creating, Early,
       ReserveLabels, ExpireLabels
  <1>2. IInv /\ [Next]_vars => IInv'
    BY ReservedNext
  <1> QED
    BY <1>1, <1>2, PTL DEF Spec

\* However many handlers, commands and crashes interleave, the row of a
\* committed user is never released and never names anybody else.
THEOREM Reservation ==
  ASSUME Reliable
  PROVE  Spec => []EveryUserReserved
  <1>1. IInv => EveryUserReserved
    BY DEF IInv
  <1> QED
    BY <1>1, Invariance, PTL

\* What the sleeping handlers rely on stays true: no conditional write of one
\* of them can hit the row of somebody else.
THEOREM Sleeping ==
  ASSUME Reliable
  PROVE  Spec => []SleepingHandlers
  <1>1. IInv => SleepingHandlers
    BY DEF IInv
  <1> QED
    BY <1>1, Invariance, PTL

\* No address names two users on any two shards.
THEOREM Uniqueness ==
  ASSUME Reliable
  PROVE  Spec => []GlobalEmailUniqueness
  <1>1. IInv => GlobalEmailUniqueness
    BY DEF IInv, EveryUserReserved, GlobalEmailUniqueness
  <1> QED
    BY <1>1, Invariance, PTL
-----------------------------------------------------------------------------
(***************************************************************************)
(* The protocol implements the directory.  Under the invariant the account *)
(* of an email is the user of its row, if that user is on its shard.       *)
(***************************************************************************)
Account(e) == IF res[e] # NoRow /\ OnShard(e, res[e].user) THEN res[e].user ELSE NoUser

LEMMA AccountIs ==
  ASSUME TypeOK, EveryUserReserved, NEW e \in Emails
  PROVE  AccountOf(e) = Account(e)
  <1>1. CASE \E s \in Shards : member[s][e] # NoUser
    <2>1. PICK s \in Shards : s = (CHOOSE t \in Shards : member[t][e] # NoUser) /\ member[s][e] # NoUser
      BY <1>1
    <2>2. AccountOf(e) = member[s][e]
      BY <1>1, <2>1 DEF AccountOf
    <2> QED
      BY <2>1, <2>2 DEF EveryUserReserved, Account, OnShard
  <1>2. CASE ~\E s \in Shards : member[s][e] # NoUser
    <2>1. AccountOf(e) = NoUser
      BY <1>2 DEF AccountOf
    <2>2. res[e] # NoRow => res[e].user \in Users /\ Home[res[e].user] \in Shards
      BY HomeAssumption DEF TypeOK, Row
    <2> QED
      BY <1>2, <2>1, <2>2, NoUserAssumption DEF Account, OnShard
  <1> QED
    BY <1>1, <1>2

AccountForm == TypeOK /\ EveryUserReserved => \A e \in Emails : AccountOf(e) = Account(e)

LEMMA AccountFormNext == AccountForm'
  <1>1. AccountForm
    BY AccountIs DEF AccountForm
  <1> QED
    BY <1>1, PTL

LEMMA AccountIsNext ==
  ASSUME TypeOK', EveryUserReserved'
  PROVE  \A e \in Emails : AccountOf(e)' = Account(e)'
  BY AccountFormNext DEF AccountForm

\* Nothing the directory sees.
Unseen ==
  /\ UNCHANGED <<member, born>>
  /\ \A e \in Emails : OwnerOf(e)' = OwnerOf(e)

LEMMA UnseenStutters ==
  ASSUME Unseen
  PROVE  UNCHANGED Directory!dirVars
  <1>1. \A e \in Emails : AccountOf(e)' = AccountOf(e)
    BY DEF Unseen, AccountOf
  <1> QED
    BY <1>1 DEF Unseen, Directory!dirVars

LEMMA SameRowUnseen ==
  ASSUME UNCHANGED <<res, member, born>>
  PROVE  Unseen
  BY DEF Unseen, OwnerOf

LEMMA StatusUnseen ==
  ASSUME TypeOK, NEW e \in Emails, NEW st \in Status, res[e] # NoRow, SetStatus(e, st),
         UNCHANGED <<member, born>>
  PROVE  Unseen
  <1>1. res[e] \in Row /\ res \in [Emails -> Row \cup {NoRow}]
    BY DEF TypeOK
  <1>2. res'[e] \in Row /\ res'[e].user = res[e].user
    BY <1>1 DEF SetStatus, Row, Status
  <1>3. \A f \in Emails : f # e => res'[f] = res[f]
    BY <1>1 DEF SetStatus
  <1> QED
    BY <1>2, <1>3, NoRowAssumption DEF Unseen, OwnerOf

LEMMA DeleteFrees ==
  ASSUME IInv, IInv', NEW e \in Emails, res[e] # NoRow, ~OnShard(e, res[e].user), DeleteRow(e),
         UNCHANGED <<member, born>>
  PROVE  Directory!Free(e)
  <1>1. /\ TypeOK /\ EveryUserReserved
        /\ res \in [Emails -> Row \cup {NoRow}] /\ res[e].user \in Users
    BY DEF IInv, TypeOK, Row
  <1>2. OwnerOf(e) = res[e].user /\ AccountOf(e) = NoUser
    BY <1>1, AccountIs DEF OwnerOf, Account
  <1>3. OwnerOf(e)' = NoUser /\ \A f \in Emails : f # e => OwnerOf(f)' = OwnerOf(f)
    BY <1>1 DEF DeleteRow, OwnerOf
  <1>4. \A f \in Emails : AccountOf(f)' = AccountOf(f)
    BY DEF AccountOf
  <1> QED
    BY <1>1, <1>2, <1>3, <1>4, NoUserAssumption DEF Directory!Free

LEMMA InsertClaims ==
  ASSUME IInv, NEW p \in Actors, ReserveInsert(p), res[h[p].em] = NoRow
  PROVE  Directory!Claim(h[p].em, h[p].uid)
  <1> DEFINE r == [user |-> h[p].uid, status |-> "PENDING", expired |-> FALSE, routed |-> TRUE]
  <1>1. PICK e, u : e = h[p].em /\ u = h[p].uid
    OBVIOUS
  <1>2. e \in Emails /\ u \in Users /\ u \notin born /\ res \in [Emails -> Row \cup {NoRow}]
    BY <1>1, TypedLocals DEF ReserveInsert, At, IInv, TypeOK, SleepingHandlers, CreatorOK, Creating,
       Early, ReserveLabels, LocalsOK, LocalOK
  <1>3. res' = [res EXCEPT ![e] = r] /\ UNCHANGED <<member, born>>
    BY <1>1 DEF ReserveInsert
  <1>4. r \in Row
    BY <1>1, <1>2 DEF Row, Status
  <1>5. r.user = u
    BY <1>1
  <1> HIDE DEF r
  <1>6. OwnerOf(e) = NoUser /\ OwnerOf(e)' = u /\ \A f \in Emails : f # e => OwnerOf(f)' = OwnerOf(f)
    BY <1>1, <1>2, <1>3, <1>4, <1>5, NoRowAssumption DEF OwnerOf
  <1>7. \A f \in Emails : AccountOf(f)' = AccountOf(f)
    BY <1>3 DEF AccountOf
  <1>8. Directory!Claim(e, u)
    BY <1>2, <1>3, <1>6, <1>7 DEF Directory!Claim
  <1> QED
    BY <1>1, <1>8

LEMMA CommitOpens ==
  ASSUME IInv, IInv', NEW p \in Actors, h[p].pc = "write", CommitUser(p), UNCHANGED res
  PROVE  Directory!Open(h[p].em)
  <1>1. PICK e, u : e = h[p].em /\ u = h[p].uid
    OBVIOUS
  <1>2. /\ e \in Emails /\ u \in Users /\ u \notin born /\ Home[u] \in Shards
        /\ res[e] # NoRow /\ res[e].user = u
        /\ TypeOK /\ SleepingHandlers /\ EveryUserReserved /\ TypeOK' /\ EveryUserReserved'
    BY <1>1, TypedLocals, WriterHolds, HomeAssumption DEF IInv, Matches, Has, LocalsOK, LocalOK,
       Creating
  <1>3. /\ \A s \in Shards, f \in Emails :
             member'[s][f] = IF s = Home[u] /\ f = e THEN u ELSE member[s][f]
        /\ born' = born \cup {u}
    BY <1>1, <1>2 DEF CommitUser, TypeOK
  <1>4. OwnerOf(e) = u /\ \A f \in Emails : OwnerOf(f)' = OwnerOf(f)
    BY <1>2 DEF OwnerOf
  <1>5. ~OnShard(e, u)
    BY <1>2, OnShardIsBorn
  <1>6. AccountOf(e) = NoUser
    BY <1>2, <1>5, AccountIs DEF Account
  <1>7. \A f \in Emails : AccountOf(f)' = Account(f)'
    BY <1>2, AccountIsNext
  <1>8. AccountOf(e)' = u
    BY <1>2, <1>3, <1>7 DEF Account, OnShard
  <1>9. ASSUME NEW f \in Emails, f # e PROVE AccountOf(f)' = AccountOf(f)
    <2>1. AccountOf(f)' = Account(f)' /\ AccountOf(f) = Account(f)
      BY <1>2, <1>7, AccountIs
    <2> QED
      BY <1>2, <1>3, <1>9, <2>1, HomeAssumption DEF Account, OnShard, TypeOK, Row
  <1>10. Directory!Open(e)
    <2>1. born' = born \cup {OwnerOf(e)} /\ OwnerOf(e) # NoUser /\ OwnerOf(e) \notin born
      BY <1>2, <1>3, <1>4, NoUserAssumption
    <2> QED
      BY <1>2, <2>1, <1>4, <1>6, <1>8, <1>9 DEF Directory!Open
  <1> QED
    BY <1>1, <1>10

LEMMA DeleteCloses ==
  ASSUME IInv, IInv', NEW p \in Actors, ShardDelete(p), ~UNCHANGED member
  PROVE  Directory!Close(h[p].em)
  <1>1. PICK e, u : e = h[p].em /\ u = h[p].uid
    OBVIOUS
  <1>2. /\ e \in Emails /\ u \in Users /\ Home[u] \in Shards /\ OnShard(e, u)
        /\ member' = [member EXCEPT ![Home[u]] = [@ EXCEPT ![e] = NoUser]]
        /\ UNCHANGED <<res, born>>
        /\ TypeOK /\ EveryUserReserved /\ TypeOK' /\ EveryUserReserved'
    BY <1>1, TypedLocals, HomeAssumption
       DEF ShardDelete, At, IInv, TypeOK, SleepingHandlers, OwnerOK
  <1>3. \A s \in Shards, f \in Emails :
          member'[s][f] = IF s = Home[u] /\ f = e THEN NoUser ELSE member[s][f]
    BY <1>2 DEF TypeOK
  <1>4. \A f \in Emails : OwnerOf(f)' = OwnerOf(f)
    BY <1>2 DEF OwnerOf
  <1>5. res[e] # NoRow /\ res[e].user = u
    BY <1>2, NoUserAssumption DEF EveryUserReserved, OnShard
  <1>6. AccountOf(e) = u
    BY <1>2, <1>5, AccountIs DEF Account
  <1>7. \A s \in Shards : member'[s][e] = NoUser
    BY <1>2, <1>3, <1>5 DEF EveryUserReserved
  <1>8. AccountOf(e)' = NoUser
    BY <1>7 DEF AccountOf
  <1>9. ASSUME NEW f \in Emails, f # e PROVE AccountOf(f)' = AccountOf(f)
    <2>1. AccountOf(f)' = Account(f)' /\ AccountOf(f) = Account(f)
      BY <1>2, AccountIs, AccountIsNext
    <2> QED
      BY <1>2, <1>3, <1>9, <2>1, HomeAssumption DEF Account, OnShard, TypeOK, Row
  <1>10. Directory!Close(e)
    BY <1>2, <1>4, <1>6, <1>8, <1>9, NoUserAssumption DEF Directory!Close
  <1> QED
    BY <1>1, <1>10

\* A step on one row: nothing, a status change, or the end of a reservation.
LEMMA RowEffect ==
  ASSUME IInv, IInv', NEW e \in Emails, UNCHANGED <<member, born>>,
         \/ res' = res
         \/ res[e] # NoRow /\ \E st \in Status : SetStatus(e, st)
         \/ res[e] # NoRow /\ ~OnShard(e, res[e].user) /\ DeleteRow(e)
  PROVE  [Directory!Next]_(Directory!dirVars)
  <1>1. CASE res' = res
    BY <1>1, SameRowUnseen, UnseenStutters
  <1>2. CASE res[e] # NoRow /\ \E st \in Status : SetStatus(e, st)
    BY <1>2, StatusUnseen, UnseenStutters DEF IInv
  <1>3. CASE res[e] # NoRow /\ ~OnShard(e, res[e].user) /\ DeleteRow(e)
    BY <1>3, DeleteFrees DEF Directory!Next
  <1> QED
    BY <1>1, <1>2, <1>3

LEMMA WriteImplements ==
  ASSUME Reliable, IInv, IInv', NEW p \in Actors,
         \/ ExpireWrite(p) \/ SweepWrite(p) \/ Release(p) \/ Activate(p)
         \/ MarkReleasePending(p) \/ FinalizeRelease(p)
  PROVE  [Directory!Next]_(Directory!dirVars)
  <1>1. PICK e, u, v : e = h[p].em /\ u = h[p].uid /\ v = h[p].snap.user
    OBVIOUS
  <1>2. /\ e \in Emails /\ UNCHANGED <<member, born>>
        /\ h[p] \in Handler /\ TypeOK /\ SleepingHandlers
        /\ CreatorOK(h[p]) /\ OwnerOK(h[p]) /\ SnapshotOK(h[p]) /\ LocalOK(h[p])
    BY <1>1, TypedLocals DEF IInv, SleepingHandlers, LocalsOK, ExpireWrite, SweepWrite, Release,
       Activate, MarkReleasePending, FinalizeRelease
  <1>3. CASE ExpireWrite(p)
    <2>1. ~h[p].seen => ~OnShard(e, v)
      BY <1>1, <1>2, <1>3 DEF ExpireWrite, At, SnapshotOK
    <2>2. \/ res' = res
          \/ res[e] # NoRow /\ SetStatus(e, "ACTIVE")
          \/ ~h[p].seen /\ res[e] # NoRow /\ res[e].user = v /\ DeleteRow(e)
      BY <1>1, <1>3 DEF ExpireWrite, Matches, Has
    <2> QED
      BY <1>2, <2>1, <2>2, RowEffect DEF Status
  <1>4. CASE SweepWrite(p)
    <2>1. ~h[p].seen => ~OnShard(e, v)
      BY <1>1, <1>2, <1>4 DEF SweepWrite, At, SnapshotOK
    <2>2. \/ res' = res
          \/ res[e] # NoRow /\ SetStatus(e, "ACTIVE")
          \/ ~h[p].seen /\ res[e] # NoRow /\ res[e].user = v /\ DeleteRow(e)
      BY <1>1, <1>4 DEF SweepWrite, Matches, Has
    <2> QED
      BY <1>2, <2>1, <2>2, RowEffect DEF Status
  <1>5. CASE Release(p)
    <2>1. ~OnShard(e, u)
      BY <1>1, <1>2, <1>5, OnShardIsBorn DEF Release, At, CreatorOK, Creating, LocalOK
    <2> QED
      BY <1>1, <1>2, <1>5, <2>1, RowEffect DEF Release
  <1>6. CASE Activate(p)
    BY <1>1, <1>2, <1>6, RowEffect DEF Activate, Matches, Has, Status
  <1>7. CASE MarkReleasePending(p)
    BY <1>1, <1>2, <1>7, RowEffect DEF MarkReleasePending, Matches, Has, Status
  <1>8. CASE FinalizeRelease(p)
    <2>1. ~OnShard(e, u)
      BY <1>1, <1>2, <1>8 DEF FinalizeRelease, At, OwnerOK
    <2> QED
      BY <1>1, <1>2, <1>8, <2>1, RowEffect DEF FinalizeRelease, Matches, Has
  <1> QED
    BY <1>3, <1>4, <1>5, <1>6, <1>7, <1>8

LEMMA StepImplements ==
  ASSUME Reliable, IInv, IInv', NEW p \in Actors, Step(p)
  PROVE  [Directory!Next]_(Directory!dirVars)
  <1>0. h[p].em \in Emails
    BY TypedLocals DEF IInv
  <1>1. CASE \/ ExpireRead(p) \/ ExpireLook(p) \/ ReserveRead(p) \/ ResolveRead(p)
             \/ ResolveReread(p) \/ Load(p) \/ MarkCheck(p) \/ SweepRead(p) \/ SweepLook(p)
    <2>1. UNCHANGED tables
      BY <1>1 DEF ExpireRead, ExpireLook, ReserveRead, ResolveRead, ResolveReread, Load,
         MarkCheck, SweepRead, SweepLook
    <2> QED
      BY <2>1, SameRowUnseen, UnseenStutters DEF tables
  <1>2. CASE \/ ExpireWrite(p) \/ SweepWrite(p) \/ Release(p) \/ Activate(p)
             \/ MarkReleasePending(p) \/ FinalizeRelease(p)
    BY <1>2, WriteImplements
  <1>3. CASE ReserveInsert(p)
    <2>1. CASE res[h[p].em] = NoRow
      <3>1. h[p].uid \in Users
        BY <1>3 DEF ReserveInsert, At, IInv, LocalsOK, LocalOK, Creating, Early, ReserveLabels
      <3> QED
        BY <1>0, <1>3, <2>1, <3>1, InsertClaims DEF Directory!Next
    <2>2. CASE res[h[p].em] # NoRow
      BY <1>3, <2>2, SameRowUnseen, UnseenStutters DEF ReserveInsert
    <2> QED
      BY <2>1, <2>2
  <1>4. CASE ShardWrite(p)
    <2>1. CASE UNCHANGED <<member, born>>
      BY <1>4, <2>1, SameRowUnseen, UnseenStutters DEF ShardWrite
    <2>2. CASE CommitUser(p)
      <3>1. Directory!Open(h[p].em)
        BY <1>4, <2>2, CommitOpens DEF ShardWrite, At
      <3> QED
        BY <1>0, <3>1 DEF Directory!Next
    <2> QED
      BY <1>4, <2>1, <2>2 DEF ShardWrite
  <1>5. CASE ShardDelete(p)
    <2>1. CASE UNCHANGED member
      BY <1>5, <2>1, SameRowUnseen, UnseenStutters DEF ShardDelete
    <2>2. CASE ~UNCHANGED member
      BY <1>0, <1>5, <2>2, DeleteCloses DEF Directory!Next
    <2> QED
      BY <2>1, <2>2
  <1> QED
    BY <1>1, <1>2, <1>3, <1>4, <1>5 DEF Step

LEMMA ExpireUnseen ==
  ASSUME TypeOK, NEW e \in Emails, Expire(e)
  PROVE  Unseen
  <1>1. res[e] \in Row /\ res \in [Emails -> Row \cup {NoRow}]
    BY DEF TypeOK, Expire, Has
  <1>2. res'[e] = [res[e] EXCEPT !.expired = TRUE] /\ \A f \in Emails : f # e => res'[f] = res[f]
    BY <1>1 DEF Expire
  <1>3. res'[e] \in Row /\ res'[e].user = res[e].user
    BY <1>1, <1>2 DEF Row
  <1> QED
    BY <1>1, <1>2, <1>3, NoRowAssumption DEF Unseen, OwnerOf, Expire

\* Every execution, seen as owners and accounts of emails, is one of the
\* directory: an address is freed only once no shard holds its user, an id is
\* opened at most once, and nothing is taken over while it is held.
THEOREM Implements ==
  ASSUME Reliable
  PROVE  Spec => ImplementsDirectory
  <1>1. Init => Directory!Init
    <2>1. SUFFICES ASSUME Init PROVE Directory!Init
      OBVIOUS
    <2>2. member = NoMembers /\ born = {}
      BY <2>1, NoUserAssumption DEF Init, Reliable, NoMembers
    <2>3. \A e \in Emails : OwnerOf(e) \in Users \cup {NoUser}
      BY <2>1, TypeInit DEF OwnerOf, TypeOK, Row
    <2>4. \A e \in Emails : AccountOf(e) = NoUser
      BY <2>2 DEF AccountOf, NoMembers
    <2> QED
      BY <2>2, <2>3, <2>4 DEF Directory!Init
  <1>2. IInv /\ IInv' /\ [Next]_vars => [Directory!Next]_(Directory!dirVars)
    <2> SUFFICES ASSUME IInv, IInv', [Next]_vars
                 PROVE  [Directory!Next]_(Directory!dirVars)
      OBVIOUS
    <2>1. ASSUME NEW p \in Actors, Step(p) PROVE [Directory!Next]_(Directory!dirVars)
      BY <2>1, StepImplements
    <2>2. ASSUME NEW e \in Emails, Expire(e) PROVE [Directory!Next]_(Directory!dirVars)
      BY <2>2, ExpireUnseen, UnseenStutters DEF IInv
    <2>3. ASSUME UNCHANGED <<res, member, born>> PROVE [Directory!Next]_(Directory!dirVars)
      BY <2>3, SameRowUnseen, UnseenStutters
    <2>4. ASSUME NEW p \in Actors,
                 \/ StartBatch(p) \/ SweepError(p) \/ Crash(p)
                 \/ \E e \in Emails : StartLogin(p, e)
                 \/ \E e \in Emails, u \in Users :
                      StartCreate(p, e, u) \/ StartDelete(p, e, u) \/ StartSingle(p, e, u)
          PROVE  UNCHANGED <<res, member, born>>
      BY <2>4 DEF StartBatch, SweepError, Crash, StartLogin, StartCreate, StartDelete,
         StartSingle, tables
    <2>5. UNCHANGED vars => UNCHANGED <<res, member, born>>
      BY DEF vars
    <2> QED
      BY <2>1, <2>2, <2>3, <2>4, <2>5 DEF Next, Actors
  <1> QED
    BY <1>1, <1>2, Invariance, PTL DEF Spec, ImplementsDirectory, Directory!Spec
-----------------------------------------------------------------------------
\* NoActiveOrphan, the fourth of the directory's promises, holds when deletions
\* and the reconcile command do not overlap. OInv is inductive: an unmarked row
\* of a committed user has that user on its shard, and every handler under way
\* knows what its next write relies on (Fine).

\* Handlers that have not written their shard yet.
Writing(x) == Early(x) \/ x.pc = "write"

DeleteLabels == {"mark", "markCheck", "delete", "finalize"}
SweepLabels == {"sweepRead", "sweepLook", "sweepWrite"}

\* The row of a user which no deletion has marked.
Unmarked(e, u) == HeldBy(e, u) /\ res[e].status \in {"PENDING", "ACTIVE"}

\* A committed user is on its shard for as long as its row is not marked.
RowsSettled ==
  \A e \in Emails, u \in born : Unmarked(e, u) => OnShard(e, u)

\* What a handler relies on: its id is in no row and in no shard before it
\* commits; a deletion has marked its row, or there is none; a sweeper's user
\* is still there.
Fine(x) ==
  /\ Writing(x) => x.uid \in used \ born
  /\ Early(x) => \A e \in Emails : ~HeldBy(e, x.uid)
  /\ x.pc = "write" => \A e \in Emails : HeldBy(e, x.uid) => e = x.em /\ res[e].routed
  /\ x.pc \in {"activate", "mark", "markCheck", "delete"} => x.uid \in born
  /\ x.pc = "delete" => ~Unmarked(x.em, x.uid)
  /\ x.pc = "expireWrite" /\ x.seen => x.snap.user \in born
  /\ x.pc \in {"expireLook", "sweepLook", "sweepWrite"} => x.snap \in Row
  /\ x.pc = "sweepWrite" /\ x.seen => OnShard(x.em, x.snap.user)

\* Deletions are requests and sweeps are commands.
RoleOK(p) ==
  /\ h[p].pc \in DeleteLabels => h[p].job = "delete"
  /\ h[p].pc \in SweepLabels => h[p].job = "reconcile"
  /\ h[p].job = "delete" => p \in Procs
  /\ h[p].job = "reconcile" => p \in Operators

Apart == ~(Deleting /\ Sweeping) /\ \A p \in Actors : RoleOK(p)

Handlers ==
  /\ \A p \in Actors : Fine(h[p])
  /\ \A p, q \in Actors : p # q /\ Writing(h[p]) /\ Writing(h[q]) => h[p].uid # h[q].uid

OInv == TypeOK /\ LocalsOK /\ TablesOK /\ RowsSettled /\ Apart /\ Handlers
-----------------------------------------------------------------------------
LEMMA GotoFacts ==
  ASSUME TypeOK, NEW p \in Actors, NEW l, Goto(p, l)
  PROVE  /\ h'[p].pc = l /\ h'[p].job = h[p].job /\ h'[p].em = h[p].em /\ h'[p].uid = h[p].uid
         /\ h'[p].snap = h[p].snap /\ h'[p].seen = h[p].seen
BY DEF TypeOK, Goto, Handler

LEMMA FinishFacts ==
  ASSUME TypeOK, NEW p \in Actors, Finish(p)
  PROVE  h'[p].pc = "idle" /\ h'[p].job = "none"
BY DEF TypeOK, Finish, Idle

LEMMA RecordFacts ==
  ASSUME TypeOK, NEW p \in Actors, NEW r, h' = [h EXCEPT ![p] = r]
  PROVE  h'[p] = r
BY DEF TypeOK

\* What the longer assignments leave in the record of p.
LEMMA ExpireFacts ==
  ASSUME TypeOK, NEW p \in Actors
  PROVE  /\ ExpireRead(p) /\ ~Goto(p, AfterExpire(p)) =>
              /\ h'[p].pc \in {"expireLook", "expireWrite"} /\ ~h'[p].seen /\ h'[p].snap \in Row
              /\ h'[p].job = h[p].job /\ h'[p].em = h[p].em /\ h'[p].uid = h[p].uid
         /\ ExpireLook(p) =>
              /\ h'[p].pc = "expireWrite"
              /\ h'[p].seen = OnShard(h[p].em, h[p].snap.user) /\ h'[p].snap = h[p].snap
              /\ h'[p].job = h[p].job /\ h'[p].em = h[p].em /\ h'[p].uid = h[p].uid
         /\ ExpireWrite(p) =>
              /\ h'[p].pc = AfterExpire(p)
              /\ h'[p].job = h[p].job /\ h'[p].em = h[p].em /\ h'[p].uid = h[p].uid
<1>0. h[p] \in Handler
  BY DEF TypeOK
<1>1. ASSUME ExpireRead(p), ~Goto(p, AfterExpire(p))
      PROVE  /\ h'[p].pc \in {"expireLook", "expireWrite"} /\ ~h'[p].seen /\ h'[p].snap \in Row
             /\ h'[p].job = h[p].job /\ h'[p].em = h[p].em /\ h'[p].uid = h[p].uid
  <2> DEFINE l == IF res[h[p].em].routed THEN "expireLook" ELSE "expireWrite"
             r == [h[p] EXCEPT !.pc = l, !.snap = res[h[p].em], !.seen = FALSE]
  <2>1. h' = [h EXCEPT ![p] = r]
    BY <1>1 DEF ExpireRead
  <2>2. h'[p] = r
    BY <2>1, RecordFacts
  <2>3. res[h[p].em] \in Row
    BY <1>0, <1>1 DEF ExpireRead, Has, TypeOK, Handler
  <2> QED  BY <1>0, <2>2, <2>3 DEF Handler
<1>2. ASSUME ExpireLook(p)
      PROVE  /\ h'[p].pc = "expireWrite"
             /\ h'[p].seen = OnShard(h[p].em, h[p].snap.user) /\ h'[p].snap = h[p].snap
             /\ h'[p].job = h[p].job /\ h'[p].em = h[p].em /\ h'[p].uid = h[p].uid
  <2> DEFINE r == [h[p] EXCEPT !.pc = "expireWrite", !.seen = OnShard(h[p].em, h[p].snap.user)]
  <2>1. h'[p] = r
    BY <1>2, RecordFacts DEF ExpireLook
  <2> QED  BY <1>0, <2>1 DEF Handler
<1>3. ASSUME ExpireWrite(p)
      PROVE  /\ h'[p].pc = AfterExpire(p)
             /\ h'[p].job = h[p].job /\ h'[p].em = h[p].em /\ h'[p].uid = h[p].uid
  <2> DEFINE r == [h[p] EXCEPT !.pc = AfterExpire(p), !.snap = NoRow, !.seen = FALSE]
  <2>1. h'[p] = r
    BY <1>3, RecordFacts DEF ExpireWrite
  <2> QED  BY <1>0, <2>1 DEF Handler
<1> QED  BY <1>1, <1>2, <1>3

LEMMA LoginFacts ==
  ASSUME TypeOK, NEW p \in Actors
  PROVE  /\ ResolveRead(p) /\ ~Finish(p) /\ ~Goto(p, "expireRead") =>
              h'[p].pc = "load" /\ h'[p].job = h[p].job
         /\ Load(p) /\ ~Finish(p) =>
              /\ h'[p].pc = "activate" /\ h'[p].job = h[p].job /\ h'[p].em = h[p].em
              /\ h'[p].uid = h[p].snap.user /\ OnShard(h[p].em, h[p].snap.user)
<1>0. h[p] \in Handler
  BY DEF TypeOK
<1>1. ASSUME ResolveRead(p), ~Finish(p), ~Goto(p, "expireRead")
      PROVE  h'[p].pc = "load" /\ h'[p].job = h[p].job
  <2> DEFINE r == [h[p] EXCEPT !.pc = "load", !.snap = res[h[p].em]]
  <2>1. h'[p] = r
    BY <1>1, RecordFacts DEF ResolveRead
  <2> QED  BY <1>0, <2>1 DEF Handler
<1>2. ASSUME Load(p), ~Finish(p)
      PROVE  /\ h'[p].pc = "activate" /\ h'[p].job = h[p].job /\ h'[p].em = h[p].em
             /\ h'[p].uid = h[p].snap.user /\ OnShard(h[p].em, h[p].snap.user)
  <2> DEFINE r == [h[p] EXCEPT !.pc = "activate", !.uid = h[p].snap.user]
  <2>1. h'[p] = r /\ OnShard(h[p].em, h[p].snap.user)
    BY <1>2, RecordFacts DEF Load
  <2> QED  BY <1>0, <2>1 DEF Handler
<1> QED  BY <1>1, <1>2

LEMMA SweepFacts ==
  ASSUME TypeOK, NEW p \in Actors
  PROVE  /\ SweepRead(p) /\ ~Finish(p) =>
              /\ h'[p].pc \in {"sweepRead", "sweepLook"} /\ h'[p].job = h[p].job
              /\ h'[p].pc = "sweepLook" => h'[p].snap \in Row
         /\ SweepLook(p) =>
              /\ h'[p].pc = "sweepWrite" /\ h'[p].seen = OnShard(h[p].em, h[p].snap.user)
              /\ h'[p].snap = h[p].snap /\ h'[p].em = h[p].em /\ h'[p].job = h[p].job
         /\ SweepWrite(p) => h'[p].pc = "sweepRead" /\ h'[p].job = h[p].job
<1>0. h[p] \in Handler
  BY DEF TypeOK
<1>1. ASSUME SweepRead(p), ~Finish(p)
      PROVE  /\ h'[p].pc \in {"sweepRead", "sweepLook"} /\ h'[p].job = h[p].job
             /\ h'[p].pc = "sweepLook" => h'[p].snap \in Row
  <2>1. PICK t \in h[p].todo :
          LET f == t[1]
              c == /\ Matches(f, t[2], "RELEASE_PENDING") \/ Matches(f, t[2], "ACTIVE")
                   /\ res[f].routed
          IN h' = [h EXCEPT ![p] =
                     [h[p] EXCEPT !.todo = h[p].todo \ {t}, !.em = f,
                               !.pc = IF c THEN "sweepLook" ELSE "sweepRead",
                               !.snap = IF c THEN res[f] ELSE NoRow]]
    BY <1>1 DEF SweepRead
  <2> DEFINE f == t[1]
             c == /\ Matches(f, t[2], "RELEASE_PENDING") \/ Matches(f, t[2], "ACTIVE")
                  /\ res[f].routed
             r == [h[p] EXCEPT !.todo = h[p].todo \ {t}, !.em = f,
                               !.pc = IF c THEN "sweepLook" ELSE "sweepRead",
                               !.snap = IF c THEN res[f] ELSE NoRow]
  <2>2. c => res[f] # NoRow
    BY DEF Matches, Has
  <2>3. f \in Emails
    BY <1>0 DEF Handler
  <2>4. res[f] \in Row \cup {NoRow}
    BY <2>3 DEF TypeOK
  <2> HIDE DEF f, c
  <2>5. h'[p] = r
    BY <2>1, RecordFacts DEF f, c
  <2>6. c \in BOOLEAN
    BY DEF c, Matches, Has
  <2> QED  BY <1>0, <2>2, <2>4, <2>5, <2>6 DEF Handler
<1>2. ASSUME SweepLook(p)
      PROVE  /\ h'[p].pc = "sweepWrite" /\ h'[p].seen = OnShard(h[p].em, h[p].snap.user)
             /\ h'[p].snap = h[p].snap /\ h'[p].em = h[p].em /\ h'[p].job = h[p].job
  <2> DEFINE r == [h[p] EXCEPT !.pc = "sweepWrite", !.seen = OnShard(h[p].em, h[p].snap.user)]
  <2>1. h'[p] = r
    BY <1>2, RecordFacts DEF SweepLook
  <2> QED  BY <1>0, <2>1 DEF Handler
<1>3. ASSUME SweepWrite(p) PROVE h'[p].pc = "sweepRead" /\ h'[p].job = h[p].job
  <2> DEFINE r == [h[p] EXCEPT !.pc = "sweepRead", !.snap = NoRow, !.seen = FALSE]
  <2>1. h'[p] = r
    BY <1>3, RecordFacts DEF SweepWrite
  <2> QED  BY <1>0, <2>1 DEF Handler
<1> QED  BY <1>1, <1>2, <1>3

\* No step takes up another job, nor enters a deletion or a sweep.
LEMMA StepRole ==
  ASSUME TypeOK, NEW p \in Actors, Step(p)
  PROVE  /\ h'[p].job \in {h[p].job, "none"}
         /\ h'[p].pc \in DeleteLabels => h[p].pc \in DeleteLabels /\ h'[p].job = h[p].job
         /\ h'[p].pc \in SweepLabels => h[p].pc \in SweepLabels /\ h'[p].job = h[p].job
<1> DEFINE Goal == /\ h'[p].job \in {h[p].job, "none"}
                   /\ h'[p].pc \in DeleteLabels => h[p].pc \in DeleteLabels /\ h'[p].job = h[p].job
                   /\ h'[p].pc \in SweepLabels => h[p].pc \in SweepLabels /\ h'[p].job = h[p].job
<1>1. Finish(p) => Goal
  BY FinishFacts DEF DeleteLabels, SweepLabels
<1>2. ASSUME NEW l, Goto(p, l),
             l \in DeleteLabels => h[p].pc \in DeleteLabels,
             l \notin SweepLabels
      PROVE  Goal
  BY <1>2, GotoFacts
<1>3. CASE ExpireRead(p) \/ ExpireLook(p) \/ ExpireWrite(p)
  <2>1. AfterExpire(p) \notin DeleteLabels \cup SweepLabels
    BY DEF AfterExpire, DeleteLabels, SweepLabels
  <2>2. Goto(p, AfterExpire(p)) => Goal
    BY <1>2, <2>1
  <2> QED  BY <1>3, <2>1, <2>2, ExpireFacts DEF DeleteLabels, SweepLabels
<1>4. CASE \/ ReserveRead(p) \/ ReserveInsert(p) \/ ShardWrite(p) \/ Release(p) \/ Activate(p)
           \/ ResolveReread(p)
  BY <1>1, <1>2, <1>4 DEF ReserveRead, ReserveInsert, ShardWrite, Release, Activate,
     ResolveReread, DeleteLabels, SweepLabels
<1>5. CASE ResolveRead(p) \/ Load(p)
  <2>1. Goto(p, "expireRead") => Goal
    BY <1>2 DEF DeleteLabels, SweepLabels
  <2> QED  BY <1>1, <1>5, <2>1, LoginFacts DEF DeleteLabels, SweepLabels
<1>6. CASE MarkReleasePending(p) \/ MarkCheck(p) \/ ShardDelete(p) \/ FinalizeRelease(p)
  BY <1>1, <1>2, <1>6 DEF MarkReleasePending, MarkCheck, ShardDelete, FinalizeRelease, At,
     DeleteLabels, SweepLabels
<1>7. CASE SweepRead(p) \/ SweepLook(p) \/ SweepWrite(p)
  <2>1. h[p].pc \in SweepLabels
    BY <1>7 DEF SweepRead, SweepLook, SweepWrite, At, SweepLabels
  <2> QED  BY <1>1, <1>7, <2>1, SweepFacts DEF DeleteLabels, SweepLabels
<1> QED  BY <1>3, <1>4, <1>5, <1>6, <1>7 DEF Step

\* Whoever moves keeps its job or lays it down.
LEMMA ApartStep ==
  ASSUME TypeOK, Apart, NEW p \in Actors, Moved(p), RoleOK(p)',
         h'[p].job \in {h[p].job, "none", "login", "create"}
  PROVE  Apart'
<1>1. \A q \in Actors : RoleOK(q)'
  BY DEF Apart, Moved, RoleOK
<1>2. Deleting' => Deleting
  BY DEF Deleting, Moved, Actors
<1>3. Sweeping' => Sweeping
  BY DEF Sweeping, Moved, Actors
<1> QED  BY <1>1, <1>2, <1>3 DEF Apart

LEMMA ApartKept ==
  ASSUME "overlap" \notin Conditions, TypeOK, LocalsOK, Apart, [Next]_vars
  PROVE  Apart'
<1>1. ASSUME NEW p \in Actors, Step(p) PROVE Apart'
  <2>1. RoleOK(p)'
    BY <1>1, StepRole DEF Apart, RoleOK
  <2> QED  BY <1>1, <2>1, StepRole, StepMoves, ApartStep
<1>2. ASSUME NEW p \in Actors, Crash(p) PROVE Apart'
  <2>1. RoleOK(p)' /\ h'[p].job = "none" /\ Moved(p)
    BY <1>2, FinishFacts, OtherMoves DEF Crash, RoleOK, DeleteLabels, SweepLabels
  <2> QED  BY <2>1, ApartStep
<1>3. ASSUME NEW p \in Procs, NEW e \in Emails,
             StartLogin(p, e) \/ \E u \in Users : StartCreate(p, e, u)
      PROVE  Apart'
  <2>1. h'[p].job \in {"login", "create"} /\ h'[p].pc \in {"resolveRead", "expireRead"}
    BY <1>3 DEF StartLogin, StartCreate, Idle, TypeOK, Actors
  <2>2. RoleOK(p)' /\ p \in Actors /\ Moved(p)
    BY <1>3, <2>1, OtherMoves DEF RoleOK, DeleteLabels, SweepLabels, Actors
  <2> QED  BY <2>1, <2>2, ApartStep
<1>4. ASSUME NEW p \in Procs, NEW e \in Emails, NEW u \in Users, StartDelete(p, e, u)
      PROVE  Apart'
  <2>1. /\ ~Sweeping /\ p \in Actors /\ p \notin Operators
        /\ h'[p].job = "delete" /\ h'[p].pc = "mark" /\ Moved(p)
    BY <1>4, OtherMoves, ActorAssumption DEF StartDelete, Idle, TypeOK, Actors
  <2>2. ~Sweeping'
    BY <2>1 DEF Sweeping, Moved, Actors
  <2>3. \A q \in Actors : RoleOK(q)'
    BY <2>1 DEF Apart, Moved, RoleOK, DeleteLabels, SweepLabels
  <2> QED  BY <2>2, <2>3 DEF Apart
<1>5. ASSUME NEW o \in Operators, StartBatch(o) \/ \E e \in Emails, u \in Users : StartSingle(o, e, u)
      PROVE  Apart'
  <2>1. /\ ~Deleting /\ o \in Actors /\ o \notin Procs
        /\ h'[o].job = "reconcile" /\ h'[o].pc = "sweepRead" /\ Moved(o)
    BY <1>5, OtherMoves, ActorAssumption DEF StartBatch, StartSingle, Idle, TypeOK, Actors
  <2>2. ~Deleting'
    BY <2>1 DEF Deleting, Moved, Actors
  <2>3. \A q \in Actors : RoleOK(q)'
    BY <2>1 DEF Apart, Moved, RoleOK, DeleteLabels, SweepLabels
  <2> QED  BY <2>2, <2>3 DEF Apart
<1>6. ASSUME NEW o \in Operators, SweepError(o) PROVE Apart'
  <2>1. /\ o \in Actors /\ h'[o].job = h[o].job /\ h[o].pc \in SweepLabels
        /\ h'[o].pc = "sweepRead" /\ Moved(o)
    BY <1>6, OtherMoves DEF SweepError, TypeOK, Actors, Handler, SweepLabels
  <2>2. RoleOK(o)'
    BY <2>1 DEF Apart, RoleOK, DeleteLabels, SweepLabels
  <2> QED  BY <2>1, <2>2, ApartStep
<1>7. ASSUME UNCHANGED h PROVE Apart'
  BY <1>7 DEF Apart, Deleting, Sweeping, RoleOK
<1> QED
  BY <1>1, <1>2, <1>3, <1>4, <1>5, <1>6, <1>7 DEF Next, Expire, vars
-----------------------------------------------------------------------------
\* What each kind of write does to the tables and to what x relies on.
Tabled == TypeOK /\ TablesOK /\ RowsSettled
TablesSettled == TablesOK /\ RowsSettled

LEMMA SameTables ==
  ASSUME Tabled, UNCHANGED tables
  PROVE  TablesSettled' /\ \A x \in Handler : Fine(x) => Fine(x)'
BY DEF Tabled, TablesSettled, tables, TablesOK, RowsSettled, Unmarked, HeldBy, OnShard, Fine

\* A row gets another status; ACTIVE only if the user is on its shard, and not
\* behind the back of a deletion that has marked the row.
LEMMA StatusWrite ==
  ASSUME Tabled, NEW e \in Emails, NEW st \in {"ACTIVE", "RELEASE_PENDING"},
         res[e] # NoRow, res[e].user \in born, SetStatus(e, st), UNCHANGED <<member, used, born>>,
         st = "ACTIVE" => OnShard(e, res[e].user)
  PROVE  /\ TablesSettled'
         /\ \A x \in Handler :
              Fine(x) /\ (x.pc = "delete" => st # "ACTIVE" \/ Unmarked(e, res[e].user)) => Fine(x)'
<1>0. res[e] \in Row /\ res \in [Emails -> Row \cup {NoRow}] /\ TablesOK /\ RowsSettled
  BY DEF Tabled, TypeOK
<1>1. /\ res'[e] # NoRow /\ res'[e].user = res[e].user /\ res'[e].routed = res[e].routed
      /\ res'[e].status = st
      /\ \A f \in Emails : f # e => res'[f] = res[f]
  <2>1. /\ res'[e] \in Row /\ res'[e].user = res[e].user /\ res'[e].routed = res[e].routed
        /\ res'[e].status = st
    BY <1>0 DEF SetStatus, Row, Status
  <2> QED  BY <1>0, <2>1, NoRowAssumption DEF SetStatus
<1>2. TablesOK'
  BY <1>0, <1>1 DEF TablesOK
<1>3. RowsSettled'
  BY <1>0, <1>1 DEF RowsSettled, Unmarked, HeldBy, OnShard
<1>4. ASSUME NEW x \in Handler, Fine(x), x.pc = "delete" => st # "ACTIVE" \/ Unmarked(e, res[e].user)
      PROVE  Fine(x)'
  <2>1. x.em \in Emails
    BY DEF Handler
  <2>2. \A f \in Emails, u \in Users \cup {NoUser} : HeldBy(f, u)' <=> HeldBy(f, u)
    BY <1>1 DEF HeldBy
  <2>3. x.pc = "delete" => ~Unmarked(x.em, x.uid)'
    <3>1. ASSUME x.pc = "delete", x.em = e, Unmarked(x.em, x.uid)' PROVE FALSE
      <4>1. st = "ACTIVE" /\ x.uid = res[e].user
        BY <1>1, <3>1 DEF Unmarked, HeldBy
      <4> QED  BY <1>4, <3>1, <4>1 DEF Fine
    <3> QED  BY <1>1, <1>4, <2>1, <3>1 DEF Fine, Unmarked, HeldBy
  <2>4. x.uid \in Users \cup {NoUser}
    BY DEF Handler
  <2> QED  BY <1>1, <1>4, <2>1, <2>2, <2>3, <2>4 DEF Fine, OnShard
<1> QED  BY <1>2, <1>3, <1>4 DEF TablesSettled

LEMMA DeleteWrite ==
  ASSUME Tabled, NEW e \in Emails, DeleteRow(e), UNCHANGED <<member, used, born>>
  PROVE  TablesSettled' /\ \A x \in Handler : Fine(x) => Fine(x)'
<1>0. res \in [Emails -> Row \cup {NoRow}] /\ TablesOK /\ RowsSettled
  BY DEF Tabled, TypeOK
<1>1. res'[e] = NoRow /\ \A f \in Emails : f # e => res'[f] = res[f]
  BY <1>0 DEF DeleteRow
<1>2. TablesOK' /\ RowsSettled'
  BY <1>0, <1>1 DEF TablesOK, RowsSettled, Unmarked, HeldBy, OnShard
<1>3. ASSUME NEW x \in Handler, Fine(x) PROVE Fine(x)'
  <2>1. x.em \in Emails
    BY DEF Handler
  <2> QED  BY <1>1, <1>3, <2>1 DEF Fine, Unmarked, HeldBy, OnShard
<1> QED  BY <1>2, <1>3 DEF TablesSettled

LEMMA InsertWrite ==
  ASSUME Tabled, NEW e \in Emails, NEW u \in used \ born, res[e] = NoRow,
         res' = [res EXCEPT ![e] = [user |-> u, status |-> "PENDING", expired |-> FALSE,
                                    routed |-> TRUE]],
         UNCHANGED <<member, used, born>>
  PROVE  TablesSettled' /\ \A x \in Handler : Fine(x) /\ (Writing(x) => x.uid # u) => Fine(x)'
<1>0. res \in [Emails -> Row \cup {NoRow}] /\ TablesOK /\ RowsSettled /\ u \in Users
  BY DEF Tabled, TypeOK
<1> DEFINE r == [user |-> u, status |-> "PENDING", expired |-> FALSE, routed |-> TRUE]
<1>1. /\ res'[e] # NoRow /\ res'[e].user = u /\ res'[e].routed /\ res'[e].status = "PENDING"
      /\ \A f \in Emails : f # e => res'[f] = res[f]
  <2>1. r \in Row
    BY <1>0 DEF Row, Status
  <2>2. res'[e] = r
    BY <1>0
  <2> QED  BY <1>0, <2>1, <2>2, NoRowAssumption
<1>2. TablesOK' /\ RowsSettled'
  BY <1>0, <1>1 DEF TablesOK, RowsSettled, Unmarked, HeldBy, OnShard
<1>3. ASSUME NEW x \in Handler, Fine(x), Writing(x) => x.uid # u PROVE Fine(x)'
  <2>1. x.em \in Emails
    BY DEF Handler
  <2>2. x.pc = "delete" => x.uid # u
    BY <1>3 DEF Fine
  <2> QED  BY <1>1, <1>3, <2>1, <2>2 DEF Fine, Writing, Unmarked, HeldBy, OnShard
<1> QED  BY <1>2, <1>3 DEF TablesSettled

LEMMA CommitWrite ==
  ASSUME Tabled, NEW e \in Emails, NEW u \in (used \cap Users) \ born,
         member[Home[u]][e] = NoUser,
         member' = [member EXCEPT ![Home[u]] = [@ EXCEPT ![e] = u]],
         born' = born \cup {u}, UNCHANGED <<res, used>>,
         \A f \in Emails : HeldBy(f, u) => f = e /\ res[f].routed
  PROVE  TablesSettled' /\ \A x \in Handler : Fine(x) /\ (Writing(x) => x.uid # u) => Fine(x)'
<1>0. /\ member \in [Shards -> [Emails -> Users \cup {NoUser}]] /\ Home[u] \in Shards
      /\ res \in [Emails -> Row \cup {NoRow}] /\ TablesOK /\ RowsSettled /\ born \subseteq Users
  BY HomeAssumption DEF Tabled, TypeOK
<1>1. \A s \in Shards, f \in Emails :
        member'[s][f] = IF s = Home[u] /\ f = e THEN u ELSE member[s][f]
  BY <1>0
<1>2. /\ OnShard(e, u)'
      /\ \A f \in Emails, w \in Users : OnShard(f, w) => OnShard(f, w)'
  BY <1>0, <1>1, NoUserAssumption, HomeAssumption DEF OnShard
<1>3. TablesOK'
  BY <1>0, <1>1 DEF TablesOK, HeldBy
<1>4. RowsSettled'
  <2> SUFFICES ASSUME NEW f \in Emails, NEW w \in born', Unmarked(f, w)'
               PROVE  OnShard(f, w)'
    BY DEF RowsSettled
  <2>1. Unmarked(f, w)
    BY DEF Unmarked, HeldBy
  <2>2. CASE w = u
    BY <1>2, <2>1, <2>2 DEF Unmarked
  <2>3. CASE w \in born
    BY <1>0, <1>2, <2>1, <2>3 DEF RowsSettled
  <2> QED  BY <2>2, <2>3
<1>5. ASSUME NEW x \in Handler, Fine(x), Writing(x) => x.uid # u PROVE Fine(x)'
  <2>1. x.em \in Emails
    BY DEF Handler
  <2>2. x.snap \in Row => x.snap.user \in Users
    BY DEF Row
  <2>3. x.pc = "sweepWrite" /\ x.seen => OnShard(x.em, x.snap.user)'
    BY <1>2, <1>5, <2>1, <2>2 DEF Fine
  <2> QED  BY <1>5, <2>3 DEF Fine, Unmarked, HeldBy
<1> QED  BY <1>3, <1>4, <1>5 DEF TablesSettled

LEMMA ShardDeleteWrite ==
  ASSUME Tabled, NEW e \in Emails, NEW u \in born, OnShard(e, u), ~Unmarked(e, u),
         member' = [member EXCEPT ![Home[u]] = [@ EXCEPT ![e] = NoUser]],
         UNCHANGED <<res, used, born>>
  PROVE  TablesSettled' /\ \A x \in Handler : Fine(x) /\ x.pc # "sweepWrite" => Fine(x)'
<1>0. /\ member \in [Shards -> [Emails -> Users \cup {NoUser}]]
      /\ TablesOK /\ RowsSettled /\ born \subseteq Users
  BY DEF Tabled, TypeOK
<1>1. \A s \in Shards, f \in Emails :
        member'[s][f] = IF s = Home[u] /\ f = e THEN NoUser ELSE member[s][f]
  BY <1>0, HomeAssumption
<1>2. TablesOK'
  BY <1>0, <1>1 DEF TablesOK
<1>3. RowsSettled'
  <2> SUFFICES ASSUME NEW f \in Emails, NEW w \in born, Unmarked(f, w)
               PROVE  OnShard(f, w)'
    BY DEF RowsSettled, Unmarked, HeldBy
  <2>1. OnShard(f, w) /\ Home[w] \in Shards
    BY <1>0, HomeAssumption DEF RowsSettled
  <2>2. ~(Home[w] = Home[u] /\ f = e)
    BY <2>1 DEF OnShard
  <2> QED  BY <1>1, <2>1, <2>2 DEF OnShard
<1>4. ASSUME NEW x \in Handler, Fine(x), x.pc # "sweepWrite" PROVE Fine(x)'
  BY <1>4 DEF Fine, Unmarked, HeldBy
<1> QED  BY <1>2, <1>3, <1>4 DEF TablesSettled

LEMMA ExpireWriteTime ==
  ASSUME Tabled, NEW e \in Emails, Expire(e)
  PROVE  TablesSettled' /\ \A x \in Handler : Fine(x) => Fine(x)'
<1>0. res[e] \in Row /\ res \in [Emails -> Row \cup {NoRow}] /\ TablesOK /\ RowsSettled
  BY DEF Tabled, TypeOK, Expire, Has
<1>1. /\ res'[e] # NoRow /\ res'[e].user = res[e].user /\ res'[e].routed = res[e].routed
      /\ res'[e].status = res[e].status /\ res[e] # NoRow
      /\ \A f \in Emails : f # e => res'[f] = res[f]
      /\ UNCHANGED <<member, used, born>>
  <2>1. res'[e] = [res[e] EXCEPT !.expired = TRUE] /\ \A f \in Emails : f # e => res'[f] = res[f]
    BY <1>0 DEF Expire
  <2>2. res'[e] \in Row
    BY <1>0, <2>1 DEF Row
  <2> QED  BY <1>0, <2>1, <2>2, NoRowAssumption DEF Row, Expire
<1>2. \A f \in Emails : \A u : HeldBy(f, u)' <=> HeldBy(f, u)
  BY <1>1 DEF HeldBy
<1>3. \A f \in Emails : \A u : Unmarked(f, u)' <=> Unmarked(f, u)
  BY <1>1 DEF HeldBy, Unmarked
<1>4. TablesOK' /\ RowsSettled'
  BY <1>0, <1>1, <1>3 DEF TablesOK, RowsSettled, OnShard
<1>5. ASSUME NEW x \in Handler, Fine(x) PROVE Fine(x)'
  <2>1. x.em \in Emails
    BY DEF Handler
  <2> QED  BY <1>1, <1>2, <1>3, <1>5, <2>1 DEF Fine, OnShard
<1> QED  BY <1>4, <1>5 DEF TablesSettled

\* What is left to show for a step of p.
LEMMA HandlersKept ==
  ASSUME TypeOK, Handlers, NEW p \in Actors, Moved(p),
         Writing(h'[p]) => Writing(h[p]) /\ h'[p].uid = h[p].uid,
         \A x \in Handler : (\E q \in Actors : q # p /\ x = h[q]) => Fine(x)',
         Fine(h[p])'
  PROVE  Handlers'
<1>1. ASSUME NEW q \in Actors, q # p PROVE Fine(h[q])'
  <2>1. PICK x \in Handler : x = h[q]
    BY DEF TypeOK
  <2>2. x = h'[q] /\ Fine(x)'
    BY <1>1, <2>1 DEF Moved
  <2> QED  BY <2>2 DEF Fine, Unmarked, HeldBy, OnShard
<1>2. ASSUME NEW q \in Actors, NEW r \in Actors, q # r, Writing(h'[q]), Writing(h'[r])
      PROVE  h'[q].uid # h'[r].uid
  BY <1>2 DEF Handlers, Moved
<1> QED  BY <1>1, <1>2 DEF Handlers, Writing, Early

\* A step that leaves the tables alone.
LEMMA QuietKept ==
  ASSUME OInv, NEW p \in Actors, Moved(p), UNCHANGED tables,
         Writing(h'[p]) => Writing(h[p]) /\ h'[p].uid = h[p].uid,
         Fine(h'[p])
  PROVE  TablesSettled' /\ Handlers'
<1>1. TablesSettled' /\ \A x \in Handler : Fine(x) => Fine(x)'
  BY SameTables DEF OInv, Tabled
<1>2. \A x \in Handler : (\E q \in Actors : q # p /\ x = h[q]) => Fine(x)'
  BY <1>1 DEF OInv, Handlers
<1>3. Fine(h[p])'
  BY DEF Fine, tables, Unmarked, HeldBy, OnShard
<1> QED  BY <1>1, <1>2, <1>3, HandlersKept DEF OInv

\* A step after which p relies on nothing.
Rest == {"idle", "release", "finalize", "load", "resolveRead", "resolveReread", "sweepRead"}

LEMMA RestFine ==
  ASSUME NEW x, x.pc \in Rest
  PROVE  Fine(x) /\ ~Writing(x)
BY DEF Fine, Writing, Early, Rest, ReserveLabels, ExpireLabels

LEMMA RestKept ==
  ASSUME OInv, NEW p \in Actors, Moved(p), h'[p].pc \in Rest, TablesSettled',
         \A x \in Handler : (\E q \in Actors : q # p /\ x = h[q]) => Fine(x)'
  PROVE  TablesSettled' /\ Handlers'
<1>1. ~Writing(h'[p]) /\ Fine(h[p])'
  BY DEF Fine, Writing, Early, Rest, ReserveLabels, ExpireLabels
<1> QED  BY <1>1, HandlersKept DEF OInv

LEMMA RestQuiet ==
  ASSUME OInv, NEW p \in Actors, Moved(p), h'[p].pc \in Rest, UNCHANGED tables
  PROVE  TablesSettled' /\ Handlers'
BY RestFine, QuietKept

LEMMA FinishQuiet ==
  ASSUME OInv, NEW p \in Actors, Finish(p), UNCHANGED tables
  PROVE  TablesSettled' /\ Handlers'
BY FinishFacts, FinishMoves, RestQuiet DEF OInv, Rest

LEMMA BornOnShard ==
  ASSUME Tabled, NEW e \in Emails, NEW u \in Users, OnShard(e, u)
  PROVE  u \in born
BY HomeAssumption, NoUserAssumption DEF Tabled, TablesOK, OnShard

\* The reads of an expired reservation.
LEMMA OrphanExpire ==
  ASSUME OInv, NEW p \in Actors, Moved(p), ExpireRead(p) \/ ExpireLook(p)
  PROVE  TablesSettled' /\ Handlers'
<1>0. TypeOK /\ LocalOK(h[p]) /\ Fine(h[p]) /\ h[p] \in Handler /\ UNCHANGED tables
  BY DEF OInv, LocalsOK, Handlers, TypeOK, ExpireRead, ExpireLook
<1>1. CASE ExpireRead(p) /\ Goto(p, AfterExpire(p))
  <2>1. h'[p].pc = AfterExpire(p) /\ h'[p].uid = h[p].uid /\ h[p].pc = "expireRead"
    BY <1>0, <1>1, GotoFacts DEF ExpireRead, At
  <2>2. CASE h[p].job = "create"
    <3>1. Early(h[p]) /\ h'[p].pc = "reserveRead"
      BY <2>1, <2>2 DEF Early, ExpireLabels, AfterExpire
    <3>2. Fine(h'[p])
      BY <1>0, <2>1, <3>1 DEF Fine, Writing
    <3> QED  BY <1>0, <2>1, <3>1, <3>2, QuietKept DEF Writing
  <2>3. CASE h[p].job # "create"
    BY <1>0, <2>1, <2>3, RestQuiet DEF AfterExpire, Rest
  <2> QED  BY <2>2, <2>3
<1>2. CASE ExpireLook(p) \/ ~Goto(p, AfterExpire(p))
  <2>1. /\ h'[p].pc \in {"expireLook", "expireWrite"} /\ h[p].pc \in ExpireLabels
        /\ h'[p].job = h[p].job /\ h'[p].uid = h[p].uid
    BY <1>0, <1>2, ExpireFacts DEF ExpireRead, ExpireLook, At, ExpireLabels
  <2>2. Early(h'[p]) => Early(h[p])
    BY <2>1 DEF Early, ReserveLabels, ExpireLabels
  <2>3. h'[p].pc = "expireWrite" /\ h'[p].seen => h'[p].snap.user \in born
    <3>1. CASE ExpireLook(p)
      <4>1. /\ h'[p].seen = OnShard(h[p].em, h[p].snap.user) /\ h'[p].snap = h[p].snap
            /\ h[p].em \in Emails
        BY <1>0, <3>1, ExpireFacts DEF Handler
      <4>2. ASSUME OnShard(h[p].em, h[p].snap.user) PROVE h[p].snap.user \in born
        <5>1. h[p].snap \in Row
          BY <1>0, <3>1 DEF ExpireLook, At, Fine
        <5> QED  BY <4>1, <4>2, <5>1, BornOnShard DEF Row, OInv, Tabled
      <4> QED  BY <4>1, <4>2
    <3>2. CASE ExpireRead(p)
      BY <1>0, <1>2, <3>2, ExpireFacts DEF ExpireRead, ExpireLook, At
    <3> QED  BY <3>1, <3>2
  <2>4. h'[p].snap \in Row
    BY <1>0, <1>2, ExpireFacts DEF ExpireRead, ExpireLook, At, Fine
  <2>5. Fine(h'[p])
    BY <1>0, <2>1, <2>2, <2>3, <2>4 DEF Fine, Writing
  <2> QED  BY <1>0, <2>1, <2>2, <2>5, QuietKept DEF Writing
<1> QED  BY <1>1, <1>2

LEMMA OrphanReads ==
  ASSUME OInv, NEW p \in Actors, Moved(p),
         ReserveRead(p) \/ ResolveRead(p) \/ ResolveReread(p) \/ Load(p)
  PROVE  TablesSettled' /\ Handlers'
<1>0. TypeOK /\ LocalOK(h[p]) /\ Fine(h[p]) /\ h[p] \in Handler /\ UNCHANGED tables
  BY DEF OInv, LocalsOK, Handlers, TypeOK, ReserveRead, ResolveRead, ResolveReread, Load
<1>1. CASE Finish(p)
  BY <1>0, <1>1, FinishQuiet
<1>2. CASE ReserveRead(p) /\ ~Finish(p)
  <2>1. h[p].pc = "reserveRead" /\ h'[p].pc = "reserveInsert" /\ h'[p].uid = h[p].uid
    BY <1>0, <1>2, GotoFacts DEF ReserveRead, At
  <2>2. Early(h[p]) /\ Early(h'[p])
    BY <2>1 DEF Early, ReserveLabels
  <2>3. Fine(h'[p])
    BY <1>0, <2>1, <2>2 DEF Fine, Writing
  <2> QED  BY <1>0, <2>1, <2>2, <2>3, QuietKept DEF Writing
<1>3. CASE ResolveRead(p) /\ ~Finish(p)
  <2>1. CASE Goto(p, "expireRead")
    <3>1. h'[p].pc = "expireRead" /\ h'[p].job = h[p].job /\ h[p].job = "login"
      BY <1>0, <1>3, <2>1, GotoFacts DEF ResolveRead, At, LocalOK
    <3>2. ~Writing(h'[p]) /\ Fine(h'[p])
      BY <3>1 DEF Writing, Early, Fine, ReserveLabels
    <3> QED  BY <1>0, <3>2, QuietKept
  <2>2. CASE ~Goto(p, "expireRead")
    BY <1>0, <1>3, <2>2, LoginFacts, RestQuiet DEF Rest
  <2> QED  BY <2>1, <2>2
<1>4. CASE ResolveReread(p) /\ ~Finish(p)
  BY <1>0, <1>4, GotoFacts, RestQuiet DEF ResolveReread, Rest
<1>5. CASE Load(p) /\ ~Finish(p)
  <2>1. /\ h'[p].pc = "activate" /\ h'[p].uid = h[p].snap.user
        /\ OnShard(h[p].em, h[p].snap.user) /\ h[p].snap \in Row /\ h[p].em \in Emails
    BY <1>0, <1>5, LoginFacts DEF Load, At, LocalOK, Handler
  <2>2. h'[p].uid \in born
    BY <2>1, BornOnShard DEF Row, OInv, Tabled
  <2>3. ~Writing(h'[p]) /\ Fine(h'[p])
    BY <2>1, <2>2 DEF Writing, Early, Fine, ReserveLabels, ExpireLabels
  <2> QED  BY <1>0, <2>3, QuietKept
<1> QED  BY <1>1, <1>2, <1>3, <1>4, <1>5

LEMMA OrphanMarkCheck ==
  ASSUME OInv, NEW p \in Actors, Moved(p), MarkCheck(p)
  PROVE  TablesSettled' /\ Handlers'
<1>0. TypeOK /\ Fine(h[p]) /\ h[p].pc = "markCheck" /\ UNCHANGED tables
  BY DEF OInv, Handlers, MarkCheck, At
<1>1. CASE Finish(p)
  BY <1>0, <1>1, FinishQuiet
<1>2. CASE /\ res[h[p].em] = NoRow \/ Matches(h[p].em, h[p].uid, "RELEASE_PENDING")
           /\ Goto(p, "delete")
  <2>1. h'[p].pc = "delete" /\ h'[p].em = h[p].em /\ h'[p].uid = h[p].uid
    BY <1>0, <1>2, GotoFacts
  <2>2. ~Unmarked(h[p].em, h[p].uid)
    BY <1>2 DEF Unmarked, HeldBy, Matches, Has
  <2>3. ~Writing(h'[p]) /\ Fine(h'[p])
    BY <1>0, <2>1, <2>2 DEF Writing, Early, Fine, ReserveLabels, ExpireLabels
  <2> QED  BY <1>0, <2>3, QuietKept
<1> QED  BY <1>1, <1>2 DEF MarkCheck

LEMMA OrphanSweeps ==
  ASSUME OInv, NEW p \in Actors, Moved(p), SweepRead(p) \/ SweepLook(p)
  PROVE  TablesSettled' /\ Handlers'
<1>0. TypeOK /\ Fine(h[p]) /\ h[p] \in Handler /\ UNCHANGED tables
  BY DEF OInv, Handlers, TypeOK, SweepRead, SweepLook
<1>1. CASE Finish(p)
  BY <1>0, <1>1, FinishQuiet
<1>2. CASE SweepRead(p) /\ ~Finish(p)
  <2>1. /\ h'[p].pc \in {"sweepRead", "sweepLook"}
        /\ h'[p].pc = "sweepLook" => h'[p].snap \in Row
    BY <1>0, <1>2, SweepFacts
  <2>2. ~Writing(h'[p]) /\ Fine(h'[p])
    BY <2>1 DEF Writing, Early, Fine, ReserveLabels, ExpireLabels
  <2> QED  BY <1>0, <2>2, QuietKept
<1>3. CASE SweepLook(p)
  <2>1. /\ h'[p].pc = "sweepWrite" /\ h'[p].seen = OnShard(h[p].em, h[p].snap.user)
        /\ h'[p].snap = h[p].snap /\ h'[p].em = h[p].em /\ h[p].pc = "sweepLook"
    BY <1>0, <1>3, SweepFacts DEF SweepLook, At
  <2>2. ~Writing(h'[p]) /\ Fine(h'[p])
    BY <1>0, <2>1 DEF Writing, Early, Fine, ReserveLabels, ExpireLabels
  <2> QED  BY <1>0, <2>2, QuietKept
<1> QED  BY <1>1, <1>2, <1>3

\* The writes.  Whoever sleeps at a deletion or a creation is not disturbed.
LEMMA OrphanExpireWrite ==
  ASSUME OInv, NEW p \in Actors, Moved(p), ExpireWrite(p)
  PROVE  TablesSettled' /\ Handlers'
<1> DEFINE e == h[p].em
<1>0. /\ TypeOK /\ Tabled /\ Fine(h[p]) /\ h[p] \in Handler /\ h[p].pc = "expireWrite"
      /\ UNCHANGED <<member, used, born>> /\ e \in Emails
      /\ h'[p].pc = AfterExpire(p) /\ h'[p].uid = h[p].uid
  BY ExpireFacts DEF OInv, Tabled, Handlers, TypeOK, ExpireWrite, At, Handler
<1>1. TablesSettled' /\ \A x \in Handler : Fine(x) => Fine(x)'
  <2>1. CASE h[p].seen /\ Matches(e, h[p].snap.user, "PENDING") /\ SetStatus(e, "ACTIVE")
    <3>1. res[e] # NoRow /\ res[e].user \in born /\ Unmarked(e, res[e].user)
      BY <1>0, <2>1 DEF Matches, Has, Fine, Unmarked, HeldBy
    <3>2. OnShard(e, res[e].user)
      BY <1>0, <3>1 DEF Tabled, RowsSettled
    <3> QED  BY <1>0, <2>1, <3>1, <3>2, StatusWrite
  <2>2. CASE DeleteRow(e)
    BY <1>0, <2>2, DeleteWrite
  <2>3. CASE UNCHANGED res
    BY <1>0, <2>3, SameTables DEF tables
  <2> QED  BY <2>1, <2>2, <2>3 DEF ExpireWrite
<1>2. \A x \in Handler : (\E q \in Actors : q # p /\ x = h[q]) => Fine(x)'
  BY <1>1 DEF OInv, Handlers
<1>3. CASE h[p].job = "create"
  <2>1. Early(h[p]) /\ h'[p].pc = "reserveRead"
    BY <1>0, <1>3 DEF Early, ExpireLabels, AfterExpire
  <2>2. Fine(h[p])'
    <3>1. h'[p].uid \in used \ born /\ \A f \in Emails : ~HeldBy(f, h[p].uid)
      BY <1>0, <2>1 DEF Fine, Writing
    <3>2. \A f \in Emails : ~HeldBy(f, h[p].uid)'
      <4>1. ASSUME NEW f \in Emails, res'[f] # NoRow PROVE res[f] # NoRow /\ res'[f].user = res[f].user
        <5>0. res \in [Emails -> Row \cup {NoRow}]
          BY <1>0 DEF TypeOK
        <5>1. CASE SetStatus(e, "ACTIVE") /\ Matches(e, h[p].snap.user, "PENDING")
          BY <1>0, <4>1, <5>0, <5>1 DEF SetStatus, Matches, Has, Row
        <5>2. CASE DeleteRow(e)
          BY <4>1, <5>0, <5>2 DEF DeleteRow
        <5>3. CASE UNCHANGED res
          BY <4>1, <5>3
        <5> QED  BY <5>1, <5>2, <5>3 DEF ExpireWrite
      <4> QED  BY <1>0, <3>1, <4>1 DEF HeldBy
    <3> QED  BY <1>0, <2>1, <3>1, <3>2 DEF Fine, HeldBy
  <2> QED  BY <1>0, <1>1, <1>2, <2>1, <2>2, HandlersKept DEF Writing, OInv
<1>4. CASE h[p].job # "create"
  BY <1>0, <1>1, <1>2, <1>4, RestKept DEF AfterExpire, Rest
<1> QED  BY <1>3, <1>4

LEMMA OrphanInsert ==
  ASSUME OInv, NEW p \in Actors, Moved(p), ReserveInsert(p)
  PROVE  TablesSettled' /\ Handlers'
<1> DEFINE e == h[p].em  u == h[p].uid
<1>0. /\ TypeOK /\ Tabled /\ Fine(h[p]) /\ h[p] \in Handler /\ Early(h[p]) /\ Writing(h[p])
      /\ e \in Emails /\ u \in used \ born /\ \A f \in Emails : ~HeldBy(f, u)
      /\ UNCHANGED <<member, used, born>>
  BY DEF OInv, Tabled, Handlers, TypeOK, ReserveInsert, At, Handler, Early, Writing,
     ReserveLabels, Fine
<1>1. CASE Finish(p) /\ UNCHANGED res
  BY <1>0, <1>1, FinishQuiet DEF tables
<1>2. CASE /\ res[e] = NoRow
           /\ res' = [res EXCEPT ![e] = [user |-> u, status |-> "PENDING", expired |-> FALSE,
                                         routed |-> TRUE]]
           /\ Goto(p, "write")
  <2>1. TablesSettled' /\ \A x \in Handler : Fine(x) /\ (Writing(x) => x.uid # u) => Fine(x)'
    BY <1>0, <1>2, InsertWrite
  <2>2. \A x \in Handler : (\E q \in Actors : q # p /\ x = h[q]) => Fine(x)'
    BY <1>0, <2>1 DEF OInv, Handlers
  <2>3. h'[p].pc = "write" /\ h'[p].uid = u /\ h'[p].em = e
    BY <1>0, <1>2, GotoFacts
  <2>4. Fine(h[p])'
    <3>1. \A f \in Emails : res'[f] # NoRow /\ res'[f].user = u => f = e /\ res'[f].routed
      BY <1>0, <1>2 DEF HeldBy, TypeOK
    <3>2. \A f \in Emails : (HeldBy(f, h[p].uid))' => f = e /\ res'[f].routed
      BY <2>3, <3>1 DEF HeldBy
    <3> QED  BY <1>0, <2>3, <3>2 DEF Fine, Writing, Early, ReserveLabels, ExpireLabels
  <2> QED  BY <1>0, <2>1, <2>2, <2>3, <2>4, HandlersKept DEF OInv
<1> QED  BY <1>1, <1>2 DEF ReserveInsert

LEMMA OrphanShardWrite ==
  ASSUME OInv, NEW p \in Actors, Moved(p), ShardWrite(p)
  PROVE  TablesSettled' /\ Handlers'
<1> DEFINE e == h[p].em  u == h[p].uid
<1>0. /\ TypeOK /\ Tabled /\ Fine(h[p]) /\ h[p] \in Handler /\ h[p].pc = "write"
      /\ Writing(h[p]) /\ e \in Emails /\ u \in (used \cap Users) \ born
      /\ \A f \in Emails : HeldBy(f, u) => f = e /\ res[f].routed
      /\ UNCHANGED <<res, used>>
  BY DEF OInv, Tabled, Handlers, TypeOK, ShardWrite, At, Handler, Writing, Fine
<1>1. CASE UNCHANGED <<member, born>> /\ Goto(p, "release")
  BY <1>0, <1>1, GotoFacts, RestQuiet DEF Rest, tables
<1>2. CASE CommitUser(p) /\ (Goto(p, "activate") \/ Goto(p, "release"))
  <2>1. TablesSettled' /\ \A x \in Handler : Fine(x) /\ (Writing(x) => x.uid # u) => Fine(x)'
    BY <1>0, <1>2, CommitWrite DEF CommitUser
  <2>2. \A x \in Handler : (\E q \in Actors : q # p /\ x = h[q]) => Fine(x)'
    BY <1>0, <2>1 DEF OInv, Handlers
  <2>3. h'[p].pc \in {"activate", "release"} /\ h'[p].uid = u /\ u \in born'
    BY <1>0, <1>2, GotoFacts DEF CommitUser
  <2>4. ~Writing(h'[p]) /\ Fine(h[p])'
    BY <2>3 DEF Fine, Writing, Early, ReserveLabels, ExpireLabels
  <2> QED  BY <1>0, <2>1, <2>2, <2>4, HandlersKept DEF OInv
<1> QED  BY <1>1, <1>2 DEF ShardWrite

LEMMA OrphanReleases ==
  ASSUME OInv, NEW p \in Actors, Moved(p), Release(p) \/ FinalizeRelease(p)
  PROVE  TablesSettled' /\ Handlers'
<1>0. /\ TypeOK /\ Tabled /\ h[p].em \in Emails /\ h'[p].pc = "idle"
      /\ UNCHANGED <<member, used, born>>
  BY FinishFacts, TypedLocals DEF OInv, Tabled, Release, FinalizeRelease
<1>1. CASE DeleteRow(h[p].em)
  BY <1>0, <1>1, DeleteWrite, RestKept DEF OInv, Handlers, Rest
<1>2. CASE UNCHANGED res
  BY <1>0, <1>2, RestQuiet DEF Rest, tables
<1> QED  BY <1>1, <1>2 DEF Release, FinalizeRelease

LEMMA OrphanActivate ==
  ASSUME OInv, NEW p \in Actors, Moved(p), Activate(p)
  PROVE  TablesSettled' /\ Handlers'
<1> DEFINE e == h[p].em
<1>0. /\ TypeOK /\ Tabled /\ Fine(h[p]) /\ e \in Emails /\ h'[p].pc = "idle"
      /\ h[p].uid \in born /\ UNCHANGED <<member, used, born>>
  BY FinishFacts, TypedLocals DEF OInv, Tabled, Activate, Handlers, Fine, At
<1>1. CASE Matches(e, h[p].uid, "PENDING") /\ SetStatus(e, "ACTIVE")
  <2>1. res[e] # NoRow /\ res[e].user \in born /\ Unmarked(e, res[e].user)
    BY <1>0, <1>1 DEF Matches, Has, Unmarked, HeldBy
  <2>2. OnShard(e, res[e].user)
    BY <1>0, <2>1 DEF Tabled, RowsSettled
  <2>3. TablesSettled' /\ \A x \in Handler : Fine(x) => Fine(x)'
    BY <1>0, <1>1, <2>1, <2>2, StatusWrite
  <2> QED  BY <1>0, <2>3, RestKept DEF OInv, Handlers, Rest
<1>2. CASE UNCHANGED res
  BY <1>0, <1>2, RestQuiet DEF Rest, tables
<1> QED  BY <1>1, <1>2 DEF Activate

LEMMA OrphanMark ==
  ASSUME OInv, NEW p \in Actors, Moved(p), MarkReleasePending(p)
  PROVE  TablesSettled' /\ Handlers'
<1> DEFINE e == h[p].em
<1>0. /\ TypeOK /\ Tabled /\ Fine(h[p]) /\ e \in Emails
      /\ h[p].uid \in born /\ UNCHANGED <<member, used, born>>
  BY TypedLocals DEF OInv, Tabled, MarkReleasePending, Handlers, Fine, At
<1>1. CASE /\ Matches(e, h[p].uid, "ACTIVE") \/ Matches(e, h[p].uid, "PENDING")
           /\ SetStatus(e, "RELEASE_PENDING") /\ Goto(p, "delete")
  <2>1. res[e] # NoRow /\ res[e].user = h[p].uid
    BY <1>1 DEF Matches, Has
  <2>2. TablesSettled' /\ \A x \in Handler : Fine(x) => Fine(x)'
    BY <1>0, <1>1, <2>1, StatusWrite
  <2>3. h'[p].pc = "delete" /\ h'[p].em = e /\ h'[p].uid = h[p].uid
    BY <1>0, <1>1, GotoFacts
  <2>4. res'[e].status = "RELEASE_PENDING"
    BY <1>0, <1>1, <2>1 DEF SetStatus, TypeOK, Row, Status
  <2>5. ~Writing(h'[p]) /\ Fine(h[p])'
    BY <1>0, <2>3, <2>4 DEF Fine, Writing, Early, ReserveLabels, ExpireLabels, Unmarked
  <2> QED  BY <1>0, <2>2, <2>5, HandlersKept DEF OInv, Handlers
<1>2. CASE Goto(p, "markCheck") /\ UNCHANGED res
  <2>1. h'[p].pc = "markCheck" /\ h'[p].uid = h[p].uid
    BY <1>0, <1>2, GotoFacts
  <2>2. ~Writing(h'[p]) /\ Fine(h'[p])
    BY <1>0, <2>1 DEF Writing, Early, Fine, ReserveLabels, ExpireLabels
  <2> QED  BY <1>0, <1>2, <2>2, QuietKept DEF tables
<1> QED  BY <1>1, <1>2 DEF MarkReleasePending

\* No command that read a user looks on while the user is deleted.
LEMMA OrphanShardDelete ==
  ASSUME OInv, NEW p \in Actors, Moved(p), ShardDelete(p)
  PROVE  TablesSettled' /\ Handlers'
<1> DEFINE e == h[p].em  u == h[p].uid
<1>0. /\ TypeOK /\ Tabled /\ Fine(h[p]) /\ e \in Emails /\ u \in born
      /\ ~Unmarked(e, u) /\ h[p].pc = "delete" /\ UNCHANGED <<res, used, born>>
  BY TypedLocals DEF OInv, Tabled, ShardDelete, Handlers, Fine, At
<1>1. CASE Finish(p) /\ UNCHANGED member
  BY <1>0, <1>1, FinishQuiet DEF tables
<1>2. CASE /\ OnShard(e, u)
           /\ member' = [member EXCEPT ![Home[u]] = [@ EXCEPT ![e] = NoUser]]
           /\ Goto(p, "finalize")
  <2>1. TablesSettled' /\ \A x \in Handler : Fine(x) /\ x.pc # "sweepWrite" => Fine(x)'
    BY <1>0, <1>2, ShardDeleteWrite
  <2>2. \A q \in Actors : h[q].pc # "sweepWrite"
    <3>1. Deleting
      BY <1>0 DEF OInv, Apart, RoleOK, Deleting, DeleteLabels
    <3> QED  BY <3>1 DEF OInv, Apart, RoleOK, Sweeping, SweepLabels
  <2>3. \A x \in Handler : (\E q \in Actors : q # p /\ x = h[q]) => Fine(x)'
    BY <2>1, <2>2 DEF OInv, Handlers
  <2> QED  BY <1>0, <1>2, <2>1, <2>3, GotoFacts, RestKept DEF Rest
<1> QED  BY <1>1, <1>2 DEF ShardDelete

\* The command restores a row whose user it has seen, and no deletion is running.
LEMMA OrphanSweepWrite ==
  ASSUME OInv, NEW p \in Actors, Moved(p), SweepWrite(p)
  PROVE  TablesSettled' /\ Handlers'
<1> DEFINE e == h[p].em
<1>0. /\ TypeOK /\ Tabled /\ Fine(h[p]) /\ e \in Emails /\ h[p].pc = "sweepWrite"
      /\ h[p].snap \in Row /\ h'[p].pc = "sweepRead" /\ UNCHANGED <<member, used, born>>
  BY TypedLocals, SweepFacts DEF OInv, Tabled, SweepWrite, Handlers, Fine, At
<1>1. CASE /\ h[p].seen /\ Matches(e, h[p].snap.user, "RELEASE_PENDING")
           /\ SetStatus(e, "ACTIVE")
  <2>1. res[e] # NoRow /\ res[e].user = h[p].snap.user /\ OnShard(e, res[e].user)
    BY <1>0, <1>1 DEF Matches, Has, Fine
  <2>2. res[e].user \in born
    BY <1>0, <2>1, BornOnShard DEF Row
  <2>3. \A q \in Actors : h[q].pc # "delete"
    <3>1. Sweeping
      BY <1>0 DEF OInv, Apart, RoleOK, Sweeping, SweepLabels
    <3> QED  BY <3>1 DEF OInv, Apart, RoleOK, Deleting, DeleteLabels
  <2>4. /\ TablesSettled'
        /\ \A x \in Handler : Fine(x) /\ x.pc # "delete" => Fine(x)'
    BY <1>0, <1>1, <2>1, <2>2, StatusWrite
  <2>5. \A x \in Handler : (\E q \in Actors : q # p /\ x = h[q]) => Fine(x)'
    BY <2>3, <2>4 DEF OInv, Handlers
  <2> QED  BY <1>0, <2>4, <2>5, RestKept DEF Rest
<1>2. CASE DeleteRow(e)
  BY <1>0, <1>2, DeleteWrite, RestKept DEF OInv, Handlers, Rest
<1>3. CASE UNCHANGED res
  BY <1>0, <1>3, RestQuiet DEF Rest, tables
<1> QED  BY <1>1, <1>2, <1>3 DEF SweepWrite

LEMMA OrphanStep ==
  ASSUME OInv, NEW p \in Actors, Step(p)
  PROVE  TablesSettled' /\ Handlers'
<1>1. Moved(p)
  BY StepMoves DEF OInv
<1> QED
  BY <1>1, OrphanExpire, OrphanExpireWrite, OrphanReads, OrphanInsert, OrphanShardWrite,
     OrphanReleases, OrphanActivate, OrphanMark, OrphanMarkCheck, OrphanShardDelete,
     OrphanSweeps, OrphanSweepWrite DEF Step

LEMMA OrphanStarts ==
  ASSUME OInv, NEW p \in Actors, NEW e \in Emails, NEW u \in Users,
         StartCreate(p, e, u) \/ StartDelete(p, e, u)
  PROVE  TablesSettled' /\ Handlers'
<1>0. TypeOK /\ Tabled /\ TablesOK /\ Moved(p)
  BY OtherMoves DEF OInv, Tabled
<1>1. CASE StartCreate(p, e, u)
  <2>1. /\ u \notin used /\ used' = used \cup {u} /\ UNCHANGED <<res, member, born>>
        /\ h'[p].pc = "expireRead" /\ h'[p].uid = u
    BY <1>0, <1>1 DEF StartCreate, Idle, TypeOK
  <2>2. TablesSettled'
    BY <1>0, <2>1 DEF Tabled, TablesSettled, TablesOK, RowsSettled, Unmarked, HeldBy, OnShard
  <2>3. ASSUME NEW q \in Actors, q # p
        PROVE  Fine(h[q])' /\ (Writing(h'[q]) => h'[q].uid # u)
    <3>1. h'[q] = h[q] /\ Fine(h[q])
      BY <1>0, <2>3 DEF Moved, OInv, Handlers
    <3> QED  BY <2>1, <3>1 DEF Fine, Writing, Unmarked, HeldBy, OnShard
  <2>4. Fine(h[p])'
    BY <1>0, <2>1 DEF Fine, Writing, Early, TablesOK, HeldBy
  <2>5. ASSUME NEW q \in Actors, NEW r \in Actors, q # r, Writing(h'[q]), Writing(h'[r])
        PROVE  h'[q].uid # h'[r].uid
    BY <1>0, <2>1, <2>3, <2>5 DEF OInv, Handlers, Moved
  <2> QED  BY <2>2, <2>3, <2>4, <2>5 DEF Handlers, Writing, Early
<1>2. CASE StartDelete(p, e, u)
  <2>1. h'[p].pc = "mark" /\ h'[p].uid = u /\ u \in born /\ UNCHANGED tables
    BY <1>0, <1>2, BornOnShard DEF StartDelete, Idle, TypeOK
  <2>2. ~Writing(h'[p]) /\ Fine(h'[p])
    BY <2>1 DEF Writing, Early, Fine, ReserveLabels, ExpireLabels
  <2> QED  BY <1>0, <2>1, <2>2, QuietKept
<1> QED  BY <1>1, <1>2

LEMMA OrphanNext ==
  ASSUME "overlap" \notin Conditions, OInv, [Next]_vars
  PROVE  OInv'
<1>0. TypeOK' /\ LocalsOK' /\ Apart'
  BY TypeNext, ApartKept DEF OInv
<1> SUFFICES TablesSettled' /\ Handlers'
  BY <1>0 DEF OInv, TablesSettled
<1>1. ASSUME NEW p \in Actors, Step(p) PROVE TablesSettled' /\ Handlers'
  BY <1>1, OrphanStep
<1>2. ASSUME NEW p \in Actors, NEW e \in Emails, StartLogin(p, e)
      PROVE  TablesSettled' /\ Handlers'
  <2>1. h'[p].pc = "resolveRead" /\ UNCHANGED tables
    BY <1>2 DEF StartLogin, OInv, TypeOK, Idle
  <2> QED  BY <1>2, <2>1, OtherMoves, RestQuiet DEF OInv, Rest
<1>3. ASSUME NEW p \in Actors, NEW e \in Emails, NEW u \in Users,
             StartCreate(p, e, u) \/ StartDelete(p, e, u)
      PROVE  TablesSettled' /\ Handlers'
  BY <1>3, OrphanStarts
<1>4. ASSUME NEW p \in Actors, \/ StartBatch(p) \/ SweepError(p)
                               \/ \E e \in Emails, u \in Users : StartSingle(p, e, u)
      PROVE  TablesSettled' /\ Handlers'
  <2>1. h'[p].pc = "sweepRead" /\ UNCHANGED tables
    <3>1. CASE StartBatch(p) \/ \E e \in Emails, u \in Users : StartSingle(p, e, u)
      BY <3>1 DEF StartBatch, StartSingle, OInv, TypeOK, Idle
    <3>2. CASE SweepError(p)
      BY <3>2 DEF SweepError, OInv, TypeOK, Handler
    <3> QED  BY <1>4, <3>1, <3>2
  <2> QED  BY <1>4, <2>1, OtherMoves, RestQuiet DEF OInv, Rest
<1>5. ASSUME NEW p \in Actors, Crash(p) PROVE TablesSettled' /\ Handlers'
  BY <1>5, FinishQuiet DEF Crash
<1>6. ASSUME NEW e \in Emails, Expire(e) PROVE TablesSettled' /\ Handlers'
  <2>1. TablesSettled' /\ \A x \in Handler : Fine(x) => Fine(x)'
    BY <1>6, ExpireWriteTime DEF OInv, Tabled
  <2>2. h' = h /\ h \in [Actors -> Handler]
    BY <1>6 DEF Expire, OInv, TypeOK
  <2>3. ASSUME NEW q \in Actors PROVE Fine(h[q])'
    <3>1. PICK x \in Handler : x = h[q] /\ x = h'[q]
      BY <2>2
    <3>2. Fine(x)'
      BY <2>1, <3>1 DEF OInv, Handlers
    <3> QED  BY <3>1, <3>2 DEF Fine, Unmarked, HeldBy, OnShard
  <2> QED  BY <2>1, <2>2, <2>3 DEF OInv, Handlers, Writing, Early
<1>7. CASE UNCHANGED vars
  BY <1>7 DEF vars, OInv, TablesSettled, Handlers, TablesOK, RowsSettled, Fine, Unmarked, HeldBy, OnShard
<1> QED
  BY <1>1, <1>2, <1>3, <1>4, <1>5, <1>6, <1>7 DEF Next, Actors

LEMMA OrphanInit == Init => OInv
<1> SUFFICES ASSUME Init PROVE OInv
  OBVIOUS
<1>0. TypeOK /\ \A p \in Actors : h[p] = Idle
  BY TypeInit DEF Init
<1>1. LocalsOK /\ Apart /\ Handlers
  BY <1>0 DEF LocalsOK, LocalOK, Apart, RoleOK, Deleting, Sweeping, Handlers, Fine, Writing,
     Early, Creating, Idle, DeleteLabels, SweepLabels, ReserveLabels, ExpireLabels, Actors
<1>2. /\ born = {u \in Users : \E s \in Shards, e \in Emails : member[s][e] = u}
      /\ used = born \cup {u \in Users : \E e \in Emails : res[e] # NoRow /\ res[e].user = u}
      /\ \A e \in Emails : res[e] # NoRow => res[e].user \notin born
  BY DEF Init
<1>3. \A e \in Emails : res[e] # NoRow => res[e].user \in Users /\ ~res[e].routed
  BY DEF Init, UnroutedRows
<1>4. TablesOK
  BY <1>0, <1>2, <1>3 DEF TablesOK, TypeOK
<1>5. RowsSettled
  BY <1>2 DEF RowsSettled, Unmarked, HeldBy
<1> QED  BY <1>0, <1>1, <1>4, <1>5 DEF OInv

\* NoActiveOrphan: as long as deletions and the reconcile command do not run at
\* the same time, a routed ACTIVE row names a user that exists on its shard.
\* Creators may stall past their reservation, transactions may commit and report
\* a failure, users may predate the table, and handlers crash at any point.
THEOREM NoOrphan ==
  ASSUME "overlap" \notin Conditions
  PROVE  Spec => []NoActiveOrphan
<1>1. OInv => NoActiveOrphan
  BY DEF OInv, TablesOK, RowsSettled, Unmarked, HeldBy, NoActiveOrphan, Has
<1> QED  BY <1>1, OrphanInit, OrphanNext, PTL DEF Spec
=============================================================================
