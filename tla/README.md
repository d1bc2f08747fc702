# A formal model of the GraphQL / Prisma / Postgres boilerplate

This directory holds TLA+ models of the backend in this repository, the TLC
configurations that model-check them on small instances, and proofs that TLAPS
checks for every instance. All paths below are relative to the repository root.

Contents: [parts of the system](#the-system), [plan](#plan),
[email reservation](#email-reservation), [sessions](#sessions),
[second factor](#second-factor), [request context](#request-context),
[ownership](#ownership), [access grants](#access-grants), [uploads](#uploads),
[folders](#folders), [share links](#share-links), [storage bridge](#storage-bridge),
[deployment](#deployment), [runs](#runs), [violations](#violations), [proofs](#proofs),
[what is not covered](#not-covered).

## The system

A Fastify server with a GraphQL API keeps users and workspaces in one or more
Postgres shards. A default database, the control plane, holds one table that is
shared by all shards: the reservation of email addresses. Redis holds refresh
tokens, a user cache, rate-limit counters and queues. A separate storage service
(Express, its own database) keeps files, folders and share links; the server
calls it through a bridge with a circuit breaker. `scripts/deploy.sh` replaces
one release by another (blue and green) behind nginx. Several API instances run
at once, so each handler interleaves with every other at its `await`s.

| Component | State | Operations | Hard behaviour | What makes it correct |
|---|---|---|---|---|
| Email reservation (`src/identity`, callers in auth, user management, `src/cli`) | reservation row per email, `User` row per shard | reserve, activate, release, mark, finalize, reconcile, resolve | two databases without a common transaction, crashes between steps, expiry, stale reads | one user per address, a user keeps its row, addresses become free again |
| Sessions (`src/cache/refreshToken.cache.ts`, auth service) | live refresh-token ids per user in Redis | login, refresh, logout, logoutAll, reset password | reuse detection in two calls, login racing a reset | a token is used once; after a reset or a reuse no older session survives |
| Second factor (auth and MFA service) | MFA and OTP JSON in the `User` row | challenge, verify, enrol, confirm, disable | read-modify-write of counters and lists | attempts at sign-in are bounded, a code is used once, but for what lost writes bring back |
| Workspace and ownership | `Workspace.ownerId`, `User.userType`, `status` | transferOwnership, suspend, delete | check before write, only the transfer in a transaction | one owner, active, in its workspace |
| Roles and access grants | roles, custom permissions | create/update/delete role, assign, set permissions | permissions change between check and write | nobody grants what they do not hold |
| User cache and request context | cached user per id | createContext, setUser, invalidate | late cache fill after an invalidation | the database decides, the cache only routes |
| Storage bridge | failure count, open-until time | signed request | concurrent requests share the counters | opens at the threshold, closes after success |
| Storage: uploads and files | `File` rows, objects in a store | sign, confirm, cancel, clean up, delete | two stores, clean-up racing a confirmation | an uploaded file has its object, the clean-up leaves files confirmed in time |
| Storage: folders | parent and materialised path | create, rename, move, delete | path rewrite of a subtree, reads outside the transaction | a tree, paths that agree with it |
| Storage: share links | token, expiry, view limit, count | create, view, revoke, clean up | limit checked and counted apart, one route that does not count | views exceed the limit by less than the requests at once |
| Blue-green deploy (`scripts/deploy.sh`) | containers, upstream file, nginx, marker, state file | deploy, roll back | killed at any step, state files that disagree | the serving release is never removed |
| Shard routing, Redis wiring, rate limits, queues, start-up, resolvers, providers, templates, scripts, proxy configuration | little or none of their own | | | not modelled, see [below](#not-covered) |

Interactions: signup, Google login and member creation reserve an address, write
a shard, activate the row and (for the first two) open a session; member deletion
marks the row, deletes on the shard, frees the row and drops the cache entry;
login resolves the row to a shard; the storage bridge signs a service token per
call; the deploy script runs the migrations that both releases must work with.

`PROJECT.json` lists every component with its sources and every hazard with its
line and the properties that watch it. Eight hazards have none, with the reason:
mostly that the code does go wrong there, and that no document of the repository says
otherwise. The notes of others say which exact case a property excepts.

## Plan

| Step | Modules | State |
|---|---|---|
| 1 Email reservation | `EmailReservation`, abstract `AccountDirectory` | checked; safety and refinement proved |
| 2 Sessions | `Sessions`, abstract `SessionBook` | checked; safety and refinement proved |
| 3 Workspace ownership | `Ownership` | checked; safety proved |
| 4 Deployment | `Deploy` | checked, with its liveness; safety proved |
| 5 Storage service | `Uploads`, `Folders`, `ShareLinks` | checked; safety proved |
| 6 Access grants | `AccessGrants` | checked; safety proved |
| 7 Small shared state | `StorageBridge`, `SecondFactor`, `RequestContext` | checked; safety proved |
| 8 Composition | member deletion of `EmailReservation` with `Ownership`: the refused delete that leaves a marker | left |
| 9 More proofs | `NoActiveOrphan` of `EmailReservation`; `Deploy`; the tree of `Folders` | proved |

Every module takes its sets as constants with named assumptions. None declares a
recursive operator: the descendants of a folder are its closure under children.
The components share no column but `User.status`, which the modules that read it
let change at any time. Two runs therefore put several small parts side by side
(`MCAccount`, `MCStorage`): the variable `part`, chosen at the start, says which
of them a behaviour follows, and the others stay as they are.

## Email reservation

Modules: `EmailReservation` (the code), `AccountDirectory` (what it promises),
`MCEmailReservation` (constants for TLC), `EmailReservationProof` (theorems).

**State.** `res` is the table `GlobalEmailReservation` keyed by email. A row keeps
the user id, the status, and two facts about the other columns: `expired`
(`expiresAt < now`) and `routed` (the nullable shard and workspace ids are set).
`member[s][e]` is the user that shard `s` stores under email `e` (the column is
unique per database). `Home` is the shard of a user's workspace; it is a constant
because the code writes user id, workspace id and shard id together. `used` are
the ids `crypto.randomUUID` has handed out and `born`, a history variable, the ids
whose shard transaction committed. `h[p]` is where a handler stands: its label,
its job, the email and user it works on, the row it has read (`snap`), the result
of its shard lookup (`seen`) and the work list of a reconcile batch (`todo`).

**Steps.** One action per awaited database call; what follows the call up to the
next `await` belongs to the same action.

| Code | Actions |
|---|---|
| `reconcileExpiredPendingReservation` | `ExpireRead`, `ExpireLook`, `ExpireWrite` |
| `reserveEmail` | the three above, `ReserveRead`, `ReserveInsert` |
| `signup`, `googleLogin`, `createUser` | `StartCreate`, `reserveEmail`, `ShardWrite`, then `Activate` or `Release` |
| `resolveUserByEmail` | `StartLogin`, `ResolveRead`, the three `Expire...`, `ResolveReread`, `Load`, `Activate` |
| `deleteUser` | `StartDelete`, `MarkReleasePending`, `MarkCheck`, `ShardDelete`, `FinalizeRelease` |
| `yarn identity:reconcile` | `StartBatch` or `StartSingle`, then `SweepRead`, `SweepLook`, `SweepWrite`, `SweepError` per row |
| the clock | `Expire` |
| a killed process or a failed call | `Crash` (at most `MaxCrashes`) |

Choices made: `expired` never becomes false by itself, only by a write that clears
`expiresAt`; reading twice whether a row has expired can only turn from no to yes.
The branch of `reserveEmail` that extends a PENDING row of the same user is left
out because every caller draws a fresh id. A conflict, a missing row and an
integrity error only end the handler. Any user may be deleted: that the owner is
refused belongs to `Ownership`, and allowing more deletions
only makes the safety properties stronger.

**Environment.** The constant `Conditions` says what may happen besides crashes:
`stall` (a creator sleeps past its 15 minutes before its shard transaction),
`ambiguous` (a commit whose answer is an error), `overlap` (reconcile runs during
a deletion), `legacy` (users without a row) and `unrouted` (rows without a shard
id, which the nullable columns allow). Each run names its own, so that a reader
sees which promise needs which assumption.

**Properties.**

* `GlobalEmailUniqueness`: no address names two users, on any two shards.
* `EveryUserReserved`: a committed user is named by the row of its address.
* `NoActiveOrphan`: a routed ACTIVE row names a user that exists. The batch only
  looks at RELEASE_PENDING rows, so an ACTIVE orphan would block its address
  until an operator names it by hand.
* `SleepingHandlers`: what a handler between two calls relies on is still true:
  a lookup that found no user still finds none, a creator about to write its
  shard still holds a live row, an expired row that somebody has read is not the
  row of a creator that may still commit. It is the inductive invariant.
* `ImplementsDirectory`: the refinement below.
* `ReleasePendingResolves`, `CommittedUserBecomesActive`: liveness.

**Refinement.** `AccountDirectory` knows only who owns an address, which account
is open under it and which ids ever had one. Claim, Open, Close and Free are its
steps. `EmailReservation` implements it with the owner read from `res`, the
account from whichever shard has one, and `born` as the past. So an address is
freed only when no shard holds its user, and an account opens only for the owner.

## Sessions

Modules: `Sessions`, the abstract `SessionBook`, `MCSessions`, `SessionsProof`.

**State.** `live` is the Redis set `refresh:<userId>` and `ttl` the time at which
Redis drops it; each command touches the key of one user only, so one user is
enough. `user` has the columns that matter (a version of the password, whether the
status is ACTIVE, whether a reset token is outstanding). `jwt[t]` says when token
`t` expires, which login its session began with (`root`), which password that
login went by, and whether it was `late`, that is, under way while a reset revoked.
`given` are the tokens clients hold, `h[p]` where a handler stands. `stored`,
`removed`, `doomed` and `purged` are history.

**Steps.** Each Redis or Postgres call is one.

| Code | Actions |
|---|---|
| `login`, `googleLogin`, `verify2FA`, `issueAuthPayload` | `LoginRead`, `VerifyCode` when a second factor is due, `Store` (SADD), `SetTtl` (EXPIRE), `Answer` |
| `refreshTokens`, `ROTATE_SCRIPT` | `RefreshRead`, `Rotate` (the script is atomic), `Answer` or `Revoke` |
| `logout`, `logoutAll`, `forgotPassword`, `updateUserStatus` | `Logout`, `LogoutAll`, `ForgotPassword`, `SetStatus` |
| `resetPassword` | `ResetRead`, `ResetWrite`, `Purge` |
| the clock, a killed handler | `Tick`, `Crash` |

A token is signed just before it is stored; the model does both in `Store`, which
makes a token expire no sooner than the real one and so asks more of the key. A
client may present any token it ever received, as often as it likes. `jwt.verify`
is `Valid`. What makes a second factor's code right is in `SecondFactor`.

**Environment.** `"slow"`: time may pass between SADD and EXPIRE. `"cut"`: a handler
may die between the script that detects a reuse and the DEL that answers it.

**Properties.** `OneTokenPerSession`: no two working tokens of one session, and a
spent or revoked token stays dead. `UnusedTokenAccepted`: a token nobody used works
until its JWT expires, although all tokens of a user share one deadline.
`ReuseRevokesAll`: sessions that were live when a reuse was detected do not outlive
the handler that detected it, even in tokens obtained after the detection.
`OldPasswordSessionsEnd`: after a reset, the only sessions of an older password are
those whose login was under way. That exception is real: a login that has compared
the old password, or waits for its code, still stores its token afterwards.
With `"slow"`, `UnusedTokenAccepted` fails: when the earlier deadline of the key
passes between SADD and EXPIRE, the new token goes with the old ones.

**Refinement.** `SessionBook` opens a session under a new token, advances it to a
token that was never current, and closes it for good. `Sessions` implements it, with
the session's member of `live` as its current token: checked without the two
conditions, proved with them.

## Second factor

Module: `SecondFactor` (theorems in `AccountProof`, checked in `MCAccount`).

**State.** `mfa` and `otp` are the two JSON columns of one `User` row. Codes and
enrolments are numbers in the order in which they are made up, so that a code never
comes back by chance; an authenticator's enrolment has one backup code. `login[p]`
is a request with the two columns as it has read them and what its user types.
`verified`, `spent` and `wrong` are history: the enrolments proved, how often each code
was accepted and how many wrong answers it judged at sign-in. `lost` counts the writes
over a row that had changed since the request read it.

| Code | Actions |
|---|---|
| `init2faEnrollment` | `ReadToEnrol`, `EnrolEmail` or `EnrolAuthenticator` |
| `confirm2faEnrollment` | `ReadToConfirm`, `Enable` or `RefuseConfirm` |
| `disable2fa` | `Disable` |
| `maybeStartMfaChallenge` | `ReadToChallenge`, `SendCode` |
| `verify2FA` | `ReadToVerify`, `AcceptCode`, `RejectCode`, `AcceptBackup`, `AnswerElse` |

The hash of a code and the mail that carries it are left out; an expired code is
judged like a wrong one. Nothing in the code notices a lost write: an answer to a
code writes back the whole `otp` it has read, and the use of a backup code the whole
`mfa`. So three of the four properties name what a lost write costs, no more than
that, and the fourth needs no exception. Histories and `lost` are counted up to
`MaxLost`, beyond which these three say nothing; a theorem about any `MaxLost` is one
about any number of lost writes.

**Properties.** `SpentOnce`: a one-time or backup code is accepted once, and once more
at most for each lost write. `GuessesBounded`: at sign-in a mailed code judges at most
`MaxAttempts` wrong answers, whatever new codes are asked for, and at most as many again
for each lost write. That bound is `verify2FA`'s alone: `confirm2faEnrollment`
(`mfa.service.ts:96-106`) compares answers with the code that was mailed for the
enrolment and counts none of them, so there a code judges any number
(`RefuseConfirm` may be taken for ever) and no bound holds. `OffByPasswordOnly`: an
enabled second factor goes off only through `disable2fa`, or in the very step in which
an enrolment that was read before the confirmation is written over it.
`EnabledIsVerified`, without exception: a confirmation writes back the settings it has
checked, so it never enables a newer enrolment that nobody has confirmed.

## Request context

Module: `RequestContext` (theorems in `AccountProof`, checked in `MCAccount`).

**State.** `images` is the history of the caller's `User` row with its `Workspace`,
the last of them being the row now. `entry` is the version that the cache holds,
`fills` are the `setUser` calls under way (the code does not await them), `ctx[p]` a
request: where it stands, whether its token still owes a second factor, the version
when it came in and the version it has read.

`Arrive`, `ReadCache`, `FillOnMiss`, `ReadHinted`, `Scan`, `Admit`, `TurnDown` are
`createContext`; `Guard` is `requireAuth` and `Protect`; `Return` ends the resolver.
`Change` is any mutation of the row. `ApplyFill` lets a fill arrive at any time and
`Forget` stands for an invalidation and for the TTL, so that invalidations come late or
never, as when Redis is away.

**Property.** `RunsOnFreshRow`: a resolver runs on a row read from the database since
the request came in, active then, with no second factor owed. The cache only says on
which shard to look.

## Ownership

Modules: `Ownership`, `MCOwnership` and `MCAccount`, `WorkspaceProof`.

**State.** `ownerId` is the column of the one workspace, `type` and `status` those of
its users (`absent` before the row is inserted, `deleted` after), `h[p]` a request:
its label and its arguments, since nothing it reads is kept.

**Steps.** `transferOwnership` is `CallTransfer` (the resolver's check on the row that
`createContext` read), `ReadOwner`, `ReadTarget`, `Commit`. `updateUserStatus` and
`deleteUser` are a check and a write: `CallSetStatus`, `SetStatus`; `CallDelete`,
`Delete`. `CreateUser` inserts a member. `Crash` aborts a request anywhere.
The three writes of a transfer are one step: Postgres runs at READ COMMITTED, so the
reads of the transaction lock nothing, but its first write locks the caller's row
until the end. A second transfer of the same owner waits there and then meets the rows
as the first has left them, which is what `Commit` judges. The partial unique index
`User_one_owner_per_workspace` and the foreign key of `Workspace.ownerId` are part
of `Commit` and `Delete`; the proof shows that it is they, not the checks, that keep
the two representations of the owner together.

**Properties.** `OneOwner`: the user `ownerId` names is there and is the only OWNER.
`OnlyOwnerHandsOver`: ownership moves only in a transfer called by the user that owns
the workspace when it commits.

## Access grants

Module: `AccessGrants` (`WorkspaceProof`, checked in `MCAccount`).

**State.** `owner`, `present` and `past` are the members, `custom` and `held` their custom
permissions and roles, `rolePerms` and `live` the roles. `grant[p]` is a request, which
acts for its caller as the context has read it (`asOwner`, `mine`). `released` is history:
what an owner gave out or somebody entitled to edit roles wrote into one.

| Code | Actions |
|---|---|
| guards and checks without a read | `AskRoles`, `AskSetCustom`, `AskCreate` |
| `getWorkspaceMember`, `assertNotOwnerTarget` | `ReadMember` |
| `assertCanAssignRoles`, the Admin check of `removeRoles` | `CheckRoles` |
| the write of `setUserRoles`, `assignRoles`, `removeRoles`, `setUserPermissions`, `createUser` | `Write` |
| `createRole`, `updateRole`, `deleteRole` | `EditRole`, `DeleteRole` |
| ownership changes hands, a member is deleted | `Transfer`, `Leave` |

An edit of a role is one step, though there are awaits between its checks and its
write: the checks concern the caller as its context has read it and the system flag,
which never changes, and the write does not depend on who makes it. The owner may make it in
every state, so a write that comes later than its check adds no behaviour. No rule limits what an editor writes into a role, which is
why such an edit counts as a source.

**Properties.** `PermissionsHaveSource`: what a member other than the owner may do has been
given out by an owner or written by a role editor; no chain of grants among the others
and no change between check and write brings up more. `AdminFromOwner`: a member
comes to hold the system Admin role only through a request whose caller was the owner.
`AdminTakenByOwner`, the same for losing it, is stated and not run, because it does not
hold: `setUserRoles` (`user-management.service.ts:255`) replaces all roles of its target
without the check that `removeRoles` makes at line 363.

## Uploads

Module: `Uploads` (`UploadsProof`, checked in `MCStorage`).

**State.** `fileRow`, `isPublic` and `overdue` are the columns of `File`; `object` and
`exposed` what the store holds and shows to everyone; `token` and `put` the upload
tokens that still admit a PUT and the PUTs being written. `job[j]` is a request of
the owner or a run of the clean-up. `contested` is history: the files on which two
requests, or half a request, wrote over each other, by column, and (`"late"`) those whose
confirmation was written when they had expired.

| Code | Actions |
|---|---|
| `createSignedUploadUrl` | `Sign` |
| the client's PUT | `PutBegins`, `PutEnds` |
| `confirmUpload` | `Confirm`, `CheckObject`, `SetAcl`, `MarkUploaded` or `MarkFailed` |
| `cancelUpload`, `deleteFiles` | `Cancel`, `Delete`; `DropObject` per object, `WriteRemoval` |
| `cleanupExpiredPendingFiles` | `FindExpired`, `DropObject`, `WriteRemoval` |
| `toggleFilePublic`, `updateFile` | `Toggle`, `Update`; `SetAcl`, `SavePublic` |
| the clock, a provider that refuses, a request that breaks off | `Expire`, `SetAclRefused`, `BreakOff` |

Each awaited call is a step, and rows are written by id as the code does. The store is
S3 or OBS; with local storage a token admits one PUT and there is no access list, which
is one of the branches.

`confirmUpload` does not look at `expiresAt` (`upload.service.ts:146` asks for the status
only), and time does not wait for a confirmation under way: `Confirm` and `Expire` are
free to meet, and a confirmation and a clean-up may work on one file.

**Environment.** `"refused"`: the provider refuses a
change of an access list, an error the adapter swallows. `"cut"`: a request breaks off.

**Properties.** `UploadedHasObject`: a file listed as uploaded has its object.
`PrivateNotExposed`: the store shows an object to everyone only if the row says so. Both
allow what is under way and what is on record as contested. `InTimeKept`: a file whose
confirmation was written before it expired is taken away only by a request of the owner. The
clean-up deletes by id what it has read as pending some calls ago; that this never is a file
confirmed in time rests on its reading only rows that had expired by then. A
file confirmed late it does take: without that exception (`<<f, "late">> \notin contested`)
TLC finds the clean-up listing an expired row, a confirmation marking it UPLOADED, and
the clean-up deleting its object and its row. No document says that this cannot happen, so
it is an exception here and not a run of its own.

## Folders

Modules: `Folders` (`FoldersProof`), `MCFolders` and `MCStorage`.

**State.** `path` (a sequence of names) and `parent` are the columns of one owner's
folders, `edit[e]` a request with the paths it has read. `NameStarts` says which name begins
another, since the code compares paths as strings: `/docs` also begins `/docs2`.

`createFolder` is `Create`, `Insert`; `renameFolder` and `moveFolder` are `Rename` or
`Move`, `ReadTarget`, `FindBelow`, and `Rewrite`, the one transaction; `deleteFolder` is
`Discard` and `Erase`, with the cascade of the database. The unique index on the path
decides inside `Insert` and `Rewrite`. It spans all owners, although the look for a folder of
the same path asks for the owner's only; so a path tells its owner, whatever is below it is
the same owner's, and one owner is enough.

**Properties.** `PathsAgree`: a path is the parent's path and one more name.
`ScopeIsSubtree`: the folders that a shared folder shows, found by path, are those below
it in the tree. `NoFolderInItself`: no folder gets below itself. All
three need renames and moves to run alone (`FolderOverlap` FALSE); creations and deletions
may overlap with each other. `NoFolderInItself` without that is the run `folders_cycle`.

## Share links

Module: `ShareLinks` (`StorageProof`, checked in `MCStorage`).

**State.** `linkRow`, `ofFolder`, `maxViews`, `views`, `lapsed` are the columns of `ShareLink`;
`visit[v]` a request with the link it has read; `served` counts what went out and `streamed`
how much of that were single files of a shared folder.

| Code | Actions |
|---|---|
| `GET /:token`, `GET /:token/download` | `OpenLink` (`getShareLinkByToken` and the password, `Open`), `CountView` (`incrementShareLinkViews`, atomic in the database), `Serve` |
| `GET /:token/file/:fileId` | `OpenFile` (the same check), `ServeFile`; nothing is counted |
| `createShareLink`, `deleteShareLink`, `cleanupExpiredShareLinks` | `CreateLink`, `DeleteLink`, `CleanLinks` |
| the clock, a visitor that hangs up | `Lapse`, `Leave` |

**Properties.** `ViewsBounded`: the check and the count are two calls, so a limit can be
overshot, but by fewer views than there are requests at once. `ServedIsCounted`: what
goes out has been counted, whatever is deleted or breaks off meanwhile, but for the
single files of a shared folder. Their route (`share.routes.ts:190-256`) compares the limit and
never counts, so while one view is left they go out any number of times; of a link to a
file nothing goes out uncounted.

## Storage bridge

Module: `StorageBridge` (`StorageProof`, checked in `MCStorage`).

**State.** `failures` and `wait` are the two fields of `StorageBridgeService` (a count beyond the
threshold acts like the threshold; a time is the ticks until it comes), `call` and `age` the
requests in flight, `outcomes` and `quiet` history. `Call` and `TurnAway` are the check
before the `fetch`; `Answer` the headers, which end the abort timer; `Succeed` and `Fail` what
follows; `Tick` the clock. Any error status counts as a failure, also one that the
client has caused, as in the code.

**Properties.** `LeftAlone`: after the last of `Threshold` failures in a row the storage
service is left alone for `Cooldown`, whatever older calls end meanwhile. `ClosesAgain`:
the breaker closes again, although requests keep coming.

**Fairness** (`ClosesAgain`). Time passes, and the abort of an overdue call is a timer's
callback. Nothing else is assumed: a body that never ends does not count as an answer
and does not open the breaker either.

## Deployment

Modules: `Deploy`, `MCDeploy`, `DeployProof`.

**State.** `cont[g]` is the commit and the health of group `g`'s containers, as
`inspect_health` sums them up. `nginx` is its container and the group its workers
route to, which changes on a reload or a restart only. `upstream`, `stateFile` and
`marker` are the three files. `script` holds the label and the shell variables of the
running deployment: the lock (`flock`) admits one, and the kernel drops it with the
process. `ended` records how the last deployment ended and for what.

**Steps.** A step is a command that changes something, with the tests before it.
`Start` is lines 119-348, `Detect` and `Revalidate` the two phases of
`determine_active_release`, then `Clean`, `StartCandidate`, `Check`, `WriteUpstream`,
`Reload`, `Validate`, `Retire`, `Persist`. `Rollback` enters `rollback()`: `RbNginx`
and `RbFiles` on a first deployment; `RbWrite`, `RbReload`, `RbVerify` when this run
has switched; `RbClean`. A reload may report success while the workers stay as they were.
Retries with sleeps are one step that may go either way as the state allows.
`RemoveGroup` is `docker compose stop` and `rm`, whose errors the script swallows wherever it
calls them (lines 197-198, 259-260, 591-592, 760-761), as it does for nginx (188-189): it goes on
as if they had worked. A container that is stopped and not removed counts as gone, since
`docker compose ps -q` does not list it. Taken to work are `rm -f` of the small files and
the writes of the state file and the marker.

**Environment.** `trouble` is chosen at the start: `kill` (the script dies anywhere,
at most `MaxKills` times), `disk` (the upstream file is truncated and not written),
`flap` (containers fail and recover), `reboot` (nginx restarts and reads its file; on
a broken file it stays down), `stuck` (a release may go on running when it is removed),
`stuckNginx` (so may nginx when a first deployment is rolled back). The passing run has
{kill, disk}, {flap, reboot, disk}, {kill, stuck, stuckNginx} and {flap, reboot, disk,
stuck, stuckNginx}. A kill together with a restarting nginx or failing containers is left out because the
safety properties then do not hold: the script never realigns the upstream file
with what nginx runs, see `deploy_upstream`. `DeployProof` calls this restriction `Calm`
and makes it without `stuckNginx`; typing and `SuccessAgrees` need neither.

**Properties.** `ServingNotRemoved`: no step takes away the containers that answer the
public endpoint. `CandidateNotServed`: until the switch the endpoint is not answered
by the candidate. Both except `NginxLeft`, a first deployment under `stuckNginx`: an
earlier one may have been rolled back and its nginx not removed, and that nginx routes to the
containers that the next first deployment, which finds no active group, replaces.
`SuccessAgrees`: after a success the group of the deployed commit is there, and nginx and both
files name it. The other group is gone, but not under `stuck`: the script reports a success
all the same, with the old release still running behind no nginx. `RollbackKeepsActive`: a
rollback leaves the old release behind nginx and, but under `stuck`, no candidate, or it
leaves the marker and both groups. `DeploysAgain`: kills do not wedge the host.

**Fairness** (`DeploysAgain`). Deployments keep being started and each command ends
(weak fairness). A command that may fail does not fail each time it is tried, and a
candidate checked again and again becomes healthy within its 20 attempts (strong
fairness): without that no deployment could ever succeed. The property speaks of a
host on which a release answers while no deployment runs. A first installation that
is killed inside its own rollback can leave two groups with no nginx and no file,
which the script refuses to judge ("Recovery required"), as it is meant to.

## Runs

`tlc -config <name>.cfg <module>` runs any of them.

| Run | Module | Shows |
|---|---|---|
| `reserve_overlap` | `MCEmailReservation` | users keep their rows, uniqueness, the inductive invariant, the refinement, with reconcile at any time |
| `reserve_faulty` | `MCEmailReservation` | with stalls, ambiguous commits and legacy users: still no ACTIVE orphan |
| `reserve_live` | `MCEmailReservation` | half-done deletions and creations are completed |
| `reserve_orphan` | `MCEmailReservation` | **violated**: an ACTIVE row without a user |
| `sessions` | `MCSessions` | one token per session, unused tokens work, reuse and reset revoke, the refinement |
| `sessions_cut` | `MCSessions` | **violated**: sessions outlive a detected reuse |
| `account` | `MCAccount` | the owner, the second factor, the request context and access grants |
| `ownership_suspended` | `MCOwnership` | **violated**: a suspended owner |
| `storage` | `MCStorage` | uploads, folders changed one after another, share links, and the breaker with its liveness |
| `folders_cycle` | `MCFolders` | **violated**: two folders inside each other |
| `deploy` | `MCDeploy` | the serving group is never removed, success and rollback agree with the files, deployments go on, in four environments |
| `deploy_upstream` | `MCDeploy` | **violated**: a rollback leaves a file that names the removed release |

**Bounds.** *Reservation:* two request handlers, one reconcile command, two shards, two
or three user ids, one address, one or two aborted handlers. Two handlers with fresh
ids are enough for every pairwise race, the third id lets a freed address be taken
again (on the same shard or on the other) while somebody still sleeps with what it
read of the first two, and the command is the third actor. Rows of different
addresses meet only in the work list of a batch, which the batch walks one by one.
*Sessions* (2.6 million states): two handlers next to the single-call operations, three
tokens (a session, its successor and a second session), a clock that passes one
lifetime, one reset, one handler that dies.
*Account* (1.1 million states): three users and three requests for ownership, so that two
transfers meet a suspension or a deletion; two requests, two codes, two enrolments and
two attempts for the second factor, so that a code, an enrolment and the attempts each run
over and each is overtaken by a newer one, and two lost writes, so that what holds after one
is checked; two calls and two versions of the
row, one before and one after a change; three members, two roles (one of them Admin), two
permissions, one request and three writes for the grants, so that caller, target and role all
change under the request.
*Storage* (240 thousand states): one file and three requests, so that two that clash meet a third; three
folders (a parent, a child and a folder to move to), two names of which one begins the
other, two requests; one link, to a file or to a folder, three visitors, limits 0, 1 and 2, three views and three single files; three
callers with the code's threshold of 5 and ticks of ten seconds or so (cool-down 3,
time-out 3).
*Deployment* (150 thousand states): two groups are all there are, two commits tell the old from the new, two
kills interrupt also the deployment that repairs.

Users, shards, tokens, handlers and upload requests that are interchangeable are
declared symmetric, never anything that a liveness property of the run speaks of.
Deadlock is checked where the system cannot stop. It is off in `account` (ids, codes
and versions run out, and a workspace whose owner is suspended can do nothing), in
`storage` and `folders_cycle` (ids and views run out) and in the two deployment runs (the
recovery marker stops the script until an operator acts).

**Fairness of `reserve_live`.** A started handler goes on (`WF` of its steps: Node runs a
resolved promise at last; a crash may still end it). An operator keeps running the
batch: strong fairness of `StartBatch`, because the guard that no deletion runs comes
and goes. docs/MIGRATIONS.md asks to run or schedule the command. For
`CommittedUserBecomesActive`, somebody keeps logging in with the address, which is the
only thing in the code that activates such a row. Nothing makes a request arrive or a
clock expire beyond that.

## Violations

* `reserve_orphan`: `identity:reconcile` cannot tell a deletion that died after its
  marker from one that is about to delete; it restores ACTIVE, and the finaliser, which
  insists on RELEASE_PENDING, leaves the row behind.
* `sessions_cut`: the script detects the reuse and a second call revokes. When the
  process dies or Redis fails in between, every session lives on.
* `ownership_suspended`: `updateUserStatus` checks that the target is no owner and then
  writes by id. A transfer that makes the target owner in between leaves an owner that
  is suspended, whom no mutation can reinstate.
* `folders_cycle`: `moveFolder` compares the two paths it has read
  (`folder.service.ts:266`) and writes the parent later, by id. Two moves, a under b and b under a,
  both pass on the tree as it was; each folder is then its own ancestor and neither
  can be reached from the top.
* `deploy_upstream`: a deployment killed between writing the upstream file and
  reloading nginx leaves a file that names the new group. The next deployment rightly
  finds the old group active, but realigns the state file only; when its candidate fails
  it removes the group the file names. The next start of nginx would route to nothing.

More circumstances break promises that hold otherwise. `"slow"` of `Sessions`, late
confirmations of `Uploads`, lost writes and uncounted guesses of `SecondFactor`, the uncounted
files of `ShareLinks` and the unnoticed removals of `Deploy` are described there. Two are conditions of `EmailReservation`, excluded by
the runs and theorems that need it:

* `stall`: nothing between `reserveEmail` and the shard transaction checks that the
  reservation still stands. A creator delayed for 15 minutes (slug lookup, password
  hash, connection pool) inserts its user although its row was deleted as expired and
  the address reserved, on another shard, by somebody else.
* `ambiguous`: `releaseAfterFailedShardWrite` runs on every error of the transaction.
  When the commit succeeded and its answer was lost, the row of a user that exists is
  deleted, and the address can be taken again.

## Proofs

`EmailReservationProof` proves, for all values of the constants that satisfy the
named assumptions of `EmailReservation`:

| Theorem | Statement | Needs |
|---|---|---|
| `Typing` | `Spec => [](TypeOK /\ LocalsOK)` | nothing else |
| `NoOrphan` | `Spec => []NoActiveOrphan` | no `"overlap"` |
| `Reservation` | `Spec => []EveryUserReserved` | `Reliable` |
| `Sleeping` | `Spec => []SleepingHandlers` | `Reliable` |
| `Uniqueness` | `Spec => []GlobalEmailUniqueness` | `Reliable` |
| `Implements` | `Spec => ImplementsDirectory` | `Reliable` |

`Reliable` says that `Conditions` contains none of `stall`, `ambiguous` and
`legacy`; the first two cannot be dropped, for the reasons given above, and a legacy
user has no row by definition. `overlap` and `unrouted` are allowed.

**Argument.** `EveryUserReserved` is not inductive: a handler that has decided to
delete a row may be asleep while the row changes under it. The invariant
`IInv == TypeOK /\ LocalsOK /\ SleepingHandlers /\ EveryUserReserved` adds, for each
label, what its handler knows. `TablesOK` says that only a committed user gets
past PENDING and that a row without a route names nobody. `CreatorOK` says that a
creator's id is its own and that whoever is about to write a shard holds a live
PENDING row. `SnapshotOK` says that a shard lookup that found nothing still finds
nothing, because the user in the snapshot either was born and is gone for good or
is not awaited by any creator; the latter is `NotAwaited`, a relation between two
handlers, and it is the place where the time to live matters. `LocalsOK` ties the
label of a handler to its job. `Invariance` has one lemma per action and one step
per conjunct the action can disturb. `Uniqueness` follows from
`EveryUserReserved` alone: two users under one address would be named by one row.
`Implements` maps each action to the abstract step it performs, with the invariant
as the reason why a deleted row's user has no account left.

`NoOrphan` is the promise that `reserve_orphan` breaks, and holds under every condition but the one
that breaks it: `stall`, `ambiguous` and `legacy` are allowed. Its invariant is another one,
`OInv == TypeOK /\ LocalsOK /\ TablesOK /\ RowsSettled /\ Apart /\ Handlers`. `NoActiveOrphan` alone
is not inductive, because a finalizer, a sweep or a late activation writes by what it read.
`RowsSettled` says that the row of a committed user that no deletion has marked has that
user on its shard. `Apart` says that no deletion and no sweep are ever under way together, and
`Handlers` what each handler relies on: one about to delete on the shard has its row marked (so the
shard row goes only under a mark), a sweep that found the user still has it there (nobody deletes
meanwhile), one that has not committed has an id in no shard and shares it with nobody.

`WorkspaceProof` proves of `Ownership`, for any set of users and any number of requests:

| Theorem | Statement |
|---|---|
| `OwnershipTyping` | `Spec => []TypeOK` |
| `SingleOwner` | `Spec => []OneOwner` |
| `HandOver` | `Spec => OnlyOwnerHandsOver` |
| `OwnerStaysActive` | `Spec /\ []Apart => []OwnerActive` |

`TypeOK /\ OneOwner` is inductive as it stands: a transfer whose caller has lost the
ownership since it looked would make a second OWNER, which the index refuses (or its
target is the owner already and nothing changes), and the foreign key keeps the
owner's row. `HandOver` follows from the same case split in each step.
`OwnerStaysActive` says how little would repair `ownership_suspended`: `Apart` asks only that no
status change of a member lies between its check and its write while a transfer to that same
member lies between `ReadTarget` and `Commit`. Everything else may interleave. `ActiveInv` adds that
the target of such a transfer is active and that no pending status write has the owner as target.

`SessionsProof` proves, for any number of tokens, handlers, resets and crashes:

| Theorem | Statement | Needs |
|---|---|---|
| `SessionsTyping` | `Spec => []TypeOK` | nothing else |
| `OneToken` | `Spec => []OneTokenPerSession` | nothing else |
| `OldPasswordEnds` | `Spec => []OldPasswordSessionsEnd` | nothing else |
| `ReuseRevokes` | `Spec => []ReuseRevokesAll` | no `"cut"` |
| `UnusedAccepted` | `Spec => []UnusedTokenAccepted` | no `"slow"` |
| `BookRefined` | `Spec => ImplementsSessionBook` | nothing else |

The two conditions cannot be dropped: `sessions_cut` breaks one, the slow store the other.
The invariant `SInv` adds to the properties what a handler carries between two calls
(`Sound`): a login under way holds the current password or is `late`, a token it has
stored is in the set or revoked. `AllKept` is what acceptance needs: the key
outlives every token in it (`Kept`), because each store and each rotation sets its deadline
anew and tokens have one lifetime. Rather than one lemma per conjunct, `TokensKept` says of a
step that it loses no stored token and `Issues` and `TakesOut` what adding and removing do, so
that each action only has to be shown to be one of these.

`AccountProof` proves `FreshRow` (`[](ContextTypeOK /\ RunsOnFreshRow)`) for
any number of calls and versions: nothing is said of the cached version but that it
existed, and `Judged` says what the row of a request has passed at each label. For the second
factor it proves `Verified` (`EnabledIsVerified`), `OnceOnly` (`SpentOnce`), `Bounded`
(`GuessesBounded`) and `StaysOn` (`OffByPasswordOnly`). `FInv` has two halves: `FReads`, what a
request relies on between its read and its write, and `Known`, that nothing is spent or
judged before it is made up, hold always; `Fresh` is an account with one debt per lost
write, and holds until `MaxLost` of them: a code that is out of the row was spent at most once
and one that is in it never, plus `lost` times; a mailed code judged as many wrong
answers as the row counts if it is there, or `MaxAttempts`, plus `MaxAttempts` per lost write.
A write over an unchanged row keeps this (`Kept`), and one over a changed row is paid for (`Paid`).

Of `AccessGrants` it proves `GrantsTyping`, `HaveSource` (`PermissionsHaveSource`) and `AdminSource`
(`AdminFromOwner`) for any members, roles, permissions and requests. Inductive are
`Sources`, on the rows, and `Requests`, on what a request carries from its check to
its write: one that does not act for the owner carries only what has a source, and never
Admin. That the roles may be edited between the check and the write is harmless since every
edit is a source.

`UploadsProof` proves, for any files and requests, `UploadTyping`, `UploadedStored`
(`UploadedHasObject`), `PrivateKept` (`PrivateNotExposed`) and `CleanUpKeeps` (`InTimeKept`), under
every condition. `Recorded` says that two requests that disturb each other are in `contested`;
`JobSound` what one request may rely on when it is not. A step then has to be shown
to be sound for the request that takes it and to leave the others as sound as they were
(`Spares`). `ExpirySound` says that a file the clean-up has listed is gone, or has expired and
is not confirmed (`Spoilt`), unless its confirmation is on record as late: a confirmation may be
under way on the same file, but whenever it is written, it is late.

`StorageProof` proves `LinksTyping`, `Overshoot` (`ViewsBounded`) and `NothingUncounted` (`ServedIsCounted`) for
any finite set of visitors. Both invariants count visits; they are inductive once a link is
known to have no visits before its row is there (`Unseen`) and single files to go out through
links to folders only (`FilesOfFolders`).

Of the breaker it proves `BridgeTyping` and `Alone` (`LeftAlone`) for any callers, threshold and
cool-down. `Counted` says that `failures` is at least the number of failures the
history ends with, so that the last of `Threshold` failures does open the breaker; then
`quiet <= wait` is inductive. `OpenRunsDown` (`BridgeSpec => RunsDown`) is what is left of `ClosesAgain`
without its fairness: while the breaker is open nothing new gets into flight, each `Tick`
lowers `wait`, and each prolongation uses up a request that was in flight when it opened.

**Composition.** `AccountProof` and `StorageProof` also bring the parts together. A step of `MCAccount` or
`MCStorage` is a step of one part that leaves the variables of the others alone, so the
composition implements each part's specification (`AccountImplementsParts`, `StorageImplementsParts`), and
what is proved of a part holds of the whole. `AccountTyping` (`AccountTypeOK`) and `StorageTyping`
(`StorageTypeOK`) are the two type invariants; `AccountHolds` and `StorageHolds` state the safety properties
of the runs `account` and `storage` for all values of the constants, the latter under
`~FolderOverlap`, as in the run. The liveness of the run `storage` is left out.

`FoldersProof` proves, for any folders, names and requests:

| Theorem | Statement | Needs |
|---|---|---|
| `FoldersTyping` | `FoldersSpec => []FoldersTypeOK` | nothing else |
| `PathsKept` | `FoldersSpec => []PathsAgree` | `~FolderOverlap` |
| `Scope` | `FoldersSpec => []ScopeIsSubtree` | `~FolderOverlap` |
| `NoCycle` | `FoldersSpec => []NoFolderInItself` | `~FolderOverlap` |

`folders_cycle` shows that the condition cannot be dropped. The invariant `FInv` has the rows
agree with their parents and no two of them share a path (`Tree`), and every request between two of
its calls still see the rows as it read them (`EditOK`), which `Apart` secures: a rename or a move
runs alone, and a creation's id is in no other request. `RewriteTree` is the heart: the rows under the
old path are, row by row, the old path or an extension of it, so a row is rewritten exactly if its
parent is, and what `MovedFront` says of the names carries the agreement over. The check that the
target is not below the folder is what puts the folder's new parent among the rows left alone.
From `Tree` the scope follows in both directions: the folders whose path goes on from that of `g`
are closed under children (`BelowHasPrefix`), and a shortest one that is not below `g`
would have a parent that is shorter still (`PrefixIsBelow`).

`DeployProof` proves, for any commits, any number of kills and any set of troubles:

| Theorem | Statement | Needs |
|---|---|---|
| `DeployTyping` | `Spec => []TypeOK` | nothing else |
| `SuccessIsAgreed` | `Spec => []SuccessAgrees` | nothing else |
| `CandidateWaits` | `Spec => []CandidateNotServed` | `Calm` |
| `RollbackIsComplete` | `Spec => []RollbackKeepsActive` | `Calm` |
| `ServingStays` | `Spec => ServingNotRemoved` | `Calm` |
| `FileIsRestored` | `Spec => []UpstreamRestored` | no kills, no `"stuckNginx"` |
| `RoutesToLive` | `Spec => []Served` | `NoFlap`, `Calm` |
| `ZeroDowntime` | `Spec => NeverDark` | `NoFlap`, `Calm`, no `"reboot"` with `"disk"` |

`Calm` says that in a history in which the script is killed no container fails and no nginx
restarts, and that nginx can be removed; releases may refuse to be. The first half
cannot be weakened: with either of the two added to the kills TLC finds a
counterexample to each of `CandidateNotServed`, `RollbackKeepsActive` and `ServingNotRemoved`.
With an nginx that cannot be removed the run still checks all four, the two that
need it with `NginxLeft` excepted.
`UpstreamRestored` fails with kills alone, which is `deploy_upstream`.

There are two layers. `DInv` holds always, and speaks of one deployment: at each label the shell
variables are consistent (`Shape`), only a first deployment finds no active group and then there are
no other containers, otherwise those of the two groups are there as long as they are
needed (`Containment`), and the file names the candidate from the switch on, and nginx once validation
has seen it (`Switched`); `Deployed` keeps what a success was about. `CInv` adds `Second`, which spans
deployments: nginx routes to a group exactly while it runs (`Workers`); without `"flap"` the active
group stays healthy, so does the candidate once checked and, after any kill, whatever nginx
routes to (`Lasting`); without kills file and nginx agree when a deployment looks at
them (`Agree`); until its switch nothing leads to the candidate, nor after a rollback (`NotRouted`); and
an ended deployment has left what its outcome says (`Over`). `ServingStays` then is a case
split over the four commands that change containers.

The last two are about the public endpoint. `Served`: while nginx is up it routes to a release that
answers. `NeverDark`: once the endpoint answers, it answers after every command, kill and restart;
only `RbNginx` of a first deployment, which has no release to go back to, ends that.
`NoFlap` leaves out containers that lose their health by themselves, which no script can prevent.
What a restarting nginx serves depends on a file written by an earlier deployment, so the
invariant `FileServes` follows the file: without kills it names a live group whenever nginx
is there, or nothing at all if the disk has failed. That is also why `"reboot"` and `"disk"` together are
excluded from `ZeroDowntime`: TLC then finds a restart on a file that a failed write has
broken, and with `"flap"`, or with kills and restarts together, the endpoint goes dark as well.

**Only model-checked.** Liveness (`ReleasePendingResolves`, `CommittedUserBecomesActive`, `DeploysAgain`,
`ClosesAgain`) is out of the prover's reach: it has no rules for fairness and `ENABLED`; of the last,
`OpenRunsDown` proves the part that needs none. Every invariant and every other property of
a passing run is a theorem. The properties of the runs that
expect a violation are false as they stand; `FileIsRestored`, `NoCycle`, `NoOrphan`,
`OwnerStaysActive` and `ReuseRevokes` say where the five of them, or the promise they break, hold.

## Not covered

**Within the modelled parts.** `updateWorkspace` and `updateUser`, which touch none of the modelled
columns; the composition of a refused member deletion with its marker (step 8 of the plan); the
folder a file is in, and with it the null that the database sets when a folder goes, so that the
single files of a shared folder are told by their link only; the settings a deployment validates, its image pulls and its migrations, which change nothing the
script decides by; the hand-written recovery after the marker. In the email protocol, the
content of a user, the choice of a shard for a new workspace and the wording of errors are
abstracted. Uploads with two files and two requests at once were tried: beyond twelve
million states, with nothing two files share but the work list of one deletion; the
theorems cover them.

**Seen while modelling, without a run.** The page of a share link does not look at the status of
its file. An error that the client caused (4xx) counts against the storage service in
the breaker. Reading the body of an answer has no time-out. `setUserRoles` can take the Admin role
away (see access grants). Two owners cannot both have a top folder of the same name, because
the index on the path knows no owner.

**Components without a module.** Shard routing and readiness: the pool and its health probe
belong to the `prisma-sharding` package; that a user is looked for on its shard is `Home`. Redis
wiring, rate limits and queues: the state machines belong to libraries. Start-up and
shutdown: one sequence each. Resolvers: they validate, call a service and format the error.
Storage providers and routes: I/O, seen in `Uploads` by what it does to objects, access
lists and tokens. Operations scripts and proxy configuration: set-up and static files.
Generated Prisma clients and GraphQL types, mail and HTML templates, scalars: no state. The
generated code alone is more than half of the lines under `src/`, which is why the models stand
for a small share of all lines although they cover the handlers that keep state.
