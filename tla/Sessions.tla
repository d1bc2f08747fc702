------------------------------ MODULE Sessions ------------------------------
(***************************************************************************)
(* Refresh tokens of one user: the Redis set refresh:<userId> with its     *)
(* time to live, the handlers that store, rotate and revoke in it, and the *)
(* two columns of the User row they depend on.  Keys of different users    *)
(* are never touched by one command, so one user is enough.                *)
(*                                                                         *)
(* A login (password or Google, with or without a second factor), a        *)
(* refresh and a password reset are handlers with several awaited calls;   *)
(* logout, logoutAll and forgotPassword do a single one.                   *)
(***************************************************************************)
EXTENDS Naturals

CONSTANTS
  Tokens,      \* jtis drawn by crypto.randomUUID
  Procs,       \* handlers of all API instances
  Lifetime,    \* REFRESH_TOKEN_EXPIRES_IN, of the JWT and of the Redis key
  MaxTime,     \* bound on the clock
  MaxResets,   \* bound on password changes
  MaxCrashes,  \* bound on aborted handlers
  Conditions,  \* what the environment may do, see below
  NoToken, NoTtl

(***************************************************************************)
(* Conditions                                                              *)
(*   "slow"  time may pass between SADD and EXPIRE of storeRefreshToken    *)
(*   "cut"   a handler may die between the rotation script that detects a  *)
(*           reuse and the DEL that answers it                             *)
(***************************************************************************)
ASSUME ConditionsAssumption == Conditions \subseteq {"slow", "cut"}
ASSUME LifetimeAssumption == Lifetime \in Nat \ {0}
ASSUME BoundsAssumption == MaxTime \in Nat /\ MaxResets \in Nat /\ MaxCrashes \in Nat
ASSUME NoTokenAssumption == NoToken \notin Tokens
ASSUME NoTtlAssumption == NoTtl \notin Nat

VARIABLES
  now,      \* the clock
  live,     \* members of the Redis set
  ttl,      \* when Redis drops the set
  user,     \* the User row: password version, status, outstanding reset token
  jwt,      \* every token: when it expires, and what it stems from
  given,    \* tokens a client received
  h,        \* the handlers
  crashes,  \* handlers aborted so far
  stored,   \* history: tokens that ever were in the set
  removed,  \* history: tokens taken out by a command
  doomed,   \* history: sessions that a detected reuse must end
  purged    \* history: newest password whose reset has run its DEL

redisVars == <<live, ttl>>
history == <<stored, removed, doomed, purged>>
vars == <<now, live, ttl, user, jwt, given, h, crashes, stored, removed, doomed, purged>>

Labels ==
  {"idle",
   "challenge", "store", "expire",           \* login, issueAuthPayload
   "rotate", "reuse",                        \* refreshTokens
   "resetWrite", "purge",                    \* resetPassword
   "answer"}

\* pw is the password version a login or a reset goes by; late marks a login
\* that was under way when a reset revoked the sessions.
Handler ==
  [pc : Labels, old : Tokens \cup {NoToken}, new : Tokens \cup {NoToken},
   pw : 0..MaxResets, late : BOOLEAN]

Idle == [pc |-> "idle", old |-> NoToken, new |-> NoToken, pw |-> 0, late |-> FALSE]

\* root names the session, by the token its login stored first.
Jwt == [exp : 0..(MaxTime + Lifetime), root : Tokens, pw : 0..MaxResets, late : BOOLEAN]

TypeOK ==
  /\ now \in 0..MaxTime
  /\ live \subseteq Tokens
  /\ ttl \in 0..(MaxTime + Lifetime) \cup {NoTtl}
  /\ user \in [pw : 0..MaxResets, active : BOOLEAN, reset : BOOLEAN]
  /\ jwt \in [Tokens -> Jwt]
  /\ given \subseteq Tokens
  /\ h \in [Procs -> Handler]
  /\ crashes \in 0..MaxCrashes
  /\ stored \subseteq Tokens /\ removed \subseteq Tokens /\ doomed \subseteq Tokens
  /\ purged \in 0..MaxResets

Init ==
  /\ now = 0
  /\ live = {} /\ ttl = NoTtl
  /\ user = [pw |-> 0, active |-> TRUE, reset |-> FALSE]
  /\ jwt = [t \in Tokens |-> [exp |-> 0, root |-> t, pw |-> 0, late |-> FALSE]]
  /\ given = {}
  /\ h = [p \in Procs |-> Idle]
  /\ crashes = 0
  /\ stored = {} /\ removed = {} /\ doomed = {} /\ purged = 0
-----------------------------------------------------------------------------
At(p, label) == h[p].pc = label
Goto(p, label) == h' = [h EXCEPT ![p].pc = label]
Finish(p) == h' = [h EXCEPT ![p] = Idle]

\* jwt.verify
Valid(t) == t \in given /\ now < jwt[t].exp

\* Redis forgets the time to live together with the last member.
TtlOf(set, deadline) == IF set = {} THEN NoTtl ELSE deadline

\* del(refresh:<userId>)
DeleteKey == live' = {} /\ ttl' = NoTtl /\ removed' = removed \cup live

\* Logins that hold a verdict on the password but have stored nothing yet.
UnderWay(x) == x.pc \in {"challenge", "store"}
-----------------------------------------------------------------------------
\* Faulty: the old member of the handler is stored, which a login never fills.
StoreOther(p, t) ==
  /\ At(p, "store")
  /\ t \notin stored
  /\ live' = live \cup {h[p].old} /\ stored' = stored \cup {h[p].old}
  /\ Goto(p, "expire")
  /\ UNCHANGED <<now, ttl, user, jwt, given, crashes, removed, doomed, purged>>

\* Faulty: the rotation script with SISMEMBER instead of SREM.
RotateKeepsOld(p, new) ==
  LET old == h[p].old IN
  /\ At(p, "rotate")
  /\ \/ /\ old \in live /\ new \notin stored
        /\ live' = live \cup {new} /\ ttl' = now + Lifetime
        /\ jwt' = [jwt EXCEPT ![new] = [jwt[old] EXCEPT !.exp = now + Lifetime]]
        /\ stored' = stored \cup {new} /\ UNCHANGED doomed
        /\ h' = [h EXCEPT ![p] = [Idle EXCEPT !.pc = "answer", !.new = new]]
     \/ /\ old \notin live
        /\ doomed' = doomed \cup {jwt[t].root : t \in live}
        /\ Goto(p, "reuse") /\ UNCHANGED <<redisVars, jwt, stored>>
  /\ UNCHANGED <<now, user, given, crashes, removed, purged>>

\* Faulty: the rotation script without its EXPIRE.
RotateWithoutExpire(p, new) ==
  LET old == h[p].old IN
  /\ At(p, "rotate")
  /\ \/ /\ old \in live /\ new \notin stored
        /\ live' = (live \ {old}) \cup {new} /\ ttl' = TtlOf(live \ {old}, ttl)
        /\ jwt' = [jwt EXCEPT ![new] = [jwt[old] EXCEPT !.exp = now + Lifetime]]
        /\ stored' = stored \cup {new} /\ removed' = removed \cup {old} /\ UNCHANGED doomed
        /\ h' = [h EXCEPT ![p] = [Idle EXCEPT !.pc = "answer", !.new = new]]
     \/ /\ old \notin live
        /\ doomed' = doomed \cup {jwt[t].root : t \in live}
        /\ Goto(p, "reuse") /\ UNCHANGED <<redisVars, jwt, stored, removed>>
  /\ UNCHANGED <<now, user, given, crashes, purged>>

\* Faulty: the answer to a reuse only takes out the token that was presented.
RevokeReusedOnly(p) ==
  /\ At(p, "reuse")
  /\ live' = live \ {h[p].old} /\ ttl' = TtlOf(live', ttl)
  /\ removed' = removed \cup {h[p].old}
  /\ Finish(p)
  /\ UNCHANGED <<now, user, jwt, given, crashes, stored, doomed, purged>>

\* Faulty: a reset revokes the tokens that clients hold, not those on their way.
PurgeGiven(p) ==
  /\ At(p, "purge")
  /\ live' = live \ given /\ ttl' = TtlOf(live', ttl)
  /\ removed' = removed \cup (live \cap given)
  /\ purged' = IF h[p].pw > purged THEN h[p].pw ELSE purged
  /\ h' = [q \in Procs |-> IF q = p THEN Idle
                           ELSE [h[q] EXCEPT !.late = @ \/ UnderWay(h[q])]]
  /\ UNCHANGED <<now, user, jwt, given, crashes, stored, doomed>>
-----------------------------------------------------------------------------
(***************************************************************************)
(* login and googleLogin up to the first factor, verify2FA for the second, *)
(* then issueAuthPayload.                                                  *)
(***************************************************************************)

\* The row is read once; status and password are judged by that copy.
LoginRead(p) ==
  /\ At(p, "idle")
  /\ user.active
  /\ \E next \in {"challenge", "store"} :
       h' = [h EXCEPT ![p] = [Idle EXCEPT !.pc = next, !.pw = user.pw]]
  /\ UNCHANGED <<now, redisVars, user, jwt, given, crashes, history>>

\* verify2FA reads the row again, for its status, never for the password.
VerifyCode(p) ==
  /\ At(p, "challenge")
  /\ user.active
  /\ Goto(p, "store")
  /\ UNCHANGED <<now, redisVars, user, jwt, given, crashes, history>>

\* generateTokenPair draws a jti and signs it, then storeRefreshToken: SADD, and
\* EXPIRE in a call of its own.  Signed as late as this, a token never expires
\* sooner than the program's.
Store(p, t) ==
  /\ At(p, "store")
  /\ t \notin stored
  /\ live' = live \cup {t} /\ stored' = stored \cup {t}
  /\ jwt' = [jwt EXCEPT ![t] = [exp |-> now + Lifetime, root |-> t, pw |-> h[p].pw, late |-> h[p].late]]
  /\ h' = [h EXCEPT ![p] = [Idle EXCEPT !.pc = "expire", !.new = t]]
  /\ UNCHANGED <<now, ttl, user, given, crashes, removed, doomed, purged>>

SetTtl(p) ==
  /\ At(p, "expire")
  /\ ttl' = TtlOf(live, now + Lifetime)
  /\ Goto(p, "answer")
  /\ UNCHANGED <<now, live, user, jwt, given, crashes, history>>

\* The client receives the pair.
Answer(p) ==
  /\ At(p, "answer")
  /\ given' = given \cup {h[p].new}
  /\ Finish(p)
  /\ UNCHANGED <<now, redisVars, user, jwt, crashes, history>>
-----------------------------------------------------------------------------
(***************************************************************************)
(* refreshTokens                                                           *)
(***************************************************************************)

\* The JWT is verified and the row is read.
RefreshRead(p, old) ==
  /\ At(p, "idle")
  /\ Valid(old) /\ user.active
  /\ h' = [h EXCEPT ![p] = [Idle EXCEPT !.pc = "rotate", !.old = old]]
  /\ UNCHANGED <<now, redisVars, user, jwt, given, crashes, history>>

\* generateTokenPair, then ROTATE_SCRIPT.
Rotate(p, new) ==
  LET old == h[p].old IN
  /\ At(p, "rotate")
  /\ \/ /\ old \in live /\ new \notin stored
        /\ live' = (live \ {old}) \cup {new} /\ ttl' = now + Lifetime
        /\ jwt' = [jwt EXCEPT ![new] = [jwt[old] EXCEPT !.exp = now + Lifetime]]
        /\ stored' = stored \cup {new} /\ removed' = removed \cup {old} /\ UNCHANGED doomed
        /\ h' = [h EXCEPT ![p] = [Idle EXCEPT !.pc = "answer", !.new = new]]
     \/ /\ old \notin live
        /\ doomed' = doomed \cup {jwt[t].root : t \in live}
        /\ Goto(p, "reuse") /\ UNCHANGED <<redisVars, jwt, stored, removed>>
  /\ UNCHANGED <<now, user, given, crashes, purged>>

\* The script said 0: revokeAllRefreshTokens, in a second call.
Revoke(p) ==
  /\ At(p, "reuse")
  /\ DeleteKey
  /\ Finish(p)
  /\ UNCHANGED <<now, user, jwt, given, crashes, stored, doomed, purged>>
-----------------------------------------------------------------------------
(***************************************************************************)
(* logout, logoutAll, forgotPassword, resetPassword, updateUserStatus      *)
(***************************************************************************)
Logout(t) ==
  /\ Valid(t)
  /\ live' = live \ {t} /\ ttl' = TtlOf(live', ttl)
  /\ removed' = removed \cup (live \cap {t})
  /\ UNCHANGED <<now, user, jwt, given, h, crashes, stored, doomed, purged>>

LogoutAll ==
  /\ live # {}
  /\ DeleteKey
  /\ UNCHANGED <<now, user, jwt, given, h, crashes, stored, doomed, purged>>

ForgotPassword ==
  /\ user.pw < MaxResets /\ ~user.reset
  /\ user' = [user EXCEPT !.reset = TRUE]
  /\ UNCHANGED <<now, redisVars, jwt, given, h, crashes, history>>

\* The owner of the reset token is found; the new password is then hashed.
ResetRead(p) ==
  /\ At(p, "idle")
  /\ user.reset
  /\ h' = [h EXCEPT ![p] = [Idle EXCEPT !.pc = "resetWrite"]]
  /\ UNCHANGED <<now, redisVars, user, jwt, given, crashes, history>>

\* The update does not ask whether the reset token is still there.
ResetWrite(p) ==
  /\ At(p, "resetWrite")
  /\ user.pw < MaxResets
  /\ user' = [user EXCEPT !.pw = @ + 1, !.reset = FALSE]
  /\ h' = [h EXCEPT ![p].pc = "purge", ![p].pw = user.pw + 1]
  /\ UNCHANGED <<now, redisVars, jwt, given, crashes, history>>

Purge(p) ==
  /\ At(p, "purge")
  /\ DeleteKey
  /\ purged' = IF h[p].pw > purged THEN h[p].pw ELSE purged
  /\ h' = [q \in Procs |-> IF q = p THEN Idle
                           ELSE [h[q] EXCEPT !.late = @ \/ UnderWay(h[q])]]
  /\ UNCHANGED <<now, user, jwt, given, crashes, stored, doomed>>

SetStatus ==
  /\ user' = [user EXCEPT !.active = ~@]
  /\ UNCHANGED <<now, redisVars, jwt, given, h, crashes, history>>
-----------------------------------------------------------------------------
\* Time passes; Redis drops the set when its time has come.
Tick ==
  /\ now < MaxTime
  /\ "slow" \in Conditions \/ \A p \in Procs : ~At(p, "expire")
  /\ now' = now + 1
  /\ IF ttl # NoTtl /\ ttl <= now' THEN live' = {} /\ ttl' = NoTtl ELSE UNCHANGED redisVars
  /\ UNCHANGED <<user, jwt, given, h, crashes, history>>

\* The process dies, a call to Redis or Postgres fails, or a client gives up
\* before its second factor.
Crash(p) ==
  /\ ~At(p, "idle")
  /\ crashes < MaxCrashes
  /\ "cut" \in Conditions \/ ~At(p, "reuse")
  /\ crashes' = crashes + 1
  /\ Finish(p)
  /\ UNCHANGED <<now, redisVars, user, jwt, given, history>>

Step(p) ==
  \/ LoginRead(p) \/ VerifyCode(p) \/ SetTtl(p) \/ Answer(p) \/ Revoke(p)
  \/ \E t \in Tokens : Store(p, t) \/ RefreshRead(p, t) \/ Rotate(p, t)
  \/ ResetRead(p) \/ ResetWrite(p) \/ Purge(p)

Next ==
  \/ \E p \in Procs : Step(p) \/ Crash(p)
  \/ \E t \in Tokens : Logout(t)
  \/ LogoutAll \/ ForgotPassword \/ SetStatus \/ Tick

Spec == Init /\ [][Next]_vars
-----------------------------------------------------------------------------
\* However refreshes, logins and revocations interleave, a session never has
\* two tokens that work, and a token that was spent or revoked stays dead.
OneTokenPerSession ==
  /\ \A s, t \in live : jwt[s].root = jwt[t].root => s = t
  /\ live \cap removed = {}

\* A token that its client received, and that nobody used or revoked, works
\* until the JWT expires: the time to live of the shared key never runs out
\* before that of its youngest member.
UnusedTokenAccepted ==
  \A t \in given \ removed : now < jwt[t].exp => t \in live

\* "reuse revokes all sessions" (ARCHITECTURE.md): once the handler that saw a
\* reuse is done, no session of that moment lives, not even in a token that a
\* concurrent refresh obtained after the detection.
ReuseRevokesAll ==
  \A t \in live : jwt[t].root \in doomed => \E p \in Procs : At(p, "reuse")

\* Once a reset has revoked, the sessions that rest on an older password are
\* those of logins that were under way at that moment, and no others.
OldPasswordSessionsEnd ==
  \A t \in live : jwt[t].pw >= purged \/ jwt[t].late

Current ==
  [s \in Tokens |-> IF \E t \in live : jwt[t].root = s
                    THEN CHOOSE t \in live : jwt[t].root = s
                    ELSE NoToken]

Book == INSTANCE SessionBook WITH current <- Current, past <- stored

\* The Redis set implements the book of sessions: each login opens one, each
\* refresh spends one token for the next, and what was closed stays closed.
ImplementsSessionBook == Book!Spec
=============================================================================
