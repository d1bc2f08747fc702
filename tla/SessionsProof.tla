--------------------------- MODULE SessionsProof ---------------------------
(***************************************************************************)
(* Of refresh tokens, for any number of tokens, handlers and resets: a     *)
(* session never has two tokens that work, a password reset ends what      *)
(* rests on the older password, and the Redis set implements SessionBook.  *)
(* Given that a handler which saw a reuse lives to answer it, the answer   *)
(* ends every session; given that no time passes between SADD and EXPIRE,  *)
(* an unused token works until it expires.                                 *)
(***************************************************************************)
EXTENDS Sessions, TLAPS

Known ==
  /\ live \subseteq stored /\ given \subseteq stored
  /\ removed \subseteq stored /\ doomed \subseteq stored
  /\ \A t \in stored : jwt[t].root \in stored

\* The key outlives the token, unless the token is spent, revoked or expired.
Kept(t) ==
  \/ t \in removed
  \/ t \in live /\ (ttl = NoTtl \/ jwt[t].exp <= ttl)
  \/ jwt[t].exp <= now

\* What a handler carries from one call to the next is still so.
Sound(x) ==
  /\ x.pc \in {"expire", "answer"} => x.new \in stored
  /\ UnderWay(x) => x.pw >= purged \/ x.late
  /\ x.pc = "purge" => x.pw <= user.pw
  /\ "slow" \notin Conditions =>
       /\ x.pc = "expire" => x.new \in removed \cup live
       /\ x.pc = "answer" => Kept(x.new)

HandlersSound == \A p \in Procs : Sound(h[p])

Bounded == purged <= user.pw /\ \A t \in Tokens : jwt[t].exp <= now + Lifetime

AllKept == "slow" \notin Conditions => \A t \in given : Kept(t)

ReuseAnswered == "cut" \notin Conditions => ReuseRevokesAll

SInv ==
  /\ TypeOK /\ Known /\ Bounded
  /\ OneTokenPerSession /\ OldPasswordSessionsEnd /\ ReuseAnswered
  /\ AllKept /\ HandlersSound

\* A step that loses no token which was stored before it.
TokensKept ==
  /\ stored \subseteq stored'
  /\ \A t \in stored : /\ jwt'[t] = jwt[t]
                       /\ t \in removed \cup live => t \in removed' \cup live'
                       /\ Kept(t) => Kept(t)'

Data == <<now, live, ttl, jwt, given, stored, removed, doomed, purged>>
-----------------------------------------------------------------------------
LEMMA InitSInv == Init => SInv
<1> SUFFICES ASSUME Init PROVE SInv
  OBVIOUS
<1>1. \A p \in Procs : h[p] = Idle
  BY DEF Init
<1>2. TypeOK
  <2>1. Idle \in Handler
    BY BoundsAssumption DEF Idle, Handler, Labels
  <2>2. jwt \in [Tokens -> Jwt]
    BY BoundsAssumption, LifetimeAssumption DEF Init, Jwt
  <2>3. h \in [Procs -> Handler]
    BY <2>1 DEF Init
  <2> QED  BY <2>2, <2>3, BoundsAssumption DEF Init, TypeOK
<1>3. HandlersSound
  BY <1>1 DEF HandlersSound, Sound, Idle, UnderWay
<1>4. Known /\ OneTokenPerSession /\ OldPasswordSessionsEnd /\ ReuseAnswered /\ AllKept
  BY DEF Init, Known, OneTokenPerSession, OldPasswordSessionsEnd, ReuseAnswered,
         ReuseRevokesAll, AllKept
<1>5. Bounded
  BY LifetimeAssumption DEF Init, Bounded
<1> QED  BY <1>2, <1>3, <1>4, <1>5 DEF SInv

LEMMA HandlerFacts ==
  ASSUME TypeOK, NEW p \in Procs
  PROVE  h[p] \in Handler /\ h[p].pc \in Labels /\ h[p].pw \in 0..MaxResets
         /\ h[p].late \in BOOLEAN /\ h[p].new \in Tokens \cup {NoToken}
BY DEF TypeOK, Handler

LEMMA IdleSound == Idle \in Handler /\ Sound(Idle)
BY BoundsAssumption DEF Idle, Handler, Labels, Sound, UnderWay

\* The handlers that a step leaves alone stay sound.
LEMMA OthersSound ==
  ASSUME SInv, TokensKept, purged' = purged, user'.pw \in Nat, user.pw <= user'.pw,
         NEW p, \A q \in Procs \ {p} : h'[q] = h[q]
  PROVE  (\A q \in Procs \ {p} : Sound(h[q]))'
<1> SUFFICES ASSUME NEW q \in Procs \ {p} PROVE Sound(h[q])'
  OBVIOUS
<1>1. Sound(h[q]) /\ h'[q] = h[q] /\ h[q].pw \in Nat /\ user.pw \in Nat
  BY HandlerFacts, BoundsAssumption DEF SInv, HandlersSound, TypeOK
<1>2. h[q].pc \in {"expire", "answer"} => h[q].new \in stored
  BY <1>1 DEF Sound
<1>3. (h[q].pc \in {"expire", "answer"} => h[q].new \in stored)'
  BY <1>1, <1>2 DEF TokensKept
<1>4. (h[q].pc = "purge" => h[q].pw <= user.pw)'
  BY <1>1 DEF Sound
<1>5. (UnderWay(h[q]) => h[q].pw >= purged \/ h[q].late)'
  BY <1>1 DEF Sound, UnderWay
<1>6. ("slow" \notin Conditions /\ h[q].pc = "expire" => h[q].new \in removed \cup live)'
  BY <1>1, <1>2 DEF Sound, TokensKept
<1>7. ("slow" \notin Conditions /\ h[q].pc = "answer" => Kept(h[q].new))'
  <2>1. CASE "slow" \notin Conditions /\ h[q].pc = "answer"
    <3>1. h[q].new \in stored /\ Kept(h[q].new)
      BY <1>1, <1>2, <2>1 DEF Sound
    <3> QED  BY <1>1, <3>1 DEF TokensKept, Kept
  <2>2. CASE ~("slow" \notin Conditions /\ h[q].pc = "answer")
    BY <1>1, <2>2
  <2> QED  BY <2>1, <2>2
<1> QED  BY <1>3, <1>4, <1>5, <1>6, <1>7 DEF Sound
-----------------------------------------------------------------------------
\* A step that changes one handler, and no token.
LEMMA HandlerStep ==
  ASSUME SInv, NEW p \in Procs, NEW x \in Handler,
         h' = [h EXCEPT ![p] = x], UNCHANGED Data, crashes' \in 0..MaxCrashes,
         user' \in [pw : 0..MaxResets, active : BOOLEAN, reset : BOOLEAN], user.pw <= user'.pw,
         h[p].pc = "reuse" => "cut" \in Conditions \/ live = {},
         Sound(x)'
  PROVE  SInv'
<1> USE DEF Data
<1>1. TypeOK'
  BY DEF SInv, TypeOK
<1>2. \A q \in Procs : h'[q] = IF q = p THEN x ELSE h[q]
  BY DEF SInv, TypeOK
<1>3. Known' /\ OneTokenPerSession' /\ OldPasswordSessionsEnd'
  BY DEF SInv, Known, OneTokenPerSession, OldPasswordSessionsEnd
<1>4. AllKept'
  BY DEF SInv, AllKept, Kept
<1>5. Bounded'
  BY BoundsAssumption DEF SInv, Bounded, TypeOK
<1>6. ReuseAnswered'
  BY <1>2 DEF SInv, ReuseAnswered, ReuseRevokesAll, At
<1>7. HandlersSound'
  <2>1. TokensKept
    BY DEF TokensKept, Kept
  <2>2. user'.pw \in Nat
    BY BoundsAssumption
  <2>3. (\A q \in Procs \ {p} : Sound(h[q]))'
    BY <1>2, <2>1, <2>2, OthersSound
  <2>4. Sound(h[p])'
    BY <1>2 DEF Sound, UnderWay, Kept
  <2> QED  BY <2>3, <2>4 DEF HandlersSound
<1> QED  BY <1>1, <1>3, <1>4, <1>5, <1>6, <1>7 DEF SInv
-----------------------------------------------------------------------------
LEMMA UserFacts ==
  ASSUME TypeOK
  PROVE  /\ user \in [pw : 0..MaxResets, active : BOOLEAN, reset : BOOLEAN]
         /\ user.pw \in 0..MaxResets /\ user.pw <= user.pw /\ 0..MaxResets \subseteq Nat
         /\ crashes \in 0..MaxCrashes
BY BoundsAssumption DEF TypeOK

LEMMA LoginReadKeeps ==
  ASSUME SInv, NEW p \in Procs, LoginRead(p)
  PROVE  SInv'
<1>1. PICK next \in {"challenge", "store"} :
        h' = [h EXCEPT ![p] = [Idle EXCEPT !.pc = next, !.pw = user.pw]]
  BY DEF LoginRead
<1>0. PICK x \in Handler : x = [Idle EXCEPT !.pc = next, !.pw = user.pw]
  BY UserFacts, IdleSound DEF SInv, Idle, Handler, Labels
<1>2. x.pc = next /\ x.pw = user.pw
  BY <1>0 DEF Idle
<1>3. UNCHANGED <<Data, user, crashes>> /\ h[p].pc # "reuse"
  BY DEF LoginRead, Data, redisVars, history, At
<1>4. user.pw >= purged
  BY UserFacts DEF SInv, TypeOK, Bounded
<1>5. Sound(x)'
  BY <1>2, <1>3, <1>4 DEF Sound, Data
<1>6. h' = [h EXCEPT ![p] = x]
  BY <1>0, <1>1
<1> QED  BY <1>2, <1>3, <1>5, <1>6, UserFacts, HandlerStep DEF SInv

LEMMA VerifyCodeKeeps ==
  ASSUME SInv, NEW p \in Procs, VerifyCode(p)
  PROVE  SInv'
<1>1. h[p] \in Handler /\ Sound(h[p]) /\ h[p].pc = "challenge"
  BY HandlerFacts DEF SInv, HandlersSound, VerifyCode, At
<1>0. PICK x \in Handler : x = [h[p] EXCEPT !.pc = "store"]
  BY <1>1 DEF Handler, Labels
<1>2. x.pc = "store" /\ x.pw = h[p].pw /\ x.late = h[p].late
  BY <1>0, <1>1 DEF Handler
<1>3. UNCHANGED <<Data, user, crashes>>
  BY DEF VerifyCode, Data, redisVars, history
<1>4. Sound(x)'
  BY <1>1, <1>2, <1>3 DEF Sound, Data, UnderWay
<1>5. h' = [h EXCEPT ![p] = x]
  BY <1>0 DEF VerifyCode, Goto
<1> QED  BY <1>1, <1>2, <1>3, <1>4, <1>5, UserFacts, HandlerStep DEF SInv

LEMMA RefreshReadKeeps ==
  ASSUME SInv, NEW p \in Procs, NEW t \in Tokens, RefreshRead(p, t)
  PROVE  SInv'
<1> DEFINE x == [Idle EXCEPT !.pc = "rotate", !.old = t]
<1>1. x \in Handler /\ x.pc = "rotate"
  BY IdleSound DEF Idle, Handler, Labels
<1>2. UNCHANGED <<Data, user, crashes>> /\ h[p].pc # "reuse"
  BY DEF RefreshRead, Data, redisVars, history, At
<1>3. Sound(x)'
  BY <1>1 DEF Sound, UnderWay
<1>4. h' = [h EXCEPT ![p] = x]
  BY DEF RefreshRead
<1> HIDE DEF x
<1> QED  BY <1>1, <1>2, <1>3, <1>4, UserFacts, HandlerStep DEF SInv

LEMMA ResetReadKeeps ==
  ASSUME SInv, NEW p \in Procs, ResetRead(p)
  PROVE  SInv'
<1> DEFINE x == [Idle EXCEPT !.pc = "resetWrite"]
<1>1. x \in Handler /\ x.pc = "resetWrite"
  BY IdleSound DEF Idle, Handler, Labels
<1>2. UNCHANGED <<Data, user, crashes>> /\ h[p].pc # "reuse"
  BY DEF ResetRead, Data, redisVars, history, At
<1>3. Sound(x)'
  BY <1>1 DEF Sound, UnderWay
<1>4. h' = [h EXCEPT ![p] = x]
  BY DEF ResetRead
<1> HIDE DEF x
<1> QED  BY <1>1, <1>2, <1>3, <1>4, UserFacts, HandlerStep DEF SInv

LEMMA ResetWriteKeeps ==
  ASSUME SInv, NEW p \in Procs, ResetWrite(p)
  PROVE  SInv'
<1>1. user.pw + 1 \in 0..MaxResets /\ h[p] \in Handler /\ h[p].pc # "reuse"
  BY UserFacts, HandlerFacts, BoundsAssumption DEF SInv, ResetWrite, At
<1>0. PICK x \in Handler : x = [h[p] EXCEPT !.pc = "purge", !.pw = user.pw + 1]
  BY <1>1 DEF Handler, Labels
<1>2. x.pc = "purge" /\ x.pw = user.pw + 1
  BY <1>0, <1>1 DEF Handler
<1>3. UNCHANGED <<Data, crashes>>
  BY DEF ResetWrite, Data, redisVars, history
<1>4. user' = [user EXCEPT !.pw = user.pw + 1, !.reset = FALSE]
  BY DEF ResetWrite
<1>5. /\ user' \in [pw : 0..MaxResets, active : BOOLEAN, reset : BOOLEAN]
      /\ user'.pw = user.pw + 1 /\ user.pw <= user'.pw
  <2>1. user \in [pw : 0..MaxResets, active : BOOLEAN, reset : BOOLEAN]
        /\ user.pw \in Nat
    BY UserFacts DEF SInv
  <2>2. PICK n \in 0..MaxResets : n = user.pw + 1
    BY <1>1
  <2>3. user' = [user EXCEPT !.pw = n, !.reset = FALSE]
    BY <1>4, <2>2
  <2>4. user' \in [pw : 0..MaxResets, active : BOOLEAN, reset : BOOLEAN]
    BY <2>1, <2>3
  <2>5. user'.pw = n
    BY <2>1, <2>3
  <2>6. user.pw <= user.pw + 1
    BY <2>1
  <2> QED  BY <2>2, <2>4, <2>5, <2>6
<1>6. Sound(x)'
  <2>1. x.pw <= user'.pw
    BY <1>1, <1>2, <1>5, BoundsAssumption
  <2> QED  BY <1>2, <2>1 DEF Sound, UnderWay
<1>7. h' = [h EXCEPT ![p] = x]
  BY <1>0 DEF ResetWrite
<1> QED  BY <1>1, <1>2, <1>3, <1>5, <1>6, <1>7, UserFacts, HandlerStep DEF SInv

LEMMA CrashKeeps ==
  ASSUME SInv, NEW p \in Procs, Crash(p)
  PROVE  SInv'
<1>1. UNCHANGED <<Data, user>> /\ crashes' \in 0..MaxCrashes
  BY UserFacts, BoundsAssumption DEF SInv, Crash, Data, redisVars, history
<1>2. h[p].pc = "reuse" => "cut" \in Conditions
  BY DEF Crash, At
<1>3. Sound(Idle)'
  BY DEF Sound, Idle, UnderWay
<1>4. h' = [h EXCEPT ![p] = Idle]
  BY DEF Crash, Finish
<1> QED  BY <1>1, <1>2, <1>3, <1>4, IdleSound, UserFacts, HandlerStep DEF SInv

\* The row changes, and no handler.
LEMMA UserStep ==
  ASSUME SInv, UNCHANGED <<Data, h, crashes>>,
         user' \in [pw : 0..MaxResets, active : BOOLEAN, reset : BOOLEAN], user'.pw = user.pw
  PROVE  SInv'
<1>1. TypeOK'
  BY DEF SInv, TypeOK, Data
<1>2. Known' /\ OneTokenPerSession' /\ OldPasswordSessionsEnd' /\ Bounded'
  BY DEF SInv, Known, OneTokenPerSession, OldPasswordSessionsEnd, Bounded, Data
<1>3. AllKept' /\ ReuseAnswered'
  BY DEF SInv, AllKept, Kept, ReuseAnswered, ReuseRevokesAll, At, Data
<1>4. HandlersSound'
  BY DEF SInv, HandlersSound, Sound, UnderWay, Kept, Data
<1> QED  BY <1>1, <1>2, <1>3, <1>4 DEF SInv

LEMMA UserKeeps ==
  ASSUME SInv, ForgotPassword \/ SetStatus
  PROVE  SInv'
<1>1. UNCHANGED <<Data, h, crashes>>
  BY DEF ForgotPassword, SetStatus, Data, redisVars, history
<1>2. user' \in [pw : 0..MaxResets, active : BOOLEAN, reset : BOOLEAN] /\ user'.pw = user.pw
  BY UserFacts DEF SInv, ForgotPassword, SetStatus
<1> QED  BY <1>1, <1>2, UserStep
-----------------------------------------------------------------------------
LEMMA DataFacts ==
  ASSUME TypeOK
  PROVE  /\ now \in Nat /\ now <= MaxTime /\ MaxTime \in Nat /\ Lifetime \in Nat
         /\ now + Lifetime \in 0..(MaxTime + Lifetime)
         /\ ttl = NoTtl \/ ttl \in Nat
         /\ \A t \in Tokens : jwt[t] \in Jwt /\ jwt[t].exp \in Nat /\ jwt[t].root \in Tokens
         /\ stored \subseteq Tokens /\ live \subseteq Tokens
BY BoundsAssumption, LifetimeAssumption DEF TypeOK, Jwt

\* Tokens that are taken out of the set become removed ones.
TakesOut ==
  /\ live' \subseteq live /\ removed' = removed \cup (live \ live') /\ ttl' = TtlOf(live', ttl)
  /\ UNCHANGED <<now, jwt, given, stored, doomed>>

LEMMA TakesOutKeeps ==
  ASSUME SInv, TakesOut
  PROVE  Known' /\ OneTokenPerSession' /\ TokensKept /\ AllKept'
         /\ (\A t \in Tokens : jwt[t].exp <= now + Lifetime)'
<1>1. Known'
  BY DEF SInv, TakesOut, Known
<1>2. OneTokenPerSession'
  BY DEF SInv, TakesOut, OneTokenPerSession
<1>3. \A t \in stored : Kept(t) => Kept(t)'
  BY DEF TakesOut, Kept, TtlOf
<1>4. TokensKept
  BY <1>3 DEF TokensKept, TakesOut
<1>5. AllKept'
  <2>1. given \subseteq stored /\ given' = given
    BY DEF SInv, Known, TakesOut
  <2> QED  BY <1>3, <2>1 DEF SInv, AllKept
<1>6. (\A t \in Tokens : jwt[t].exp <= now + Lifetime)'
  BY DEF SInv, Bounded, TakesOut
<1> QED  BY <1>1, <1>2, <1>4, <1>5, <1>6

LEMMA TakesOutTyped ==
  ASSUME SInv, TakesOut
  PROVE  /\ now' \in 0..MaxTime /\ live' \subseteq Tokens /\ jwt' \in [Tokens -> Jwt]
         /\ ttl' \in 0..(MaxTime + Lifetime) \cup {NoTtl} /\ given' \subseteq Tokens
         /\ stored' \subseteq Tokens /\ removed' \subseteq Tokens /\ doomed' \subseteq Tokens
BY DEF SInv, TypeOK, TakesOut, TtlOf

LEMMA RevokeKeeps ==
  ASSUME SInv, NEW p \in Procs, Revoke(p)
  PROVE  SInv'
<1>1. TakesOut /\ live' = {} /\ UNCHANGED <<user, crashes, purged>> /\ h' = [h EXCEPT ![p] = Idle]
  BY DEF Revoke, DeleteKey, TakesOut, TtlOf, Finish
<1>2. \A q \in Procs : h'[q] = IF q = p THEN Idle ELSE h[q]
  BY <1>1 DEF SInv, TypeOK
<1>3. TypeOK'
  <2>1. h' \in [Procs -> Handler]
    BY <1>1, IdleSound DEF SInv, TypeOK
  <2> QED  BY <1>1, <2>1, TakesOutTyped DEF SInv, TypeOK
<1>4. OldPasswordSessionsEnd' /\ ReuseAnswered'
  BY <1>1 DEF OldPasswordSessionsEnd, ReuseAnswered, ReuseRevokesAll
<1>5. HandlersSound'
  <2>1. (\A q \in Procs \ {p} : Sound(h[q]))'
    BY <1>1, <1>2, TakesOutKeeps, UserFacts, OthersSound DEF SInv
  <2>2. Sound(h[p])'
    BY <1>2 DEF Sound, Idle, UnderWay
  <2> QED  BY <2>1, <2>2 DEF HandlersSound
<1>6. Bounded'
  BY <1>1, TakesOutKeeps DEF SInv, Bounded
<1> QED  BY <1>1, <1>3, <1>4, <1>5, <1>6, TakesOutKeeps DEF SInv

\* logout and logoutAll: no handler changes.
LEMMA LogoutsKeep ==
  ASSUME SInv, TakesOut, UNCHANGED <<user, h, crashes, purged>>
  PROVE  SInv'
<1>1. TypeOK'
  BY TakesOutTyped DEF SInv, TypeOK
<1>2. OldPasswordSessionsEnd' /\ ReuseAnswered'
  BY DEF SInv, OldPasswordSessionsEnd, ReuseAnswered, ReuseRevokesAll, At, TakesOut
<1>3. HandlersSound'
  <2> SUFFICES ASSUME NEW p \in Procs PROVE Sound(h[p])'
    BY DEF HandlersSound
  <2>1. PICK r : r \notin Procs
    BY NoSetContainsEverything
  <2>2. (\A q \in Procs \ {r} : Sound(h[q]))'
    BY TakesOutKeeps, UserFacts, OthersSound DEF SInv
  <2> QED  BY <2>1, <2>2
<1>4. Bounded'
  BY TakesOutKeeps DEF SInv, Bounded
<1> QED  BY <1>1, <1>2, <1>3, <1>4, TakesOutKeeps DEF SInv

LEMMA LogoutKeeps ==
  ASSUME SInv, NEW t \in Tokens, Logout(t)
  PROVE  SInv'
BY LogoutsKeep DEF Logout, TakesOut

LEMMA LogoutAllKeeps ==
  ASSUME SInv, LogoutAll
  PROVE  SInv'
BY LogoutsKeep DEF LogoutAll, DeleteKey, TakesOut, TtlOf

LEMMA PurgeKeeps ==
  ASSUME SInv, NEW p \in Procs, Purge(p)
  PROVE  SInv'
<1>1. /\ TakesOut /\ live' = {} /\ UNCHANGED <<user, crashes>>
      /\ purged' = IF h[p].pw > purged THEN h[p].pw ELSE purged
      /\ h' = [q \in Procs |-> IF q = p THEN Idle
                               ELSE [h[q] EXCEPT !.late = @ \/ UnderWay(h[q])]]
  BY DEF Purge, DeleteKey, TakesOut, TtlOf
<1>2. h[p].pc = "purge" /\ h[p].pw <= user.pw /\ h[p].pw \in 0..MaxResets
  BY HandlerFacts DEF SInv, HandlersSound, Sound, Purge, At
<1>3. \A q \in Procs : h[q] \in Handler /\ h'[q] \in Handler
  <2> SUFFICES ASSUME NEW q \in Procs PROVE h[q] \in Handler /\ h'[q] \in Handler
    OBVIOUS
  <2>1. h[q] \in Handler
    BY HandlerFacts DEF SInv
  <2>2. [h[q] EXCEPT !.late = @ \/ UnderWay(h[q])] \in Handler
    BY <2>1 DEF Handler, UnderWay
  <2> QED  BY <1>1, <2>1, <2>2, IdleSound
<1>4. purged' \in 0..MaxResets /\ purged' <= user'.pw
  BY <1>1, <1>2 DEF SInv, TypeOK, Bounded
<1>5. TypeOK'
  <2>1. h' \in [Procs -> Handler]
    BY <1>1, <1>3
  <2> QED  BY <1>1, <1>4, <2>1, TakesOutTyped DEF SInv, TypeOK
<1>6. OldPasswordSessionsEnd' /\ ReuseAnswered'
  BY <1>1 DEF OldPasswordSessionsEnd, ReuseAnswered, ReuseRevokesAll
<1>7. HandlersSound'
  <2> SUFFICES ASSUME NEW q \in Procs PROVE Sound(h[q])'
    BY DEF HandlersSound
  <2>1. CASE q = p
    <3>1. h'[q] = Idle
      BY <1>1, <2>1
    <3> QED  BY <3>1 DEF Sound, Idle, UnderWay
  <2>2. CASE q # p
    <3>1. h'[q] = [h[q] EXCEPT !.late = @ \/ UnderWay(h[q])]
      BY <1>1, <2>2
    <3>2. /\ h'[q].pc = h[q].pc /\ h'[q].new = h[q].new /\ h'[q].pw = h[q].pw
          /\ UnderWay(h[q]) => h'[q].late
      BY <1>3, <3>1 DEF Handler, UnderWay
    <3>3. Sound(h[q]) /\ TokensKept
      BY TakesOutKeeps, <1>1 DEF SInv, HandlersSound
    <3>4. h[q].new \in stored /\ Kept(h[q].new) => Kept(h[q].new)'
      <4>1. h[q].new \in stored /\ Kept(h[q].new) =>
              h[q].new \in removed' \/ jwt'[h[q].new].exp <= now'
        BY <1>1 DEF Kept, TakesOut
      <4> QED  BY <3>2, <4>1 DEF Kept
    <3>5. /\ h'[q].pc \in {"expire", "answer"} => h'[q].new \in stored'
          /\ UnderWay(h'[q]) => h'[q].late
          /\ h'[q].pc = "purge" => h'[q].pw <= user'.pw
      BY <1>1, <3>2, <3>3 DEF Sound, UnderWay, TokensKept
    <3>6. "slow" \notin Conditions =>
            /\ h'[q].pc = "expire" => h'[q].new \in removed' \cup live'
            /\ h'[q].pc = "answer" => Kept(h[q].new)'
      BY <3>2, <3>3, <3>4 DEF Sound, TokensKept
    <3> QED  BY <3>2, <3>5, <3>6 DEF Sound, UnderWay
  <2> QED  BY <2>1, <2>2
<1>8. Bounded'
  BY <1>4, <1>1, TakesOutKeeps DEF Bounded
<1> QED  BY <1>1, <1>5, <1>6, <1>7, <1>8, TakesOutKeeps DEF SInv
-----------------------------------------------------------------------------
LEMMA SetTtlKeeps ==
  ASSUME SInv, NEW p \in Procs, SetTtl(p)
  PROVE  SInv'
<1>1. /\ ttl' = TtlOf(live, now + Lifetime)
      /\ UNCHANGED <<now, live, user, jwt, given, crashes, stored, removed, doomed, purged>>
      /\ h[p].pc = "expire"
  BY DEF SetTtl, At, history
<1>2. h[p] \in Handler /\ Sound(h[p])
  BY HandlerFacts DEF SInv, HandlersSound
<1>3. PICK x \in Handler : x = [h[p] EXCEPT !.pc = "answer"]
  BY <1>2 DEF Handler, Labels
<1>4. h' = [h EXCEPT ![p] = x] /\ x.pc = "answer" /\ x.new = h[p].new
  BY <1>2, <1>3 DEF SetTtl, Goto, Handler
<1>5. \A q \in Procs : h'[q] = IF q = p THEN x ELSE h[q]
  BY <1>4 DEF SInv, TypeOK
<1>6. TypeOK'
  <2>1. h' \in [Procs -> Handler]
    BY <1>4 DEF SInv, TypeOK
  <2>2. ttl' \in 0..(MaxTime + Lifetime) \cup {NoTtl}
    BY <1>1, DataFacts DEF SInv, TtlOf
  <2> QED  BY <1>1, <2>1, <2>2 DEF SInv, TypeOK
<1>7. \A t \in Tokens : t \in removed \cup live => Kept(t)'
  BY <1>1 DEF SInv, Bounded, Kept, TtlOf
<1>8. \A t \in stored : Kept(t) => Kept(t)'
  <2>1. stored \subseteq Tokens
    BY DataFacts DEF SInv
  <2> QED  BY <1>1, <1>7, <2>1 DEF Kept
<1>9. TokensKept
  BY <1>1, <1>8 DEF TokensKept
<1>10. Known' /\ OneTokenPerSession' /\ OldPasswordSessionsEnd' /\ Bounded'
  BY <1>1 DEF SInv, Known, OneTokenPerSession, OldPasswordSessionsEnd, Bounded
<1>11. ReuseAnswered'
  BY <1>1, <1>5 DEF SInv, ReuseAnswered, ReuseRevokesAll, At
<1>12. AllKept'
  <2>1. given \subseteq stored /\ given' = given
    BY <1>1 DEF SInv, Known
  <2> QED  BY <1>8, <2>1 DEF SInv, AllKept
<1>13. HandlersSound'
  <2>1. (\A q \in Procs \ {p} : Sound(h[q]))'
    BY <1>1, <1>5, <1>9, UserFacts, OthersSound DEF SInv
  <2>2. Sound(h[p])'
    <3>1. h'[p].pc = "answer" /\ h'[p].new = h[p].new /\ h[p].new \in stored
      BY <1>1, <1>2, <1>4, <1>5 DEF Sound
    <3>2. "slow" \notin Conditions => Kept(h[p].new)'
      <4>1. "slow" \notin Conditions => h[p].new \in removed \cup live
        BY <1>1, <1>2 DEF Sound
      <4>2. h[p].new \in Tokens
        BY <3>1, DataFacts DEF SInv
      <4>3. "slow" \notin Conditions =>
              \/ h[p].new \in removed'
              \/ h[p].new \in live' /\ (ttl' = NoTtl \/ jwt'[h[p].new].exp <= ttl')
              \/ jwt'[h[p].new].exp <= now'
        BY <1>7, <4>1, <4>2 DEF Kept
      <4> QED  BY <3>1, <4>3 DEF Kept
    <3> QED  BY <1>1, <3>1, <3>2 DEF Sound, UnderWay
  <2> QED  BY <2>1, <2>2 DEF HandlersSound
<1> QED  BY <1>6, <1>10, <1>11, <1>12, <1>13 DEF SInv

LEMMA AnswerKeeps ==
  ASSUME SInv, NEW p \in Procs, Answer(p)
  PROVE  SInv'
<1>1. /\ given' = given \cup {h[p].new} /\ h' = [h EXCEPT ![p] = Idle]
      /\ UNCHANGED <<now, live, ttl, user, jwt, crashes, stored, removed, doomed, purged>>
      /\ h[p].pc = "answer"
  BY DEF Answer, Finish, At, redisVars, history
<1>2. Sound(h[p]) /\ h[p].new \in stored /\ h[p].new \in Tokens
  BY <1>1, DataFacts DEF SInv, HandlersSound, Sound
<1>3. \A q \in Procs : h'[q] = IF q = p THEN Idle ELSE h[q]
  BY <1>1 DEF SInv, TypeOK
<1>4. TypeOK'
  <2>1. h' \in [Procs -> Handler]
    BY <1>1, IdleSound DEF SInv, TypeOK
  <2> QED  BY <1>1, <1>2, <2>1 DEF SInv, TypeOK
<1>5. Known' /\ OneTokenPerSession' /\ OldPasswordSessionsEnd' /\ Bounded'
  BY <1>1, <1>2 DEF SInv, Known, OneTokenPerSession, OldPasswordSessionsEnd, Bounded
<1>6. ReuseAnswered'
  BY <1>1, <1>3 DEF SInv, ReuseAnswered, ReuseRevokesAll, At
<1>7. TokensKept
  BY <1>1 DEF TokensKept, Kept
<1>8. AllKept'
  <2>1. "slow" \notin Conditions => \A t \in given' : Kept(t)
    BY <1>1, <1>2 DEF SInv, AllKept, Sound
  <2> QED  BY <1>1, <2>1 DEF AllKept, Kept
<1>9. HandlersSound'
  <2>1. (\A q \in Procs \ {p} : Sound(h[q]))'
    BY <1>1, <1>3, <1>7, UserFacts, OthersSound DEF SInv
  <2>2. Sound(h[p])'
    BY <1>3 DEF Sound, Idle, UnderWay
  <2> QED  BY <2>1, <2>2 DEF HandlersSound
<1> QED  BY <1>4, <1>5, <1>6, <1>8, <1>9 DEF SInv

LEMMA TickKeeps ==
  ASSUME SInv, Tick
  PROVE  SInv'
<1>1. /\ UNCHANGED <<user, jwt, given, h, crashes, stored, removed, doomed, purged>>
      /\ now < MaxTime /\ now' = now + 1
      /\ "slow" \in Conditions \/ \A p \in Procs : h[p].pc # "expire"
      /\ IF ttl # NoTtl /\ ttl <= now' THEN live' = {} /\ ttl' = NoTtl
         ELSE live' = live /\ ttl' = ttl
  BY DEF Tick, At, redisVars, history
<1>2. live' \subseteq live /\ (ttl' = NoTtl \/ ttl' = ttl) /\ now <= now' /\ now' \in 0..MaxTime
  BY <1>1, DataFacts DEF SInv, TypeOK
<1>3. TypeOK'
  BY <1>1, <1>2 DEF SInv, TypeOK
<1>4. Known' /\ OneTokenPerSession' /\ OldPasswordSessionsEnd' /\ ReuseAnswered'
  BY <1>1, <1>2 DEF SInv, Known, OneTokenPerSession, OldPasswordSessionsEnd, ReuseAnswered,
                    ReuseRevokesAll, At
<1>5. Bounded'
  <2>1. \A t \in Tokens : jwt[t].exp \in Nat /\ jwt[t].exp <= now + Lifetime
    BY DataFacts DEF SInv, Bounded
  <2>2. \A t \in Tokens : jwt[t].exp <= now' + Lifetime
    BY <1>1, <2>1, DataFacts DEF SInv
  <2> QED  BY <1>1, <2>2 DEF SInv, Bounded
<1>6. \A t \in stored : Kept(t) => Kept(t)'
  <2> SUFFICES ASSUME NEW t \in stored, Kept(t) PROVE Kept(t)'
    OBVIOUS
  <2>1. jwt[t].exp \in Nat /\ now \in Nat /\ (ttl = NoTtl \/ ttl \in Nat)
    BY DataFacts DEF SInv
  <2>2. CASE jwt[t].exp <= now
    BY <1>1, <2>1, <2>2 DEF Kept
  <2>3. CASE t \in removed
    BY <1>1, <2>3 DEF Kept
  <2>4. CASE t \in live /\ ttl = NoTtl
    BY <1>1, <2>4 DEF Kept
  <2>5. CASE t \in live /\ ttl # NoTtl /\ jwt[t].exp <= ttl
    BY <1>1, <2>1, <2>5 DEF Kept
  <2> QED  BY <2>2, <2>3, <2>4, <2>5 DEF Kept
<1>7. AllKept'
  <2>1. given \subseteq stored
    BY DEF SInv, Known
  <2> QED  BY <1>1, <1>6, <2>1 DEF SInv, AllKept
<1>8. HandlersSound'
  <2> SUFFICES ASSUME NEW p \in Procs PROVE Sound(h[p])'
    BY DEF HandlersSound
  <2>1. Sound(h[p])
    BY DEF SInv, HandlersSound
  <2>2. h[p].new \in stored /\ Kept(h[p].new) => Kept(h[p].new)'
    <3>1. h[p].new \in stored /\ Kept(h[p].new) =>
            \/ h[p].new \in removed'
            \/ h[p].new \in live' /\ (ttl' = NoTtl \/ jwt'[h[p].new].exp <= ttl')
            \/ jwt'[h[p].new].exp <= now'
      BY <1>6 DEF Kept
    <3> QED  BY <1>1, <3>1 DEF Kept
  <2> QED  BY <1>1, <2>1, <2>2 DEF Sound, UnderWay
<1> QED  BY <1>3, <1>4, <1>5, <1>7, <1>8 DEF SInv
-----------------------------------------------------------------------------
(***************************************************************************)
(* A fresh token t enters the set, for the claims j; the tokens in gone    *)
(* leave it.  A login takes out none, a refresh the one it spends.         *)
(***************************************************************************)
Issues(t, j, gone) ==
  /\ t \in Tokens \ stored /\ j \in Jwt /\ j.exp = now + Lifetime /\ gone \subseteq live
  /\ live' = (live \ gone) \cup {t} /\ removed' = removed \cup gone
  /\ stored' = stored \cup {t} /\ jwt' = [jwt EXCEPT ![t] = j]
  /\ ttl' = ttl \/ ttl' = now + Lifetime
  /\ UNCHANGED <<now, user, given, crashes, doomed, purged>>

LEMMA IssuedJwt ==
  ASSUME SInv, NEW t, NEW j, NEW gone, Issues(t, j, gone)
  PROVE  jwt' \in [Tokens -> Jwt] /\ \A u \in Tokens : jwt'[u] = IF u = t THEN j ELSE jwt[u]
BY DEF SInv, TypeOK, Issues

LEMMA IssueKeepsTokens ==
  ASSUME SInv, NEW t, NEW j, NEW gone, Issues(t, j, gone)
  PROVE  TokensKept
<1>1. \A u \in stored : u # t /\ u \in Tokens /\ jwt'[u] = jwt[u] /\ jwt[u].exp \in Nat
                        /\ jwt[u].exp <= now + Lifetime
  BY IssuedJwt, DataFacts DEF SInv, Issues, Bounded
<1>2. \A u \in stored : Kept(u) => Kept(u)'
  <2> SUFFICES ASSUME NEW u \in stored, Kept(u) PROVE Kept(u)'
    OBVIOUS
  <2>1. CASE u \in removed'
    BY <2>1 DEF Kept
  <2>2. CASE u \notin removed' /\ u \in live /\ (ttl = NoTtl \/ jwt[u].exp <= ttl)
    BY <1>1, <2>2 DEF Kept, Issues
  <2>3. CASE jwt[u].exp <= now
    BY <1>1, <2>3 DEF Kept, Issues
  <2> QED  BY <2>1, <2>2, <2>3 DEF Kept, Issues
<1>3. \A u \in stored : u \in removed \cup live => u \in removed' \cup live'
  BY DEF Issues
<1> QED  BY <1>1, <1>2, <1>3 DEF TokensKept, Issues

LEMMA IssueKeeps ==
  ASSUME SInv, NEW t, NEW j, NEW gone, Issues(t, j, gone),
         \/ j.root = t
         \/ j.root \in stored /\ \A u \in live : jwt[u].root = j.root => u \in gone
  PROVE  Known' /\ OneTokenPerSession' /\ AllKept' /\ Bounded'
<1>0. /\ \A u \in Tokens : jwt'[u] = IF u = t THEN j ELSE jwt[u]
      /\ stored \subseteq Tokens /\ t \in Tokens /\ t \notin stored
      /\ live \subseteq stored /\ given \subseteq stored /\ removed \subseteq stored
      /\ \A u \in stored : jwt[u].root \in stored
  BY IssuedJwt, DataFacts DEF SInv, Issues, Known
<1>1. Known'
  <2>1. \A u \in stored' : jwt'[u].root \in stored'
    BY <1>0 DEF Issues
  <2>2. live' \subseteq stored' /\ given' \subseteq stored' /\ removed' \subseteq stored'
        /\ doomed' \subseteq stored'
    BY DEF SInv, Known, Issues
  <2> QED  BY <2>1, <2>2 DEF Known
<1>2. OneTokenPerSession'
  <2>1. live' \cap removed' = {}
    BY <1>0 DEF SInv, OneTokenPerSession, Issues
  <2>2. \A u \in live' \ {t} : u \in live /\ u \notin gone /\ jwt'[u] = jwt[u]
    BY <1>0 DEF Issues
  <2>3. \A u \in live' \ {t} : jwt'[u].root # jwt'[t].root
    BY <1>0, <2>2
  <2>4. \A u, v \in live' \ {t} : jwt'[u].root = jwt'[v].root => u = v
    BY <2>2 DEF SInv, OneTokenPerSession
  <2> QED  BY <2>1, <2>3, <2>4 DEF OneTokenPerSession
<1>3. AllKept'
  BY IssueKeepsTokens, <1>0 DEF SInv, AllKept, TokensKept, Issues
<1>4. Bounded'
  <2>1. now + Lifetime <= now + Lifetime
    BY DataFacts DEF SInv
  <2>2. \A u \in Tokens : jwt'[u].exp <= now + Lifetime
    BY <1>0, <2>1 DEF SInv, Bounded, Issues
  <2> QED  BY <2>2 DEF SInv, Bounded, Issues
<1> QED  BY <1>1, <1>2, <1>3, <1>4

LEMMA IssueTyped ==
  ASSUME SInv, NEW t, NEW j, NEW gone, Issues(t, j, gone), h' \in [Procs -> Handler]
  PROVE  TypeOK'
<1>1. ttl' \in 0..(MaxTime + Lifetime) \cup {NoTtl} /\ jwt' \in [Tokens -> Jwt]
  BY IssuedJwt, DataFacts DEF SInv, TypeOK, Issues
<1>2. live' \subseteq Tokens /\ stored' \subseteq Tokens /\ removed' \subseteq Tokens
  BY DataFacts DEF SInv, TypeOK, Issues
<1> QED  BY <1>1, <1>2 DEF SInv, TypeOK, Issues

LEMMA StoreIssues ==
  ASSUME SInv, NEW p \in Procs, NEW t \in Tokens, Store(p, t)
  PROVE  \E j : /\ Issues(t, j, {})
                /\ j.root = t /\ j.pw = h[p].pw /\ j.late = h[p].late
<1> DEFINE j == [exp |-> now + Lifetime, root |-> t, pw |-> h[p].pw, late |-> h[p].late]
<1>1. j \in Jwt
  BY DataFacts, HandlerFacts DEF SInv, Jwt
<1>2. Issues(t, j, {})
  BY <1>1 DEF Store, Issues
<1> QED  BY <1>2

LEMMA StoreKeeps ==
  ASSUME SInv, NEW p \in Procs, NEW t \in Tokens, Store(p, t)
  PROVE  SInv'
<1>0. PICK j : Issues(t, j, {}) /\ j.root = t /\ j.pw = h[p].pw /\ j.late = h[p].late
  BY StoreIssues
<1>1. PICK x \in Handler : x = [Idle EXCEPT !.pc = "expire", !.new = t]
  BY IdleSound DEF Idle, Handler, Labels
<1>2. h' = [h EXCEPT ![p] = x] /\ h[p].pc = "store" /\ x.pc = "expire" /\ x.new = t
  BY <1>1 DEF Store, At, Idle
<1>3. \A q \in Procs : h'[q] = IF q = p THEN x ELSE h[q]
  BY <1>2 DEF SInv, TypeOK
<1>4. Sound(h[p]) /\ TypeOK /\ UnderWay(h[p])
  BY <1>2 DEF SInv, HandlersSound, UnderWay
<1>5. TypeOK'
  <2>1. h' \in [Procs -> Handler]
    BY <1>2 DEF SInv, TypeOK
  <2> QED  BY <1>0, <2>1, IssueTyped
<1>6. \A u \in Tokens : jwt'[u] = IF u = t THEN j ELSE jwt[u]
  BY <1>0, IssuedJwt
<1>7. live \subseteq Tokens /\ live' = live \cup {t} /\ purged' = purged /\ doomed' = doomed
  BY <1>0, DataFacts DEF SInv, Issues
<1>8. OldPasswordSessionsEnd'
  <2>1. j.pw >= purged \/ j.late
    BY <1>0, <1>4 DEF Sound
  <2> QED  BY <1>6, <1>7, <2>1 DEF SInv, OldPasswordSessionsEnd
<1>9. ReuseAnswered'
  <2>1. t \notin doomed
    BY <1>0 DEF SInv, Known, Issues
  <2>2. \A q \in Procs : h[q].pc = "reuse" => h'[q].pc = "reuse"
    BY <1>2, <1>3
  <2> QED  BY <1>0, <1>6, <1>7, <2>1, <2>2 DEF SInv, ReuseAnswered, ReuseRevokesAll, At
<1>10. HandlersSound'
  <2>0. TokensKept
    BY <1>0, IssueKeepsTokens
  <2>3. user' = user
    BY <1>0 DEF Issues
  <2>1. (\A q \in Procs \ {p} : Sound(h[q]))'
    BY <1>3, <1>7, <2>0, <2>3, UserFacts, OthersSound DEF SInv
  <2>2. Sound(h[p])'
    BY <1>0, <1>2, <1>3 DEF Sound, UnderWay, Issues
  <2> QED  BY <2>1, <2>2 DEF HandlersSound
<1>11. Known' /\ OneTokenPerSession' /\ AllKept' /\ Bounded'
  BY <1>0, IssueKeeps
<1> QED  BY <1>5, <1>8, <1>9, <1>10, <1>11 DEF SInv

\* The script found the old token: the new one takes its place.
LEMMA RotateIssues ==
  ASSUME SInv, NEW p \in Procs, NEW t \in Tokens, Rotate(p, t), h[p].old \in live
  PROVE  \E j : /\ Issues(t, j, {h[p].old})
                /\ j.root = jwt[h[p].old].root /\ j.pw = jwt[h[p].old].pw
                /\ j.late = jwt[h[p].old].late
<1> DEFINE old == h[p].old
           j == [jwt[old] EXCEPT !.exp = now + Lifetime]
<1>1. jwt[old] \in Jwt /\ now + Lifetime \in 0..(MaxTime + Lifetime)
  BY DataFacts DEF SInv
<1>2. /\ j \in Jwt /\ j.exp = now + Lifetime /\ j.root = jwt[old].root
      /\ j.pw = jwt[old].pw /\ j.late = jwt[old].late
  BY <1>1 DEF Jwt
<1>3. Issues(t, j, {old})
  BY <1>2 DEF Rotate, Issues
<1> QED  BY <1>2, <1>3

LEMMA RotateKeeps ==
  ASSUME SInv, NEW p \in Procs, NEW t \in Tokens, Rotate(p, t), h[p].old \in live
  PROVE  SInv'
<1>0. PICK j : /\ Issues(t, j, {h[p].old})
               /\ j.root = jwt[h[p].old].root /\ j.pw = jwt[h[p].old].pw
               /\ j.late = jwt[h[p].old].late
  BY RotateIssues
<1>1. PICK x \in Handler : x = [Idle EXCEPT !.pc = "answer", !.new = t]
  BY IdleSound DEF Idle, Handler, Labels
<1>2. h' = [h EXCEPT ![p] = x] /\ h[p].pc = "rotate" /\ x.pc = "answer" /\ x.new = t
  BY <1>1 DEF Rotate, At, Idle
<1>3. \A q \in Procs : h'[q] = IF q = p THEN x ELSE h[q]
  BY <1>2 DEF SInv, TypeOK
<1>5. TypeOK'
  <2>1. h' \in [Procs -> Handler]
    BY <1>2 DEF SInv, TypeOK
  <2> QED  BY <1>0, <2>1, IssueTyped
<1>6. \A u \in Tokens : jwt'[u] = IF u = t THEN j ELSE jwt[u]
  BY <1>0, IssuedJwt
<1>7. /\ live \subseteq Tokens /\ live' = (live \ {h[p].old}) \cup {t}
      /\ purged' = purged /\ doomed' = doomed
  BY <1>0, DataFacts DEF SInv, Issues
<1>8. OldPasswordSessionsEnd'
  <2>1. j.pw >= purged \/ j.late
    BY <1>0 DEF SInv, OldPasswordSessionsEnd
  <2> QED  BY <1>6, <1>7, <2>1 DEF SInv, OldPasswordSessionsEnd
<1>9. ReuseAnswered'
  <2>1. \A q \in Procs : h[q].pc = "reuse" => h'[q].pc = "reuse"
    BY <1>2, <1>3
  <2>2. \A u \in live' : \E v \in live : jwt'[u].root = jwt[v].root
    BY <1>0, <1>6, <1>7
  <2> QED  BY <1>7, <2>1, <2>2 DEF SInv, ReuseAnswered, ReuseRevokesAll, At
<1>10. HandlersSound'
  <2>0. TokensKept
    BY <1>0, IssueKeepsTokens
  <2>3. user' = user
    BY <1>0 DEF Issues
  <2>1. (\A q \in Procs \ {p} : Sound(h[q]))'
    BY <1>3, <1>7, <2>0, <2>3, UserFacts, OthersSound DEF SInv
  <2>2. ttl' = now + Lifetime /\ jwt'[t].exp = now + Lifetime /\ t \in live'
        /\ now' = now /\ t \in stored'
    BY <1>0, <1>6, <1>7 DEF Rotate, Issues
  <2>4. now + Lifetime <= now + Lifetime
    BY DataFacts DEF SInv
  <2>5. Sound(h[p])'
    BY <1>2, <1>3, <2>2, <2>4 DEF Sound, UnderWay, Kept
  <2> QED  BY <2>1, <2>5 DEF HandlersSound
<1>11. Known' /\ OneTokenPerSession' /\ AllKept' /\ Bounded'
  <2>1. /\ j.root \in stored
        /\ \A u \in live : jwt[u].root = j.root => u \in {h[p].old}
    BY <1>0 DEF SInv, Known, OneTokenPerSession
  <2> QED  BY <1>0, <2>1, IssueKeeps
<1> QED  BY <1>5, <1>8, <1>9, <1>10, <1>11 DEF SInv

\* The script did not find it: the sessions of this moment are to end.
LEMMA ReuseFoundKeeps ==
  ASSUME SInv, NEW p \in Procs, NEW t \in Tokens, Rotate(p, t), h[p].old \notin live
  PROVE  SInv'
<1>1. /\ doomed' = doomed \cup {jwt[u].root : u \in live}
      /\ h' = [h EXCEPT ![p].pc = "reuse"]
      /\ UNCHANGED <<now, live, ttl, user, jwt, given, crashes, stored, removed, purged>>
  BY DEF Rotate, Goto, redisVars
<1>2. h[p] \in Handler
  BY HandlerFacts DEF SInv
<1>3. PICK x \in Handler : x = [h[p] EXCEPT !.pc = "reuse"]
  BY <1>2 DEF Handler, Labels
<1>4. x.pc = "reuse" /\ \A q \in Procs : h'[q] = IF q = p THEN x ELSE h[q]
  BY <1>1, <1>2, <1>3 DEF SInv, TypeOK, Handler
<1>5. {jwt[u].root : u \in live} \subseteq stored /\ stored \subseteq Tokens
  BY DataFacts DEF SInv, Known
<1>6. TypeOK'
  <2>1. h' \in [Procs -> Handler]
    BY <1>1, <1>3 DEF SInv, TypeOK
  <2> QED  BY <1>1, <1>5, <2>1 DEF SInv, TypeOK
<1>7. Known' /\ OneTokenPerSession' /\ OldPasswordSessionsEnd' /\ Bounded'
  BY <1>1, <1>5 DEF SInv, Known, OneTokenPerSession, OldPasswordSessionsEnd, Bounded
<1>8. AllKept'
  BY <1>1 DEF SInv, AllKept, Kept
<1>9. ReuseAnswered'
  BY <1>4 DEF ReuseAnswered, ReuseRevokesAll, At
<1>10. HandlersSound'
  <2>1. TokensKept
    BY <1>1 DEF TokensKept, Kept
  <2>2. (\A q \in Procs \ {p} : Sound(h[q]))'
    BY <1>1, <1>4, <2>1, UserFacts, OthersSound DEF SInv
  <2>3. Sound(h[p])'
    BY <1>4 DEF Sound, UnderWay
  <2> QED  BY <2>2, <2>3 DEF HandlersSound
<1> QED  BY <1>6, <1>7, <1>8, <1>9, <1>10 DEF SInv
-----------------------------------------------------------------------------
LEMMA NextKeeps == SInv /\ [Next]_vars => SInv'
<1> SUFFICES ASSUME SInv, [Next]_vars PROVE SInv'
  OBVIOUS
<1>1. CASE UNCHANGED vars
  <2>1. UNCHANGED <<Data, user, h, crashes>>
    BY <1>1 DEF vars, Data
  <2> QED  BY <2>1, UserFacts, UserStep DEF SInv
<1>2. ASSUME NEW p \in Procs, Step(p) PROVE SInv'
  <2>1. ASSUME NEW t \in Tokens, Rotate(p, t) PROVE SInv'
    BY <2>1, RotateKeeps, ReuseFoundKeeps
  <2> QED  BY <1>2, <2>1, LoginReadKeeps, VerifyCodeKeeps, SetTtlKeeps, AnswerKeeps, RevokeKeeps,
              StoreKeeps, RefreshReadKeeps, ResetReadKeeps, ResetWriteKeeps, PurgeKeeps DEF Step
<1>3. ASSUME NEW p \in Procs, Crash(p) PROVE SInv'
  BY <1>3, CrashKeeps
<1>4. CASE \E t \in Tokens : Logout(t)
  BY <1>4, LogoutKeeps
<1>5. CASE LogoutAll \/ ForgotPassword \/ SetStatus \/ Tick
  BY <1>5, LogoutAllKeeps, UserKeeps, TickKeeps
<1> QED  BY <1>1, <1>2, <1>3, <1>4, <1>5 DEF Next

LEMMA SessionsInv == Spec => []SInv
BY InitSInv, NextKeeps, PTL DEF Spec

\* The variables of Sessions stay in their types (sessions.cfg).
THEOREM SessionsTyping == Spec => []TypeOK
<1>1. SInv => TypeOK
  BY DEF SInv
<1> QED  BY <1>1, SessionsInv, PTL

\* A session never has two tokens that work, and a token that was spent or
\* revoked stays dead: rotation with SREM, SADD and EXPIRE in one script.
THEOREM OneToken == Spec => []OneTokenPerSession
<1>1. SInv => OneTokenPerSession
  BY DEF SInv
<1> QED  BY <1>1, SessionsInv, PTL

\* A password reset leaves alive no session that rests on an older password,
\* but for those of logins under way when it revoked.
THEOREM OldPasswordEnds == Spec => []OldPasswordSessionsEnd
<1>1. SInv => OldPasswordSessionsEnd
  BY DEF SInv
<1> QED  BY <1>1, SessionsInv, PTL

\* Where a handler that saw a reuse always lives to answer it, no session of
\* that moment outlives the answer, whoever refreshed it meanwhile.
THEOREM ReuseRevokes == ASSUME "cut" \notin Conditions PROVE Spec => []ReuseRevokesAll
<1>1. SInv => ReuseRevokesAll
  BY DEF SInv, ReuseAnswered
<1> QED  BY <1>1, SessionsInv, PTL

\* Where no time passes between SADD and EXPIRE, the key of the set outlives
\* every token in it, so an unused token works until its JWT expires.
THEOREM UnusedAccepted == ASSUME "slow" \notin Conditions PROVE Spec => []UnusedTokenAccepted
<1>1. SInv => UnusedTokenAccepted
  <2> SUFFICES ASSUME SInv, NEW t \in given \ removed, now < jwt[t].exp PROVE t \in live
    BY DEF UnusedTokenAccepted
  <2>1. Kept(t)
    BY DEF SInv, AllKept
  <2>2. t \in Tokens
    BY DEF SInv, TypeOK
  <2>3. now \in Nat /\ jwt[t].exp \in Nat
    BY <2>2, DataFacts DEF SInv
  <2> QED  BY <2>1, <2>3 DEF Kept
<1> QED  BY <1>1, SessionsInv, PTL
-----------------------------------------------------------------------------
(***************************************************************************)
(* The book of sessions.  No two live tokens share a root, so Current is   *)
(* the one token of each session that lives.                               *)
(***************************************************************************)
Points(f) ==
  /\ f = [s \in Tokens |-> f[s]]
  /\ \A t \in live : f[jwt[t].root] = t
  /\ \A s \in Tokens : (\A t \in live : jwt[t].root # s) => f[s] = NoToken

LEMMA CurrentPoints == SInv => Points(Current)
<1> SUFFICES ASSUME SInv PROVE Points(Current)
  OBVIOUS
<1>1. \A t \in live : jwt[t].root \in Tokens
  BY DataFacts DEF SInv
<1>2. Current = [s \in Tokens |-> Current[s]]
  BY DEF Current
<1>3. ASSUME NEW t \in live PROVE Current[jwt[t].root] = t
  <2>1. \A u \in live : jwt[u].root = jwt[t].root => u = t
    BY DEF SInv, OneTokenPerSession
  <2>2. Current[jwt[t].root] = CHOOSE u \in live : jwt[u].root = jwt[t].root
    BY <1>1 DEF Current
  <2> QED  BY <2>1, <2>2
<1>4. ASSUME NEW s \in Tokens, \A t \in live : jwt[t].root # s PROVE Current[s] = NoToken
  BY <1>4 DEF Current
<1> QED  BY <1>2, <1>3, <1>4 DEF Points

LEMMA NextPoints == SInv' => Points(Current)'
BY CurrentPoints, PTL

\* A step of Sessions sees the book before it and the book after it.
LEMMA BookPoints ==
  ASSUME SInv, SInv'
  PROVE  /\ Points(Current) /\ Points(Current)'
         /\ live \subseteq stored /\ stored \subseteq Tokens /\ live' \subseteq Tokens
         /\ \A t \in live : jwt[t].root \in Tokens
         /\ \A t \in live' : jwt'[t].root \in Tokens
BY CurrentPoints, NextPoints, DataFacts DEF SInv, Known, TypeOK, Jwt

LEMMA BookClose ==
  ASSUME SInv, SInv', live' \subseteq live, UNCHANGED <<jwt, stored>>
  PROVE  Book!Next
<1> DEFINE closed == {s \in Tokens : \A t \in live' : jwt[t].root # s}
<1>1. \A s \in Tokens : Current'[s] = IF s \in closed THEN NoToken ELSE Current[s]
  <2> SUFFICES ASSUME NEW s \in Tokens
               PROVE  Current'[s] = IF s \in closed THEN NoToken ELSE Current[s]
    OBVIOUS
  <2>1. CASE s \in closed
    BY <2>1, BookPoints DEF Points
  <2>2. CASE s \notin closed
    <3>1. PICK t \in live' : jwt[t].root = s
      BY <2>2
    <3>2. Current[s] = t /\ Current'[s] = t
      BY <3>1, BookPoints DEF Points
    <3> QED  BY <2>2, <3>2
  <2> QED  BY <2>1, <2>2
<1>2. Current' = [s \in Tokens |-> IF s \in closed THEN NoToken ELSE Current[s]]
  BY <1>1, BookPoints DEF Points
<1>3. Book!Close(closed)
  BY <1>2 DEF Book!Close
<1> QED  BY <1>3 DEF Book!Next

LEMMA BookStutters ==
  ASSUME UNCHANGED <<live, jwt, stored>>
  PROVE  UNCHANGED Book!bookVars
BY DEF Book!bookVars, Current

LEMMA StoreOpens ==
  ASSUME SInv, SInv', NEW p \in Procs, NEW t \in Tokens, Store(p, t)
  PROVE  Book!Next
<1>1. PICK j : Issues(t, j, {}) /\ j.root = t
  BY StoreIssues
<1>2. /\ live' = live \cup {t} /\ stored' = stored \cup {t} /\ t \notin stored
      /\ \A u \in live : u # t /\ jwt'[u] = jwt[u] /\ jwt[u].root \in stored
      /\ jwt'[t].root = t
  BY <1>1, IssuedJwt DEF SInv, TypeOK, Known, Issues
<1>3. \A s \in Tokens : Current'[s] = IF s = t THEN t ELSE Current[s]
  <2> SUFFICES ASSUME NEW s \in Tokens
               PROVE  Current'[s] = IF s = t THEN t ELSE Current[s]
    OBVIOUS
  <2>1. CASE s = t
    BY <1>2, <2>1, BookPoints DEF Points
  <2>2. CASE s # t /\ \E u \in live : jwt[u].root = s
    BY <1>2, <2>2, BookPoints DEF Points
  <2>3. CASE s # t /\ \A u \in live : jwt[u].root # s
    BY <1>2, <2>3, BookPoints DEF Points
  <2> QED  BY <2>1, <2>2, <2>3
<1>4. Current' = [Current EXCEPT ![t] = t]
  BY <1>3, BookPoints DEF Points
<1>5. Book!Open(t)
  BY <1>2, <1>4 DEF Book!Open
<1> QED  BY <1>5 DEF Book!Next

LEMMA RotateAdvances ==
  ASSUME SInv, SInv', NEW p \in Procs, NEW t \in Tokens, Rotate(p, t), h[p].old \in live
  PROVE  Book!Next
<1> DEFINE old == h[p].old
           r == jwt[old].root
<1>1. PICK j : Issues(t, j, {old}) /\ j.root = r
  BY RotateIssues
<1>2. /\ live' = (live \ {old}) \cup {t} /\ stored' = stored \cup {t} /\ t \notin stored
      /\ \A u \in live : u # t /\ jwt'[u] = jwt[u]
      /\ jwt'[t].root = r /\ r \in Tokens
  <2>1. \A u \in Tokens : jwt'[u] = IF u = t THEN j ELSE jwt[u]
    BY <1>1, IssuedJwt
  <2>2. t \notin stored /\ live \subseteq stored /\ stored \subseteq Tokens /\ r \in Tokens
    BY <1>1, BookPoints DEF Issues
  <2>3. live' = (live \ {old}) \cup {t} /\ stored' = stored \cup {t}
    BY <1>1 DEF Issues
  <2>4. \A u \in live : u # t /\ jwt'[u] = jwt[u]
    BY <2>1, <2>2
  <2> QED  BY <1>1, <2>1, <2>2, <2>3, <2>4
<1>3. \A u \in live \ {old} : jwt[u].root # r
  BY DEF SInv, OneTokenPerSession
<1> HIDE DEF r
<1>4. \A s \in Tokens : Current'[s] = IF s = r THEN t ELSE Current[s]
  <2> SUFFICES ASSUME NEW s \in Tokens
               PROVE  Current'[s] = IF s = r THEN t ELSE Current[s]
    OBVIOUS
  <2>1. CASE s = r
    BY <1>2, <2>1, BookPoints DEF Points
  <2>2. CASE s # r /\ \E u \in live : jwt[u].root = s
    <3>1. PICK u \in live : jwt[u].root = s
      BY <2>2
    <3>2. u # old
      BY <2>2, <3>1 DEF r
    <3>3. u \in live' /\ jwt'[u].root = s
      BY <1>2, <3>1, <3>2
    <3> QED  BY <2>2, <3>1, <3>3, BookPoints DEF Points
  <2>3. CASE s # r /\ \A u \in live : jwt[u].root # s
    BY <1>2, <2>3, BookPoints DEF Points
  <2> QED  BY <2>1, <2>2, <2>3
<1>5. Current' = [Current EXCEPT ![r] = t]
  BY <1>4, BookPoints DEF Points
<1>6. Current[r] # NoToken
  BY BookPoints, NoTokenAssumption DEF Points, r
<1>7. Book!Advance(r, t)
  BY <1>2, <1>5, <1>6 DEF Book!Advance
<1> QED  BY <1>2, <1>7 DEF Book!Next

LEMMA StepInBook ==
  ASSUME SInv, SInv', [Next]_vars
  PROVE  [Book!Next]_(Book!bookVars)
<1>1. CASE UNCHANGED vars
  BY <1>1, BookStutters DEF vars
<1>2. ASSUME NEW p \in Procs, Step(p) PROVE [Book!Next]_(Book!bookVars)
  <2>1. CASE LoginRead(p) \/ VerifyCode(p) \/ SetTtl(p) \/ Answer(p) \/ ResetRead(p) \/ ResetWrite(p)
    BY <2>1, BookStutters
       DEF LoginRead, VerifyCode, SetTtl, Answer, ResetRead, ResetWrite, redisVars, history
  <2>2. CASE Revoke(p) \/ Purge(p)
    BY <2>2, BookClose DEF Revoke, Purge, DeleteKey
  <2>3. ASSUME NEW t \in Tokens, Store(p, t) PROVE Book!Next
    BY <2>3, StoreOpens
  <2>4. ASSUME NEW t \in Tokens, RefreshRead(p, t) PROVE UNCHANGED Book!bookVars
    BY <2>4, BookStutters DEF RefreshRead, redisVars, history
  <2>5. ASSUME NEW t \in Tokens, Rotate(p, t) PROVE [Book!Next]_(Book!bookVars)
    <3>1. CASE h[p].old \in live
      BY <2>5, <3>1, RotateAdvances
    <3>2. CASE h[p].old \notin live
      BY <2>5, <3>2, BookStutters DEF Rotate, redisVars
    <3> QED  BY <3>1, <3>2
  <2> QED  BY <1>2, <2>1, <2>2, <2>3, <2>4, <2>5 DEF Step
<1>3. ASSUME NEW p \in Procs, Crash(p) PROVE [Book!Next]_(Book!bookVars)
  BY <1>3, BookStutters DEF Crash, redisVars, history
<1>4. CASE \E t \in Tokens : Logout(t)
  BY <1>4, BookClose DEF Logout
<1>5. CASE LogoutAll \/ Tick
  <2>1. live' \subseteq live /\ UNCHANGED <<jwt, stored>>
    BY <1>5 DEF LogoutAll, DeleteKey, Tick, redisVars, history
  <2> QED  BY <2>1, BookClose
<1>6. CASE ForgotPassword \/ SetStatus
  BY <1>6, BookStutters DEF ForgotPassword, SetStatus, redisVars, history
<1> QED  BY <1>1, <1>2, <1>3, <1>4, <1>5, <1>6 DEF Next

\* The Redis set implements the book of sessions, whatever crashes and whatever
\* time passes: a login opens a session, a refresh spends one token for the
\* next, and nothing brings a closed session back.
THEOREM BookRefined == Spec => ImplementsSessionBook
<1>1. Init => Book!Init
  <2> SUFFICES ASSUME Init PROVE Book!Init
    OBVIOUS
  <2> QED  BY DEF Init, Book!Init, Current
<1>2. SInv /\ SInv' /\ [Next]_vars => [Book!Next]_(Book!bookVars)
  BY StepInBook
<1> QED  BY <1>1, <1>2, SessionsInv, PTL DEF Spec, ImplementsSessionBook, Book!Spec
=============================================================================
