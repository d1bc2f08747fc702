---------------------------- MODULE AccountProof ----------------------------
(***************************************************************************)
(* Of the way into an account, for any number of requests and any history  *)
(* of the row: a resolver runs on a row read since its request came in     *)
(* (RequestContext), and a second factor is enabled only with a secret its *)
(* user has proved to hold (SecondFactor).  At the end, all that is checked *)
(* of the four parts around a member's row, of the specification that      *)
(* composes them.                                                          *)
(***************************************************************************)
EXTENDS MCAccount, WorkspaceProof, TLAPS

(***************************************************************************)
(* The request context.  Only what the database said goes into ctx.row;    *)
(* nothing is known of the cached version but that it existed once.        *)
(***************************************************************************)
HasRow == {"check", "guard", "run"}
Judged(c) ==
  /\ c.began <= Now
  /\ c.at \in HasRow => c.row \in 1..Now /\ c.began <= c.row
  /\ c.at = "guard" => c.pending \/ Active(images[c.row])
  /\ c.at = "run" => ~c.pending /\ Active(images[c.row])

CInv == ContextTypeOK /\ \A p \in Calls : Judged(ctx[p])

CallRec == [at : CallLabels, pending : BOOLEAN, began : 0..MaxVersions, row : 0..MaxVersions]

LEMMA InitCInv == InitContext => CInv
<1> SUFFICES ASSUME InitContext PROVE CInv
  OBVIOUS
<1>1. images \in Seq(Images) /\ Len(images) = 1
  BY DEF InitContext, Images
<1>2. ContextTypeOK
  BY <1>1, ContextAssumption DEF InitContext, ContextTypeOK, NoCall, CallLabels, Versions
<1>3. \A p \in Calls : Judged(ctx[p])
  <2>1. Judged(NoCall)
    BY <1>1 DEF NoCall, Judged, HasRow, Now
  <2>2. \A p \in Calls : ctx[p] = NoCall
    BY DEF InitContext
  <2> QED  BY <2>1, <2>2
<1> QED  BY <1>2, <1>3 DEF CInv

\* A step of one request that leaves the row alone.
LEMMA CallStep ==
  ASSUME CInv, NEW p \in Calls, NEW c \in CallRec, Judged(c), UNCHANGED images,
         ctx' = [ctx EXCEPT ![p] = c],
         entry' \in 0..Len(images), fills' \subseteq 1..Len(images)
  PROVE  CInv'
<1>1. ctx' \in [Calls -> CallRec]
  BY DEF CInv, ContextTypeOK, CallRec
<1>2. ContextTypeOK'
  BY <1>1 DEF CInv, ContextTypeOK, CallRec
<1>3. \A q \in Calls : ctx'[q] = IF q = p THEN c ELSE ctx[q]
  BY DEF CInv, ContextTypeOK
<1>4. (\A q \in Calls : Judged(ctx[q]))'
  BY <1>3 DEF CInv, Judged, Now
<1> QED  BY <1>2, <1>4 DEF CInv

LEMMA CallFacts ==
  ASSUME CInv, NEW p \in Calls
  PROVE  /\ ctx[p] \in CallRec /\ Judged(ctx[p])
         /\ Now \in Versions /\ Now = Len(images) /\ Versions \subseteq 0..MaxVersions
BY ContextAssumption DEF CInv, ContextTypeOK, CallRec, Now, Versions

LEMMA NoCallJudged == ASSUME CInv PROVE NoCall \in CallRec /\ Judged(NoCall)
BY ContextAssumption DEF CInv, ContextTypeOK, Versions, NoCall, CallRec, CallLabels, Judged, HasRow, Now

LEMMA EndKeeps ==
  ASSUME CInv, NEW p \in Calls, CallEnds(p), UNCHANGED images,
         entry' \in 0..Len(images), fills' \subseteq 1..Len(images)
  PROVE  CInv'
BY NoCallJudged, CallStep DEF CallEnds

LEMMA GotoKeeps ==
  ASSUME CInv, NEW p \in Calls, NEW label \in CallLabels, CallGoto(p, label), UNCHANGED images,
         Judged([ctx[p] EXCEPT !.at = label]),
         entry' \in 0..Len(images), fills' \subseteq 1..Len(images)
  PROVE  CInv'
<1>1. [ctx[p] EXCEPT !.at = label] \in CallRec
  BY CallFacts DEF CallRec
<1>2. ctx' = [ctx EXCEPT ![p] = [ctx[p] EXCEPT !.at = label]]
  BY DEF CallGoto
<1> QED  BY <1>1, <1>2, CallStep

LEMMA GotoEarly ==
  ASSUME CInv, NEW p \in Calls, NEW label \in {"miss", "hinted", "scan"}
  PROVE  label \in CallLabels /\ Judged([ctx[p] EXCEPT !.at = label])
BY CallFacts DEF CallRec, CallLabels, Judged, HasRow

LEMMA Types == CInv => entry \in 0..Len(images) /\ fills \subseteq 1..Len(images) /\ 0 \in 0..Len(images)
BY DEF CInv, ContextTypeOK, Versions

\* ReadHinted and Scan take the row as it is now.
LEMMA TakeRowKeeps ==
  ASSUME CInv, NEW p \in Calls, UNCHANGED <<images, entry, fills>>,
         ctx' = [ctx EXCEPT ![p].at = "check", ![p].row = Now]
  PROVE  CInv'
<1> DEFINE c == [ctx[p] EXCEPT !.at = "check", !.row = Now]
<1>1. c \in CallRec
  BY CallFacts DEF CallRec, CallLabels
<1>2. Judged(c)
  BY CallFacts DEF CallRec, Judged, HasRow, Versions
<1>3. ctx' = [ctx EXCEPT ![p] = c]
  OBVIOUS
<1> HIDE DEF c
<1> QED  BY <1>1, <1>2, <1>3, CallStep, Types

\* A new image of the row changes none of the earlier ones.
LEMMA ChangeKeeps ==
  ASSUME CInv, NEW image \in Images, Change(image)
  PROVE  CInv'
<1>1. /\ images \in Seq(Images) /\ Len(images) \in Nat
      /\ images' = Append(images, image) /\ UNCHANGED <<entry, fills, ctx>>
      /\ Len(images) < MaxVersions
  BY DEF CInv, ContextTypeOK, Change, Now
<1>2. /\ images' \in Seq(Images) /\ Len(images') = Len(images) + 1
      /\ \A i \in 1..Len(images) : images'[i] = images[i]
  BY <1>1
<1>3. ContextTypeOK'
  BY <1>1, <1>2, ContextAssumption DEF CInv, ContextTypeOK, Versions
<1>4. ASSUME NEW p \in Calls PROVE Judged(ctx[p])'
  <2>1. ctx'[p] = ctx[p] /\ ctx[p] \in CallRec /\ Judged(ctx[p]) /\ Now' = Now + 1 /\ Now \in Nat
    BY <1>1, <1>2, CallFacts DEF Now
  <2>2. ctx[p].row \in 1..Now => images'[ctx[p].row] = images[ctx[p].row]
    BY <1>2 DEF Now
  <2> QED  BY <2>1, <2>2 DEF Judged, CallRec, HasRow, Active
<1> QED  BY <1>3, <1>4 DEF CInv

LEMMA ContextNext == CInv /\ [NextContext]_contextVars => CInv'
<1> SUFFICES ASSUME CInv, [NextContext]_contextVars PROVE CInv'
  OBVIOUS
<1>1. ASSUME NEW v \in fills, ApplyFill(v) PROVE CInv'
  BY <1>1, Types DEF ApplyFill, CInv, ContextTypeOK, Judged, Now
<1>2. ASSUME Forget PROVE CInv'
  BY <1>2, Types DEF Forget, CInv, ContextTypeOK, Judged, Now
<1>3. ASSUME NEW p \in Calls, NEW pending \in BOOLEAN, Arrive(p, pending) PROVE CInv'
  <2> DEFINE c == [at |-> "cache", pending |-> pending, began |-> Now, row |-> 0]
  <2>1. Now \in Versions /\ Versions = 1..MaxVersions
    BY CallFacts DEF Versions
  <2>2. c \in CallRec
    BY <2>1, ContextAssumption DEF CallRec, CallLabels
  <2>3. Judged(c)
    BY <2>1 DEF Judged, HasRow
  <2> QED  BY <1>3, <2>2, <2>3, CallStep, Types DEF Arrive
<1>4. ASSUME NEW p \in Calls, ReadCache(p) PROVE CInv'
  BY <1>4, GotoEarly, GotoKeeps, Types DEF ReadCache
<1>5. ASSUME NEW p \in Calls, FillOnMiss(p) PROVE CInv'
  <2>1. fills' \subseteq 1..Len(images)
    BY <1>5, Types, CallFacts DEF FillOnMiss, Versions
  <2> QED  BY <1>5, <2>1, GotoEarly, GotoKeeps, Types DEF FillOnMiss
<1>6. ASSUME NEW p \in Calls, ReadHinted(p) PROVE CInv'
  BY <1>6, TakeRowKeeps, GotoEarly, GotoKeeps, Types DEF ReadHinted
<1>7. ASSUME NEW p \in Calls, Scan(p) PROVE CInv'
  BY <1>7, TakeRowKeeps, EndKeeps, Types DEF Scan
<1>8. ASSUME NEW p \in Calls, Admit(p) PROVE CInv'
  <2>1. ctx[p] \in CallRec /\ Judged(ctx[p]) /\ ctx[p].row \in 1..Len(images)
    BY <1>8, CallFacts DEF Admit, InCall, Judged, HasRow, Now
  <2>2. Judged([ctx[p] EXCEPT !.at = "guard"])
    BY <1>8, <2>1 DEF Admit, InCall, Judged, HasRow, CallRec
  <2> QED  BY <1>8, <2>1, <2>2, GotoKeeps, Types DEF Admit, CallLabels
<1>9. ASSUME NEW p \in Calls, TurnDown(p) PROVE CInv'
  BY <1>9, EndKeeps, Types DEF TurnDown
<1>10. ASSUME NEW p \in Calls, Guard(p) PROVE CInv'
  <2>1. CASE CallEnds(p)
    BY <1>10, <2>1, EndKeeps, Types DEF Guard
  <2>2. CASE ~CallEnds(p)
    <3>1. ~ctx[p].pending /\ Active(images[ctx[p].row]) /\ CallGoto(p, "run") /\ ctx[p].at = "guard"
      BY <1>10, <2>2 DEF Guard, InCall
    <3>2. Judged([ctx[p] EXCEPT !.at = "run"])
      BY <3>1, CallFacts DEF Judged, HasRow, CallRec
    <3> QED  BY <1>10, <3>1, <3>2, GotoKeeps, Types DEF Guard, CallLabels
  <2> QED  BY <2>1, <2>2
<1>11. ASSUME NEW p \in Calls, Return(p) PROVE CInv'
  BY <1>11, EndKeeps, Types DEF Return
<1>12. CASE UNCHANGED contextVars
  BY <1>12 DEF contextVars, CInv, ContextTypeOK, Judged, Now
<1> QED
  BY <1>1, <1>2, <1>3, <1>4, <1>5, <1>6, <1>7, <1>8, <1>9, <1>10, <1>11, <1>12, ChangeKeeps
  DEF NextContext

\* A resolver runs only for a caller who was active in an active workspace at
\* some time since the request came in (createContext, requireAuth), whatever
\* the cache holds.
THEOREM FreshRow == ContextSpec => [](ContextTypeOK /\ RunsOnFreshRow)
<1>1. CInv => ContextTypeOK /\ RunsOnFreshRow
  BY DEF CInv, Judged, HasRow, RunsOnFreshRow, InCall
<1> QED  BY <1>1, InitCInv, ContextNext, PTL DEF ContextSpec
-----------------------------------------------------------------------------
(***************************************************************************)
(* The second factor.  FReads is what a request relies on between its read *)
(* and its write; Known says that no code is used before it is made up.    *)
(* Fresh is the account of uses: a code in force, or among the backup      *)
(* codes left, has been used no more often than writes were lost, and any  *)
(* other at most once more.  A write over another's change may put a used  *)
(* code in force again, and is itself the loss that pays for it.           *)
(***************************************************************************)
LoginRec == [op : LoginOps, mfa : Mfa, otp : Otp, answer : Answers]

Proper(m) == m.method # "none" => m.secret \in Enrolments

Ready(x) ==
  /\ Proper(x.mfa) /\ (x.op = "confirm" => x.mfa.method # "none")
  /\ x.otp.code <= lastCode /\ x.mfa.codes \subseteq 1..enrolled
  /\ x.mfa.on => x.mfa.secret \in verified
  /\ x.op \in {"enrolEmail", "enrolApp"} => ~x.mfa.on
  /\ x.op = "verify" => x.mfa.on
  /\ x.op = "verify" /\ x.mfa.method = "EMAIL" => x.otp.attempts < MaxAttempts

FReads == \A p \in Logins : Ready(login[p])

Known ==
  /\ otp.code <= lastCode /\ mfa.codes \subseteq 1..enrolled
  /\ \A c \in Codes : c > lastCode => spent[<<"otp", c>>] = 0 /\ wrong[c] = 0
  /\ \A c \in Enrolments : c > enrolled => spent[<<"backup", c>>] = 0

\* The uses and the wrong answers a code is past already.
Used(c) == IF c = otp.code THEN 0 ELSE 1
Guessed(c) == IF c = otp.code THEN otp.attempts ELSE MaxAttempts
UsedBackup(c) == IF c \in mfa.codes THEN 0 ELSE 1
Extra == MaxAttempts * lost

Fresh ==
  /\ \A c \in Codes : spent[<<"otp", c>>] <= lost + Used(c) /\ wrong[c] <= Extra + Guessed(c)
  /\ \A c \in Enrolments : spent[<<"backup", c>>] <= lost + UsedBackup(c)

FInv ==
  FactorTypeOK /\ Proper(mfa) /\ EnabledIsVerified /\ FReads /\ Known /\ (lost < MaxLost => Fresh)

LEMMA OffTypes == Off \in Mfa /\ NoOtp \in Otp
BY SecondFactorAssumption DEF Off, NoOtp, Mfa, Otp, Methods

LEMMA NoLoginRec == NoLogin \in LoginRec
BY SecondFactorAssumption
   DEF NoLogin, LoginRec, LoginOps, Off, NoOtp, Mfa, Otp, Answers, Methods

\* Every lost write is worth MaxAttempts more wrong answers.
LEMMA Times ==
  /\ MaxAttempts * MaxLost + 1 \in Nat
  /\ \A n \in Nat : MaxAttempts * n \in Nat /\ MaxAttempts * (n + 1) = MaxAttempts * n + MaxAttempts
BY SecondFactorAssumption

LEMMA MoreFacts ==
  ASSUME NEW limit \in Nat, NEW n \in 0..limit
  PROVE  More(n, limit) \in 0..limit /\ More(n, limit) <= n + 1
BY DEF More

LEMMA FTypes ==
  ASSUME FInv
  PROVE  /\ mfa \in Mfa /\ otp \in Otp /\ login \in [Logins -> LoginRec]
         /\ lastCode \in 0..MaxCodes /\ enrolled \in 0..MaxEnrolled
         /\ lastCode \in Nat /\ enrolled \in Nat /\ lost \in 0..MaxLost
         /\ verified \subseteq Enrolments
         /\ spent \in [SingleUse -> 0..MaxLost + 1]
         /\ wrong \in [Codes -> 0..MaxAttempts * MaxLost + 1]
BY SecondFactorAssumption DEF FInv, FactorTypeOK, LoginRec

LEMMA CodeFacts ==
  /\ Codes \subseteq Nat /\ 0 \notin Codes /\ Enrolments \subseteq Nat
  /\ \A c \in Codes : <<"otp", c>> \in SingleUse
  /\ \A c \in Enrolments : <<"backup", c>> \in SingleUse
BY SecondFactorAssumption DEF Codes, Enrolments, SingleUse

\* The histories count in naturals.
LEMMA Counts ==
  ASSUME FInv
  PROVE  /\ \A c \in SingleUse : spent[c] \in Nat
         /\ \A c \in Codes : wrong[c] \in Nat /\ Used(c) \in 0..1 /\ Guessed(c) \in 0..MaxAttempts
         /\ \A c \in Enrolments : UsedBackup(c) \in 0..1
         /\ lost \in Nat /\ Extra \in Nat
<1>1. lost \in Nat /\ Extra \in Nat
  BY FTypes, Times, SecondFactorAssumption DEF Extra
<1>2. \A c \in SingleUse : spent[c] \in Nat
  BY FTypes, SecondFactorAssumption
<1>3. \A c \in Codes : wrong[c] \in Nat
  <2>1. 0..MaxAttempts * MaxLost + 1 \subseteq Nat  BY Times
  <2> QED  BY <2>1, FTypes
<1> QED  BY <1>1, <1>2, <1>3, FTypes, SecondFactorAssumption DEF Used, Guessed, UsedBackup, Otp

LEMMA InitFInv == InitFactor => FInv
<1> SUFFICES ASSUME InitFactor PROVE FInv
  OBVIOUS
<1>1. /\ mfa = Off /\ otp = NoOtp /\ lastCode = 0 /\ enrolled = 0 /\ verified = {} /\ lost = 0
      /\ \A p \in Logins : login[p] = NoLogin
      /\ login \in [Logins -> LoginRec]
  BY NoLoginRec DEF InitFactor
<1>2. spent \in [SingleUse -> 0..MaxLost + 1] /\ wrong \in [Codes -> 0..MaxAttempts * MaxLost + 1]
  <2>1. 0 \in 0..MaxLost + 1 /\ 0 \in 0..MaxAttempts * MaxLost + 1
    BY Times, SecondFactorAssumption
  <2> QED  BY <2>1 DEF InitFactor
<1>3. FactorTypeOK
  <2>1. mfa \in Mfa /\ otp \in Otp /\ verified \in SUBSET Enrolments
    BY <1>1, OffTypes
  <2>2. lastCode \in 0..MaxCodes /\ enrolled \in 0..MaxEnrolled /\ lost \in 0..MaxLost
    BY <1>1, SecondFactorAssumption
  <2> QED  BY <1>1, <1>2, <2>1, <2>2 DEF FactorTypeOK, LoginRec
<1>4. FReads
  <2>1. Ready(NoLogin)
    BY <1>1 DEF Ready, Proper, NoLogin, Off, NoOtp
  <2> QED  BY <1>1, <2>1 DEF FReads
<1>5. EnabledIsVerified /\ Proper(mfa)
  BY <1>1 DEF EnabledIsVerified, Proper, Off
<1>6. (\A c \in SingleUse : spent[c] = 0) /\ \A c \in Codes : wrong[c] = 0
  BY DEF InitFactor
<1>7. Known
  BY <1>1, <1>6, CodeFacts DEF Known, Off, NoOtp
<1>8. Fresh
  <2>1. Extra \in Nat /\ NoOtp \in Otp
    BY <1>1, Times, OffTypes DEF Extra
  <2>2. \A c \in Codes : Used(c) \in Nat /\ Guessed(c) \in Nat
    BY <1>1, <2>1, SecondFactorAssumption DEF Used, Guessed, Otp
  <2>3. \A c \in Enrolments : UsedBackup(c) \in Nat
    BY DEF UsedBackup
  <2> QED  BY <1>1, <1>6, <2>1, <2>2, <2>3, CodeFacts DEF Fresh
<1> QED  BY <1>3, <1>4, <1>5, <1>7, <1>8 DEF FInv

\* One request changes, to one that relies on what is true.
LEMMA LoginStep ==
  ASSUME FInv, NEW p \in Logins, NEW x \in LoginRec, login' = [login EXCEPT ![p] = x],
         verified \subseteq verified', Ready(x)',
         lastCode' \in Nat, lastCode <= lastCode', enrolled' \in Nat, enrolled <= enrolled'
  PROVE  login' \in [Logins -> LoginRec] /\ FReads'
<1>1. login' \in [Logins -> LoginRec]
  BY FTypes
<1>2. \A q \in Logins : login'[q] = IF q = p THEN x ELSE login[q]
  BY FTypes
<1>3. ASSUME NEW q \in Logins PROVE Ready(login[q])'
  <2>1. CASE q = p  BY <1>2, <2>1 DEF Ready, Proper
  <2>2. CASE q # p
    <3>1. Ready(login[q]) /\ login'[q] = login[q]
      BY <1>2, <2>2 DEF FInv, FReads
    <3>2. login[q].otp.code \in Nat
      BY FTypes, SecondFactorAssumption DEF LoginRec, Otp
    <3>3. login[q].otp.code <= lastCode' /\ login[q].mfa.codes \subseteq 1..enrolled'
      BY <3>1, <3>2, FTypes DEF Ready
    <3> QED  BY <3>1, <3>3 DEF Ready, Proper
  <2> QED  BY <2>1, <2>2
<1> QED  BY <1>1, <1>3 DEF FReads

LEMMA EndLoginStep ==
  ASSUME FInv, NEW p \in Logins, EndLogin(p), verified \subseteq verified',
         lastCode' \in Nat, lastCode <= lastCode', enrolled' \in Nat, enrolled <= enrolled'
  PROVE  login' \in [Logins -> LoginRec] /\ FReads'
<1>1. Ready(NoLogin)'
  BY DEF Ready, Proper, NoLogin, Off, NoOtp
<1> QED  BY <1>1, NoLoginRec, LoginStep DEF EndLogin

\* A read stores the row in the request.
LEMMA ReadKeeps ==
  ASSUME FInv, NEW p \in Logins, NEW op \in LoginOps, NEW answer \in Answers,
         ReadRow(p, op, answer),
         UNCHANGED <<mfa, otp, lastCode, enrolled, verified, spent, wrong, lost>>,
         op \in {"enrolEmail", "enrolApp"} => ~mfa.on,
         op = "confirm" => mfa.method # "none",
         op = "verify" => mfa.on,
         op = "verify" /\ mfa.method = "EMAIL" => otp.attempts < MaxAttempts
  PROVE  FInv'
<1> DEFINE x == [op |-> op, mfa |-> mfa, otp |-> otp, answer |-> answer]
<1>1. x \in LoginRec
  BY FTypes DEF LoginRec
<1>2. Ready(x)'
  BY DEF Ready, Proper, FInv, EnabledIsVerified, Known
<1>3. login' \in [Logins -> LoginRec] /\ FReads'
  <2>1. lastCode' \in Nat /\ lastCode <= lastCode' /\ enrolled' \in Nat /\ enrolled <= enrolled'
    BY FTypes
  <2>2. login' = [login EXCEPT ![p] = x]
    BY DEF ReadRow
  <2>3. ASSUME NEW y \in LoginRec, y = x, Ready(y)' PROVE login' \in [Logins -> LoginRec] /\ FReads'
    BY <2>1, <2>2, <2>3, LoginStep
  <2> QED  BY <1>1, <1>2, <2>3
<1>4. FactorTypeOK' /\ EnabledIsVerified' /\ Proper(mfa)'
  BY <1>3 DEF FInv, FactorTypeOK, LoginRec, EnabledIsVerified, Proper
<1>5. Known' /\ (lost < MaxLost => Fresh)'
  BY DEF FInv, Known, Fresh, Used, Guessed, UsedBackup, Extra
<1> QED  BY <1>3, <1>4, <1>5 DEF FInv

\* What the two histories record, and what a request that notes a loss may rely on.
LEMMA SpendFacts ==
  ASSUME FInv, NEW c \in SingleUse, Spend(c)
  PROVE  /\ spent' \in [SingleUse -> 0..MaxLost + 1]
         /\ spent'[c] <= spent[c] + 1
         /\ \A d \in SingleUse \ {c} : spent'[d] = spent[d]
<1>1. MaxLost + 1 \in Nat /\ spent[c] \in 0..MaxLost + 1
  BY FTypes, SecondFactorAssumption
<1> QED  BY <1>1, FTypes, MoreFacts DEF Spend

LEMMA MisjudgeFacts ==
  ASSUME FInv, NEW c \in Codes, Misjudge(c)
  PROVE  /\ wrong' \in [Codes -> 0..MaxAttempts * MaxLost + 1]
         /\ wrong'[c] <= wrong[c] + 1
         /\ \A d \in Codes \ {c} : wrong'[d] = wrong[d]
<1> DEFINE limit == MaxAttempts * MaxLost + 1
<1>1. limit \in Nat /\ wrong \in [Codes -> 0..limit] /\ wrong' = [wrong EXCEPT ![c] = More(@, limit)]
  BY FTypes, Times DEF Misjudge
<1> HIDE DEF limit
<1>2. wrong' \in [Codes -> 0..limit] /\ wrong'[c] <= wrong[c] + 1
      /\ \A d \in Codes \ {c} : wrong'[d] = wrong[d]
  BY <1>1, MoreFacts
<1> QED  BY <1>2 DEF limit

LEMMA LostFacts ==
  ASSUME FInv, NEW p \in Logins, NoteLost(p)
  PROVE  /\ lost' \in 0..MaxLost
         /\ lost' < MaxLost =>
              /\ lost < MaxLost /\ Fresh
              /\ \/ ~Changed(p) /\ lost' = lost /\ Extra' = Extra
                 \/ lost' = lost + 1 /\ Extra' = Extra + MaxAttempts
<1>1. lost \in 0..MaxLost /\ MaxLost \in Nat
  BY FTypes, SecondFactorAssumption
<1>2. MaxAttempts * (lost + 1) = MaxAttempts * lost + MaxAttempts
  BY <1>1, Times
<1> QED  BY <1>1, <1>2 DEF NoteLost, More, FInv, Extra

\* No write is lost: a code is put in force only unused.
LEMMA Kept ==
  ASSUME FInv, Fresh, lost' = lost, Extra' = Extra, otp' \in Otp,
         \A c \in SingleUse : spent'[c] \in Nat, \A c \in Codes : wrong'[c] \in Nat,
         \A c \in Codes :
           /\ spent'[<<"otp", c>>] = 0 \/ spent'[<<"otp", c>>] + Used(c) <= spent[<<"otp", c>>] + Used(c)'
           /\ wrong'[c] = 0 \/ wrong'[c] + Guessed(c) <= wrong[c] + Guessed(c)',
         \A c \in Enrolments :
           \/ spent'[<<"backup", c>>] = 0
           \/ spent'[<<"backup", c>>] + UsedBackup(c) <= spent[<<"backup", c>>] + UsedBackup(c)'
  PROVE  Fresh'
<1>1. /\ \A c \in Codes : Used(c)' \in 0..1 /\ Guessed(c)' \in 0..MaxAttempts
      /\ \A c \in Enrolments : UsedBackup(c)' \in 0..1
  BY SecondFactorAssumption DEF Used, Guessed, UsedBackup, Otp
<1>2. ASSUME NEW c \in Codes
      PROVE  spent'[<<"otp", c>>] <= lost' + Used(c)' /\ wrong'[c] <= Extra' + Guessed(c)'
  <2>1. spent[<<"otp", c>>] <= lost + Used(c) /\ wrong[c] <= Extra + Guessed(c)
    BY DEF Fresh
  <2> QED  BY <1>1, <2>1, Counts, CodeFacts, SecondFactorAssumption
<1>3. ASSUME NEW c \in Enrolments
      PROVE  spent'[<<"backup", c>>] <= lost' + UsedBackup(c)'
  <2>1. spent[<<"backup", c>>] <= lost + UsedBackup(c)
    BY DEF Fresh
  <2> QED  BY <1>1, <2>1, Counts, CodeFacts
<1> QED  BY <1>2, <1>3 DEF Fresh

\* A write is lost: what it puts in force may have been used.
LEMMA Paid ==
  ASSUME FInv, Fresh, lost' = lost + 1, Extra' = Extra + MaxAttempts, otp' \in Otp,
         \A c \in SingleUse : spent'[c] \in Nat, \A c \in Codes : wrong'[c] \in Nat,
         \A c \in Codes :
           /\ spent'[<<"otp", c>>] <= spent[<<"otp", c>>] + Used(c)'
           /\ wrong'[c] <= wrong[c] + Guessed(c)',
         \A c \in Enrolments : spent'[<<"backup", c>>] <= spent[<<"backup", c>>] + UsedBackup(c)'
  PROVE  Fresh'
<1>1. /\ \A c \in Codes : Used(c)' \in 0..1 /\ Guessed(c)' \in 0..MaxAttempts
      /\ \A c \in Enrolments : UsedBackup(c)' \in 0..1
  BY SecondFactorAssumption DEF Used, Guessed, UsedBackup, Otp
<1>2. ASSUME NEW c \in Codes
      PROVE  spent'[<<"otp", c>>] <= lost' + Used(c)' /\ wrong'[c] <= Extra' + Guessed(c)'
  <2>1. spent[<<"otp", c>>] <= lost + Used(c) /\ wrong[c] <= Extra + Guessed(c)
    BY DEF Fresh
  <2> QED  BY <1>1, <2>1, Counts, CodeFacts, SecondFactorAssumption
<1>3. ASSUME NEW c \in Enrolments
      PROVE  spent'[<<"backup", c>>] <= lost' + UsedBackup(c)'
  <2>1. spent[<<"backup", c>>] <= lost + UsedBackup(c)
    BY DEF Fresh
  <2> QED  BY <1>1, <2>1, Counts, CodeFacts
<1> QED  BY <1>2, <1>3 DEF Fresh

\* A step that ends a request: its writes have to be shown right.
LEMMA EndStep ==
  ASSUME FInv, NEW p \in Logins, EndLogin(p),
         mfa' \in Mfa, otp' \in Otp,
         lastCode' \in 0..MaxCodes, lastCode <= lastCode',
         enrolled' \in 0..MaxEnrolled, enrolled <= enrolled',
         verified' \subseteq Enrolments, verified \subseteq verified',
         spent' \in [SingleUse -> 0..MaxLost + 1],
         wrong' \in [Codes -> 0..MaxAttempts * MaxLost + 1], lost' \in 0..MaxLost,
         mfa'.on => mfa'.secret \in verified', Proper(mfa'),
         Known', lost' < MaxLost => Fresh'
  PROVE  FInv'
<1>1. login' \in [Logins -> LoginRec] /\ FReads'
  <2>1. lastCode' \in Nat /\ enrolled' \in Nat  BY SecondFactorAssumption
  <2> QED  BY <2>1, EndLoginStep
<1>2. FactorTypeOK' /\ EnabledIsVerified' /\ Proper(mfa)'
  BY <1>1 DEF FactorTypeOK, EnabledIsVerified, LoginRec, Proper
<1> QED  BY <1>1, <1>2 DEF FInv

\* What an enrolment, a mailed code or a removal does to the codes: those in
\* force become others that nobody has used.
LEMMA Replaced ==
  ASSUME FInv, otp' \in Otp, UNCHANGED <<spent, wrong>>,
         \A c \in Codes : c = otp'.code => (c = otp.code /\ otp' = otp) \/ c > lastCode,
         \A c \in Enrolments : c \in mfa'.codes => c \in mfa.codes \/ c > enrolled,
         (lost' = lost /\ Extra' = Extra) \/ (lost' = lost + 1 /\ Extra' = Extra + MaxAttempts),
         Fresh
  PROVE  Fresh'
<1>1. (\A c \in SingleUse : spent'[c] \in Nat) /\ \A c \in Codes : wrong'[c] \in Nat
  BY Counts
<1>2. ASSUME NEW c \in Codes
      PROVE  /\ \/ spent'[<<"otp", c>>] = 0 /\ wrong'[c] = 0
                \/ Used(c) <= Used(c)' /\ Guessed(c) <= Guessed(c)'
             /\ Used(c)' \in Nat /\ Guessed(c)' \in Nat
  <2>1. c > lastCode => spent'[<<"otp", c>>] = 0 /\ wrong'[c] = 0
    BY DEF FInv, Known
  <2>2. Used(c) \in 0..1 /\ Guessed(c) \in 0..MaxAttempts /\ otp.attempts \in 0..MaxAttempts
        /\ otp'.attempts \in 0..MaxAttempts
    BY Counts, FTypes DEF Otp
  <2> QED  BY <2>1, <2>2, SecondFactorAssumption DEF Used, Guessed
<1>3. ASSUME NEW c \in Enrolments
      PROVE  /\ spent'[<<"backup", c>>] = 0 \/ UsedBackup(c) <= UsedBackup(c)'
             /\ UsedBackup(c)' \in Nat
  BY DEF FInv, Known, UsedBackup
<1>4. CASE lost' = lost /\ Extra' = Extra
  <2>1. ASSUME NEW c \in Codes
        PROVE  /\ \/ spent'[<<"otp", c>>] = 0
                  \/ spent'[<<"otp", c>>] + Used(c) <= spent[<<"otp", c>>] + Used(c)'
               /\ wrong'[c] = 0 \/ wrong'[c] + Guessed(c) <= wrong[c] + Guessed(c)'
    BY <1>2, Counts, CodeFacts, SecondFactorAssumption
  <2>2. ASSUME NEW c \in Enrolments
        PROVE  \/ spent'[<<"backup", c>>] = 0
               \/ spent'[<<"backup", c>>] + UsedBackup(c) <= spent[<<"backup", c>>] + UsedBackup(c)'
    BY <1>3, Counts, CodeFacts
  <2> QED  BY <1>1, <1>4, <2>1, <2>2, Kept
<1>5. CASE lost' = lost + 1 /\ Extra' = Extra + MaxAttempts
  <2>1. ASSUME NEW c \in Codes
        PROVE  /\ spent'[<<"otp", c>>] <= spent[<<"otp", c>>] + Used(c)'
               /\ wrong'[c] <= wrong[c] + Guessed(c)'
    BY <1>2, Counts, CodeFacts
  <2>2. ASSUME NEW c \in Enrolments
        PROVE  spent'[<<"backup", c>>] <= spent[<<"backup", c>>] + UsedBackup(c)'
    BY <1>3, Counts, CodeFacts
  <2> QED  BY <1>1, <1>5, <2>1, <2>2, Paid
<1> QED  BY <1>4, <1>5

LEMMA EnrolEmailKeeps ==
  ASSUME FInv, NEW p \in Logins, EnrolEmail(p)
  PROVE  FInv'
<1>1. /\ mfa' = [on |-> FALSE, method |-> "EMAIL", secret |-> enrolled + 1, codes |-> {}]
      /\ otp' = [code |-> lastCode + 1, attempts |-> 0]
      /\ enrolled' = enrolled + 1 /\ lastCode' = lastCode + 1
      /\ enrolled < MaxEnrolled /\ lastCode < MaxCodes
      /\ EndLogin(p) /\ NoteLost(p) /\ UNCHANGED <<verified, spent, wrong>>
  BY DEF EnrolEmail
<1>2. mfa' \in Mfa /\ otp' \in Otp /\ enrolled' \in 0..MaxEnrolled /\ lastCode' \in 0..MaxCodes
      /\ Proper(mfa') /\ lastCode <= lastCode' /\ enrolled <= enrolled'
  BY <1>1, FTypes, SecondFactorAssumption DEF Mfa, Otp, Methods, Proper, Enrolments
<1>3. Known'
  BY <1>1, FTypes, CodeFacts DEF FInv, Known
<1>4. lost' < MaxLost => Fresh'
  <2>1. \A c \in Codes : c = otp'.code => c > lastCode
    BY <1>1, FTypes
  <2>2. \A c \in Enrolments : c \in mfa'.codes => c \in mfa.codes \/ c > enrolled
    BY <1>1
  <2>3. UNCHANGED <<spent, wrong>>
    BY <1>1
  <2>4. lost' < MaxLost =>
          Fresh /\ ((lost' = lost /\ Extra' = Extra) \/ (lost' = lost + 1 /\ Extra' = Extra + MaxAttempts))
    BY <1>1, LostFacts
  <2> QED  BY <1>2, <2>1, <2>2, <2>3, <2>4, Replaced
<1> QED  BY <1>1, <1>2, <1>3, <1>4, FTypes, LostFacts, EndStep

LEMMA EnrolAuthenticatorKeeps ==
  ASSUME FInv, NEW p \in Logins, EnrolAuthenticator(p)
  PROVE  FInv'
<1>1. /\ mfa' = [on |-> FALSE, method |-> "AUTHENTICATOR", secret |-> enrolled + 1, codes |-> {enrolled + 1}]
      /\ enrolled' = enrolled + 1 /\ enrolled < MaxEnrolled
      /\ EndLogin(p) /\ NoteLost(p) /\ UNCHANGED <<otp, lastCode, verified, spent, wrong>>
  BY DEF EnrolAuthenticator
<1>2. mfa' \in Mfa /\ enrolled' \in 0..MaxEnrolled /\ Proper(mfa') /\ enrolled <= enrolled'
      /\ lastCode <= lastCode'
  BY <1>1, FTypes, SecondFactorAssumption DEF Mfa, Methods, Enrolments, Proper
<1>3. Known'
  BY <1>1, FTypes, CodeFacts DEF FInv, Known
<1>4. lost' < MaxLost => Fresh'
  <2>1. \A c \in Enrolments : c \in mfa'.codes => c \in mfa.codes \/ c > enrolled
    BY <1>1, FTypes
  <2>2. otp' = otp /\ UNCHANGED <<spent, wrong>>
    BY <1>1
  <2>3. \A c \in Codes : c = otp'.code => (c = otp.code /\ otp' = otp) \/ c > lastCode
    BY <2>2
  <2>4. lost' < MaxLost =>
          Fresh /\ ((lost' = lost /\ Extra' = Extra) \/ (lost' = lost + 1 /\ Extra' = Extra + MaxAttempts))
    BY <1>1, LostFacts
  <2>5. otp' \in Otp
    BY <2>2, FTypes
  <2> QED  BY <2>1, <2>2, <2>3, <2>4, <2>5, Replaced
<1> QED  BY <1>1, <1>2, <1>3, <1>4, FTypes, LostFacts, EndStep

LEMMA EnableKeeps ==
  ASSUME FInv, NEW p \in Logins, Enable(p)
  PROVE  FInv'
<1>1. /\ mfa' = [login[p].mfa EXCEPT !.on = TRUE]
      /\ otp' = (IF login[p].mfa.method = "EMAIL" THEN NoOtp ELSE otp)
      /\ verified' = verified \cup {login[p].mfa.secret}
      /\ EndLogin(p) /\ NoteLost(p) /\ UNCHANGED <<lastCode, enrolled, spent, wrong>>
  BY DEF Enable
<1>2. login[p].mfa \in Mfa /\ login[p].mfa.secret \in Enrolments
      /\ login[p].mfa.codes \subseteq 1..enrolled
  BY FTypes DEF LoginRec, Enable, FInv, FReads, Ready, Proper
<1>3. mfa' \in Mfa /\ otp' \in Otp /\ mfa'.on = TRUE /\ mfa'.secret = login[p].mfa.secret
      /\ mfa'.codes = login[p].mfa.codes /\ (otp' = otp \/ otp'.code = 0)
  BY <1>1, <1>2, FTypes, OffTypes DEF Mfa, NoOtp
<1>4. Known'
  BY <1>1, <1>2, <1>3, FTypes DEF FInv, Known
<1>5. ASSUME lost' < MaxLost PROVE Fresh'
  <2>1. \A c \in Codes : c = otp'.code => (c = otp.code /\ otp' = otp) \/ c > lastCode
    BY <1>3, CodeFacts
  <2>2. CASE ~Changed(p) /\ lost' = lost /\ Extra' = Extra
    <3>1. \A c \in Enrolments : c \in mfa'.codes => c \in mfa.codes \/ c > enrolled
      BY <1>3, <2>2 DEF Changed
    <3>2. Fresh /\ UNCHANGED <<spent, wrong>>
      BY <1>1, <1>5, LostFacts
    <3> QED  BY <1>3, <2>1, <2>2, <3>1, <3>2, Replaced
  <2>3. CASE lost' = lost + 1 /\ Extra' = Extra + MaxAttempts
    <3>1. ASSUME NEW c \in Codes PROVE Used(c)' \in Nat /\ Guessed(c)' \in Nat
      BY <1>3, SecondFactorAssumption DEF Used, Guessed, Otp
    <3>2. \A c \in Enrolments : UsedBackup(c)' \in Nat
      BY DEF UsedBackup
    <3>3. /\ \A c \in SingleUse : spent'[c] \in Nat /\ spent'[c] = spent[c]
          /\ \A c \in Codes : wrong'[c] \in Nat /\ wrong'[c] = wrong[c]
      BY <1>1, Counts
    <3>4. ASSUME NEW c \in Codes
          PROVE  /\ spent'[<<"otp", c>>] <= spent[<<"otp", c>>] + Used(c)'
                 /\ wrong'[c] <= wrong[c] + Guessed(c)'
      BY <3>1, <3>3, CodeFacts
    <3>5. ASSUME NEW c \in Enrolments
          PROVE  spent'[<<"backup", c>>] <= spent[<<"backup", c>>] + UsedBackup(c)'
      BY <3>2, <3>3, CodeFacts
    <3> QED  BY <1>1, <1>3, <1>5, <2>3, <3>3, <3>4, <3>5, LostFacts, Paid
  <2> QED  BY <1>1, <1>5, <2>2, <2>3, LostFacts
<1>6. /\ verified' \subseteq Enrolments /\ verified \subseteq verified' /\ mfa'.secret \in verified'
      /\ Proper(mfa') /\ lastCode <= lastCode' /\ enrolled <= enrolled'
  BY <1>1, <1>2, <1>3, FTypes DEF Proper
<1> QED  BY <1>1, <1>3, <1>4, <1>5, <1>6, FTypes, LostFacts, EndStep

\* A request that ends with nothing written: RefuseConfirm and AnswerElse.
LEMMA IdleKeeps ==
  ASSUME FInv, NEW p \in Logins, EndLogin(p),
         UNCHANGED <<mfa, otp, lastCode, enrolled, verified, spent, wrong, lost>>
  PROVE  FInv'
<1>1. Known' /\ (lost' < MaxLost => Fresh')
  BY DEF FInv, Known, Fresh, Used, Guessed, UsedBackup, Extra
<1>2. Proper(mfa') /\ (mfa'.on => mfa'.secret \in verified') /\ lastCode <= lastCode' /\ enrolled <= enrolled'
  BY FTypes DEF FInv, Proper, EnabledIsVerified
<1> QED  BY <1>1, <1>2, FTypes, EndStep

LEMMA DisableKeeps ==
  ASSUME FInv, Disable
  PROVE  FInv'
<1>1. mfa' = Off /\ otp' = NoOtp /\ UNCHANGED <<lastCode, enrolled, login, verified, spent, wrong, lost>>
  BY DEF Disable
<1>2. FactorTypeOK' /\ EnabledIsVerified' /\ Proper(mfa)' /\ FReads'
  BY <1>1, OffTypes DEF FInv, FactorTypeOK, EnabledIsVerified, Proper, Off, FReads, Ready
<1>3. Known'
  BY <1>1, FTypes DEF FInv, Known, Off, NoOtp
<1>4. Fresh => Fresh'
  <2>1. \A c \in Codes : c = otp'.code => (c = otp.code /\ otp' = otp) \/ c > lastCode
    BY <1>1, CodeFacts DEF NoOtp
  <2>2. otp' \in Otp /\ lost' = lost /\ Extra' = Extra /\ UNCHANGED <<spent, wrong>>
    BY <1>1, OffTypes DEF Extra
  <2>3. \A c \in Enrolments : c \in mfa'.codes => c \in mfa.codes \/ c > enrolled
    BY <1>1 DEF Off
  <2> QED  BY <2>1, <2>2, <2>3, Replaced
<1> QED  BY <1>1, <1>2, <1>3, <1>4 DEF FInv

LEMMA SendCodeKeeps ==
  ASSUME FInv, NEW p \in Logins, SendCode(p)
  PROVE  FInv'
<1>1. /\ otp' = [code |-> lastCode + 1, attempts |-> 0] /\ lastCode' = lastCode + 1
      /\ lastCode < MaxCodes /\ EndLogin(p)
      /\ UNCHANGED <<mfa, enrolled, verified, spent, wrong, lost>>
  BY DEF SendCode
<1>2. otp' \in Otp /\ lastCode' \in 0..MaxCodes /\ lastCode <= lastCode' /\ enrolled <= enrolled'
  BY <1>1, FTypes, SecondFactorAssumption DEF Otp
<1>3. Known'
  BY <1>1, FTypes, CodeFacts DEF FInv, Known
<1>4. lost' < MaxLost => Fresh'
  <2>1. \A c \in Codes : c = otp'.code => c > lastCode
    BY <1>1, FTypes
  <2>2. lost' = lost /\ Extra' = Extra /\ UNCHANGED <<mfa, spent, wrong>> /\ (lost < MaxLost => Fresh)
    BY <1>1 DEF Extra, FInv
  <2>3. \A c \in Enrolments : c \in mfa'.codes => c \in mfa.codes \/ c > enrolled
    BY <2>2
  <2> QED  BY <1>2, <2>1, <2>2, <2>3, Replaced
<1>5. Proper(mfa') /\ (mfa'.on => mfa'.secret \in verified')
  BY <1>1 DEF FInv, Proper, EnabledIsVerified
<1> QED  BY <1>1, <1>2, <1>3, <1>4, <1>5, FTypes, EndStep

LEMMA AcceptCodeKeeps ==
  ASSUME FInv, NEW p \in Logins, AcceptCode(p)
  PROVE  FInv'
<1> DEFINE c == login[p].otp.code
<1>1. /\ otp' = NoOtp /\ Spend(<<"otp", c>>) /\ c # 0
      /\ EndLogin(p) /\ NoteLost(p) /\ UNCHANGED <<mfa, lastCode, enrolled, verified, wrong>>
  BY DEF AcceptCode, EmailAnswered, IsRightCode
<1>2. c \in Codes /\ c <= lastCode
  BY <1>1, FTypes, SecondFactorAssumption DEF LoginRec, Otp, Codes, FInv, FReads, Ready
<1>3. <<"otp", c>> \in SingleUse /\ (~Changed(p) => c = otp.code)
  BY <1>2 DEF SingleUse, Changed
<1> HIDE DEF c
<1>4. /\ spent' \in [SingleUse -> 0..MaxLost + 1]
      /\ spent'[<<"otp", c>>] <= spent[<<"otp", c>>] + 1
      /\ \A d \in SingleUse \ {<<"otp", c>>} : spent'[d] = spent[d]
  BY <1>1, <1>3, SpendFacts
<1>5. /\ \A d \in Codes : d # c => spent'[<<"otp", d>>] = spent[<<"otp", d>>]
      /\ \A e \in Enrolments : spent'[<<"backup", e>>] = spent[<<"backup", e>>]
  <2>1. \A d \in Codes : d # c => <<"otp", d>> \in SingleUse \ {<<"otp", c>>}
    BY DEF SingleUse
  <2>2. \A e \in Enrolments : <<"backup", e>> \in SingleUse \ {<<"otp", c>>}
    BY DEF SingleUse
  <2> QED  BY <1>4, <2>1, <2>2
<1>6. Known'
  BY <1>1, <1>2, <1>5, FTypes, CodeFacts DEF FInv, Known, NoOtp
<1>7. ASSUME lost' < MaxLost PROVE Fresh'
  <2>1. otp' \in Otp /\ \A d \in Codes : Used(d)' = 1 /\ Guessed(d)' = MaxAttempts
    BY <1>1, OffTypes, CodeFacts DEF Used, Guessed, NoOtp
  <2>2. (\A d \in SingleUse : spent'[d] \in Nat) /\ \A d \in Codes : wrong'[d] \in Nat /\ wrong'[d] = wrong[d]
    BY <1>1, <1>4, Counts, SecondFactorAssumption
  <2>3. \A e \in Enrolments : UsedBackup(e)' = UsedBackup(e) /\ UsedBackup(e) \in 0..1
    BY <1>1, Counts DEF UsedBackup
  <2>4. CASE ~Changed(p) /\ lost' = lost /\ Extra' = Extra
    <3>1. ASSUME NEW d \in Codes
          PROVE  /\ spent'[<<"otp", d>>] + Used(d) <= spent[<<"otp", d>>] + Used(d)'
                 /\ wrong'[d] + Guessed(d) <= wrong[d] + Guessed(d)'
      <4>1. d = c => Used(d) = 0
        BY <1>3, <2>4 DEF Used
      <4> QED  BY <1>4, <1>5, <2>1, <2>2, <4>1, Counts, CodeFacts, SecondFactorAssumption
    <3>2. ASSUME NEW e \in Enrolments
          PROVE  spent'[<<"backup", e>>] + UsedBackup(e) <= spent[<<"backup", e>>] + UsedBackup(e)'
      BY <1>5, <2>3, Counts, CodeFacts
    <3> QED  BY <1>1, <1>7, <2>1, <2>2, <2>4, <3>1, <3>2, LostFacts, Kept
  <2>5. CASE lost' = lost + 1 /\ Extra' = Extra + MaxAttempts
    <3>1. ASSUME NEW d \in Codes
          PROVE  /\ spent'[<<"otp", d>>] <= spent[<<"otp", d>>] + Used(d)'
                 /\ wrong'[d] <= wrong[d] + Guessed(d)'
      BY <1>4, <1>5, <2>1, <2>2, Counts, CodeFacts, SecondFactorAssumption
    <3>2. ASSUME NEW e \in Enrolments
          PROVE  spent'[<<"backup", e>>] <= spent[<<"backup", e>>] + UsedBackup(e)'
      BY <1>5, <2>3, Counts, CodeFacts
    <3> QED  BY <1>1, <1>7, <2>1, <2>2, <2>5, <3>1, <3>2, LostFacts, Paid
  <2> QED  BY <1>1, <1>7, <2>4, <2>5, LostFacts
<1>8. Proper(mfa') /\ (mfa'.on => mfa'.secret \in verified') /\ lastCode <= lastCode' /\ enrolled <= enrolled'
  BY <1>1, FTypes DEF FInv, Proper, EnabledIsVerified
<1> QED  BY <1>1, <1>4, <1>6, <1>7, <1>8, FTypes, OffTypes, LostFacts, EndStep

LEMMA RejectCodeKeeps ==
  ASSUME FInv, NEW p \in Logins, RejectCode(p)
  PROVE  FInv'
<1> DEFINE c == login[p].otp.code
<1>1. /\ otp' = [login[p].otp EXCEPT !.attempts = @ + 1] /\ Misjudge(c)
      /\ EndLogin(p) /\ NoteLost(p) /\ UNCHANGED <<mfa, lastCode, enrolled, verified, spent>>
  BY DEF RejectCode
<1>2. login[p] \in LoginRec /\ login[p].otp \in Otp /\ login[p].otp.attempts < MaxAttempts /\ c # 0
      /\ c <= lastCode
  BY FTypes DEF RejectCode, EmailAnswered, FInv, FReads, Ready, LoginRec
<1>3. c \in Codes
  BY <1>2, SecondFactorAssumption DEF Otp, Codes
<1>4. /\ otp' \in Otp /\ otp'.code = c /\ otp'.attempts = login[p].otp.attempts + 1
      /\ otp'.attempts \in Nat /\ login[p].otp.attempts \in Nat
  BY <1>1, <1>2, SecondFactorAssumption DEF Otp
<1>5. ~Changed(p) => c = otp.code /\ otp.attempts = login[p].otp.attempts
  BY DEF Changed
<1> HIDE DEF c
<1>6. /\ wrong' \in [Codes -> 0..MaxAttempts * MaxLost + 1] /\ wrong'[c] <= wrong[c] + 1
      /\ \A d \in Codes \ {c} : wrong'[d] = wrong[d]
  BY <1>1, <1>3, MisjudgeFacts
<1>7. Known'
  BY <1>1, <1>2, <1>3, <1>4, <1>6, FTypes, CodeFacts DEF FInv, Known
<1>8. ASSUME lost' < MaxLost PROVE Fresh'
  <2>1. \A d \in SingleUse : spent'[d] \in Nat /\ spent'[d] = spent[d]
    BY <1>1, Counts
  <2>2. \A d \in Codes : wrong'[d] \in Nat /\ wrong[d] \in Nat
    <3>1. 0..MaxAttempts * MaxLost + 1 \subseteq Nat  BY Times
    <3> QED  BY <1>6, <3>1, Counts
  <2>3. \A e \in Enrolments : UsedBackup(e)' = UsedBackup(e) /\ UsedBackup(e) \in 0..1
    BY <1>1, Counts DEF UsedBackup
  <2>4. \A d \in Codes : /\ Used(d)' = (IF d = c THEN 0 ELSE 1)
                         /\ Guessed(d)' = (IF d = c THEN otp'.attempts ELSE MaxAttempts)
    BY <1>4 DEF Used, Guessed
  <2>5. CASE ~Changed(p) /\ lost' = lost /\ Extra' = Extra
    <3>1. ASSUME NEW d \in Codes
          PROVE  /\ spent'[<<"otp", d>>] + Used(d) <= spent[<<"otp", d>>] + Used(d)'
                 /\ wrong'[d] + Guessed(d) <= wrong[d] + Guessed(d)'
      <4>1. /\ Used(d) = (IF d = c THEN 0 ELSE 1)
            /\ Guessed(d) = (IF d = c THEN login[p].otp.attempts ELSE MaxAttempts)
        BY <1>5, <2>5 DEF Used, Guessed
      <4> QED  BY <1>4, <1>6, <2>1, <2>2, <2>4, <4>1, CodeFacts, SecondFactorAssumption
    <3>2. ASSUME NEW e \in Enrolments
          PROVE  spent'[<<"backup", e>>] + UsedBackup(e) <= spent[<<"backup", e>>] + UsedBackup(e)'
      BY <2>1, <2>3, CodeFacts
    <3> QED  BY <1>1, <1>4, <1>8, <2>1, <2>2, <2>5, <3>1, <3>2, LostFacts, Kept
  <2>6. CASE lost' = lost + 1 /\ Extra' = Extra + MaxAttempts
    <3>1. ASSUME NEW d \in Codes
          PROVE  /\ spent'[<<"otp", d>>] <= spent[<<"otp", d>>] + Used(d)'
                 /\ wrong'[d] <= wrong[d] + Guessed(d)'
      BY <1>4, <1>6, <2>1, <2>2, <2>4, CodeFacts, SecondFactorAssumption
    <3>2. ASSUME NEW e \in Enrolments
          PROVE  spent'[<<"backup", e>>] <= spent[<<"backup", e>>] + UsedBackup(e)'
      BY <2>1, <2>3, CodeFacts
    <3> QED  BY <1>1, <1>4, <1>8, <2>1, <2>2, <2>6, <3>1, <3>2, LostFacts, Paid
  <2> QED  BY <1>1, <1>8, <2>5, <2>6, LostFacts
<1>9. Proper(mfa') /\ (mfa'.on => mfa'.secret \in verified') /\ lastCode <= lastCode' /\ enrolled <= enrolled'
  BY <1>1, FTypes DEF FInv, Proper, EnabledIsVerified
<1> QED  BY <1>1, <1>4, <1>6, <1>7, <1>8, <1>9, FTypes, LostFacts, EndStep

LEMMA AcceptBackupKeeps ==
  ASSUME FInv, NEW p \in Logins, AcceptBackup(p)
  PROVE  FInv'
<1> DEFINE c == login[p].answer[2]
<1>1. /\ login[p] \in LoginRec /\ login[p].mfa \in Mfa /\ login[p].mfa.codes \subseteq 1..enrolled
      /\ login[p].mfa.on /\ Proper(login[p].mfa) /\ login[p].mfa.secret \in verified
  BY FTypes DEF AcceptBackup, FInv, FReads, Ready, LoginRec
<1>2. /\ login[p].answer = <<"backup", c>> /\ c \in login[p].mfa.codes /\ c \in Enrolments
  BY <1>1 DEF AcceptBackup, Mfa
<1>3. /\ mfa' = [login[p].mfa EXCEPT !.codes = @ \ {c}]
      /\ Spend(<<"backup", c>>)
      /\ EndLogin(p) /\ NoteLost(p) /\ UNCHANGED <<otp, lastCode, enrolled, verified, wrong>>
  BY <1>2 DEF AcceptBackup
<1>4. <<"backup", c>> \in SingleUse /\ c <= enrolled
  BY <1>1, <1>2, FTypes DEF SingleUse
<1> HIDE DEF c
<1>5. /\ spent' \in [SingleUse -> 0..MaxLost + 1]
      /\ spent'[<<"backup", c>>] <= spent[<<"backup", c>>] + 1
      /\ \A d \in SingleUse \ {<<"backup", c>>} : spent'[d] = spent[d]
  BY <1>3, <1>4, SpendFacts
<1>6. mfa' \in Mfa /\ Proper(mfa') /\ mfa'.secret \in verified' /\ mfa'.codes = login[p].mfa.codes \ {c}
  BY <1>1, <1>3 DEF Mfa, Proper
<1>7. /\ \A d \in Enrolments : d # c => spent'[<<"backup", d>>] = spent[<<"backup", d>>]
      /\ \A d \in Codes : spent'[<<"otp", d>>] = spent[<<"otp", d>>]
  <2>1. \A d \in Enrolments : d # c => <<"backup", d>> \in SingleUse \ {<<"backup", c>>}
    BY DEF SingleUse
  <2>2. \A d \in Codes : <<"otp", d>> \in SingleUse \ {<<"backup", c>>}
    BY DEF SingleUse
  <2> QED  BY <1>5, <2>1, <2>2
<1>8. Known'
  BY <1>1, <1>2, <1>3, <1>4, <1>6, <1>7, FTypes, CodeFacts DEF FInv, Known
<1>9. ASSUME lost' < MaxLost PROVE Fresh'
  <2>1. otp' \in Otp /\ \A d \in Codes : /\ Used(d)' = Used(d) /\ Guessed(d)' = Guessed(d)
                                         /\ Used(d) \in Nat /\ Guessed(d) \in Nat
    BY <1>3, FTypes, Counts, SecondFactorAssumption DEF Used, Guessed
  <2>2. (\A d \in SingleUse : spent'[d] \in Nat) /\ \A d \in Codes : wrong'[d] \in Nat /\ wrong'[d] = wrong[d]
    BY <1>3, <1>5, Counts, SecondFactorAssumption
  <2>3. \A d \in Enrolments : UsedBackup(d)' = (IF d \in login[p].mfa.codes \ {c} THEN 0 ELSE 1)
    BY <1>6 DEF UsedBackup
  <2>4. ASSUME NEW d \in Codes
        PROVE  /\ spent'[<<"otp", d>>] + Used(d) <= spent[<<"otp", d>>] + Used(d)'
               /\ wrong'[d] + Guessed(d) <= wrong[d] + Guessed(d)'
               /\ spent'[<<"otp", d>>] <= spent[<<"otp", d>>] + Used(d)'
               /\ wrong'[d] <= wrong[d] + Guessed(d)'
    BY <1>7, <2>1, <2>2, Counts, CodeFacts
  <2>5. CASE ~Changed(p) /\ lost' = lost /\ Extra' = Extra
    <3>1. ASSUME NEW d \in Enrolments
          PROVE  spent'[<<"backup", d>>] + UsedBackup(d) <= spent[<<"backup", d>>] + UsedBackup(d)'
      <4>1. UsedBackup(d) = IF d \in login[p].mfa.codes THEN 0 ELSE 1
        BY <2>5 DEF UsedBackup, Changed
      <4> QED  BY <1>2, <1>5, <1>7, <2>2, <2>3, <4>1, Counts, CodeFacts
    <3> QED  BY <1>3, <1>9, <2>1, <2>2, <2>4, <2>5, <3>1, LostFacts, Kept
  <2>6. CASE lost' = lost + 1 /\ Extra' = Extra + MaxAttempts
    <3>1. ASSUME NEW d \in Enrolments
          PROVE  spent'[<<"backup", d>>] <= spent[<<"backup", d>>] + UsedBackup(d)'
      BY <1>5, <1>7, <2>2, <2>3, Counts, CodeFacts
    <3> QED  BY <1>3, <1>9, <2>1, <2>2, <2>4, <2>6, <3>1, LostFacts, Paid
  <2> QED  BY <1>3, <1>9, <2>5, <2>6, LostFacts
<1>10. lastCode <= lastCode' /\ enrolled <= enrolled'
  BY <1>3, FTypes
<1> QED  BY <1>3, <1>5, <1>6, <1>8, <1>9, <1>10, FTypes, LostFacts, EndStep

LEMMA FactorNext == FInv /\ [NextFactor]_factorVars => FInv'
<1> SUFFICES ASSUME FInv, [NextFactor]_factorVars PROVE FInv'
  OBVIOUS
<1>1. ASSUME NEW p \in Logins, NEW op \in {"enrolEmail", "enrolApp"}, ReadToEnrol(p, op) PROVE FInv'
  <2>1. op \in LoginOps /\ <<"other", 0>> \in Answers  BY DEF LoginOps, Answers
  <2> QED  BY <1>1, <2>1, ReadKeeps DEF ReadToEnrol
<1>2. ASSUME NEW p \in Logins, ReadToConfirm(p) PROVE FInv'
  <2>1. "confirm" \in LoginOps /\ <<"other", 0>> \in Answers  BY DEF LoginOps, Answers
  <2> QED  BY <1>2, <2>1, ReadKeeps DEF ReadToConfirm
<1>3. ASSUME NEW p \in Logins, ReadToChallenge(p) PROVE FInv'
  <2>1. "challenge" \in LoginOps /\ <<"other", 0>> \in Answers  BY DEF LoginOps, Answers
  <2> QED  BY <1>3, <2>1, ReadKeeps DEF ReadToChallenge
<1>4. ASSUME NEW p \in Logins, NEW answer \in Answers, ReadToVerify(p, answer) PROVE FInv'
  <2>1. "verify" \in LoginOps  BY DEF LoginOps
  <2> QED  BY <1>4, <2>1, ReadKeeps DEF ReadToVerify
<1>5. ASSUME NEW p \in Logins, RefuseConfirm(p) \/ AnswerElse(p) PROVE FInv'
  BY <1>5, IdleKeeps DEF RefuseConfirm, AnswerElse
<1>6. CASE UNCHANGED factorVars
  BY <1>6 DEF factorVars, FInv, FactorTypeOK, Proper, EnabledIsVerified, FReads, Ready,
              Known, Fresh, Used, Guessed, UsedBackup, Extra
<1> QED
  BY <1>1, <1>2, <1>3, <1>4, <1>5, <1>6, EnrolEmailKeeps, EnrolAuthenticatorKeeps, EnableKeeps, DisableKeeps,
     SendCodeKeeps, AcceptCodeKeeps, RejectCodeKeeps, AcceptBackupKeeps
  DEF NextFactor

LEMMA FactorInvariant == FactorSpec => []FInv
BY InitFInv, FactorNext, PTL DEF FactorSpec

\* Settings are enabled only with a secret that its user has proved to hold,
\* whatever is overwritten (confirm2faEnrollment).
THEOREM Verified == FactorSpec => [](FactorTypeOK /\ EnabledIsVerified)
<1>1. FInv => FactorTypeOK /\ EnabledIsVerified  BY DEF FInv
<1> QED  BY <1>1, FactorInvariant, PTL

\* A one-time or backup code is accepted once, and once more for every write
\* that overlapping requests lose (verify2FA).
THEOREM OnceOnly == FactorSpec => []SpentOnce
<1>1. ASSUME FInv PROVE SpentOnce
  <2>1. SUFFICES ASSUME lost < MaxLost, NEW c \in SingleUse PROVE spent[c] <= 1 + lost
    BY DEF SpentOnce
  <2>2. Fresh  BY <1>1, <2>1 DEF FInv
  <2>3. CASE \E d \in Codes : c = <<"otp", d>>
    BY <1>1, <2>2, <2>3, Counts DEF Fresh
  <2>4. CASE \E d \in Enrolments : c = <<"backup", d>>
    BY <1>1, <2>2, <2>4, Counts DEF Fresh
  <2> QED  BY <2>3, <2>4 DEF SingleUse
<1> QED  BY <1>1, FactorInvariant, PTL

\* At sign-in a mailed code judges MaxAttempts wrong answers, and as many again
\* for every lost write (verify2FA).
THEOREM Bounded == FactorSpec => []GuessesBounded
<1>1. ASSUME FInv PROVE GuessesBounded
  <2>1. SUFFICES ASSUME lost < MaxLost, NEW c \in Codes PROVE wrong[c] <= MaxAttempts * (1 + lost)
    BY DEF GuessesBounded
  <2>2. wrong[c] <= Extra + Guessed(c)
    BY <1>1, <2>1 DEF FInv, Fresh
  <2>3. MaxAttempts * (1 + lost) = Extra + MaxAttempts
    <3>1. 1 + lost = lost + 1  BY <1>1, Counts
    <3> QED  BY <1>1, <3>1, Counts, Times DEF Extra
  <2>4. Guessed(c) \in 0..MaxAttempts /\ wrong[c] \in Nat /\ Extra \in Nat
    BY <1>1, Counts
  <2> QED  BY <2>2, <2>3, <2>4, SecondFactorAssumption
<1> QED  BY <1>1, FactorInvariant, PTL

\* An enabled second factor goes off by disable2fa only, or in the step that
\* loses a write (init2faEnrollment).
THEOREM StaysOn == FactorSpec => OffByPasswordOnly
<1>1. FInv /\ [NextFactor]_factorVars =>
        [mfa.on /\ ~mfa'.on => Disable \/ lost' # lost \/ lost = MaxLost]_factorVars
  <2> SUFFICES ASSUME FInv, NextFactor, mfa.on, ~mfa'.on, ~Disable, lost # MaxLost
               PROVE  lost' # lost
    OBVIOUS
  <2>1. PICK p \in Logins : EnrolEmail(p) \/ EnrolAuthenticator(p) \/ Enable(p) \/ AcceptBackup(p)
    BY DEF NextFactor, ReadToEnrol, ReadToConfirm, ReadToChallenge, ReadToVerify, SendCode, AcceptCode,
           RejectCode, RefuseConfirm, AnswerElse
  <2>2. login[p] \in LoginRec /\ login[p].mfa \in Mfa /\ Ready(login[p])
    BY FTypes DEF FInv, FReads, LoginRec
  <2>3. CASE EnrolEmail(p) \/ EnrolAuthenticator(p)
    <3>1. Changed(p) /\ NoteLost(p)
      BY <2>2, <2>3 DEF EnrolEmail, EnrolAuthenticator, Ready, Changed
    <3>2. lost < MaxLost /\ lost \in Nat
      BY FTypes, SecondFactorAssumption
    <3> QED  BY <3>1, <3>2 DEF NoteLost, More
  <2>4. CASE Enable(p)
    BY <2>2, <2>4 DEF Enable, Mfa
  <2>5. CASE AcceptBackup(p)
    <3>1. login[p].mfa.on /\ mfa' = [login[p].mfa EXCEPT !.codes = @ \ {login[p].answer[2]}]
      BY <2>2, <2>5 DEF AcceptBackup, Ready
    <3> QED  BY <2>2, <3>1 DEF Mfa
  <2> QED  BY <2>1, <2>3, <2>4, <2>5
<1> QED  BY <1>1, FactorInvariant, PTL DEF FactorSpec, OffByPasswordOnly
-----------------------------------------------------------------------------
(***************************************************************************)
(* The composition.  A step of one part leaves the variables of the others *)
(* alone, so every behaviour of the whole is one of each part.             *)
(***************************************************************************)
LEMMA AccountImplementsParts == AccountSpec => Spec /\ FactorSpec /\ ContextSpec /\ GrantsSpec
<1>1. AccountInit => Init /\ InitFactor /\ InitContext /\ InitGrants
  BY DEF AccountInit
<1>2. [AccountNext]_<<part, vars, factorVars, contextVars, grantVars>> =>
        /\ [Next]_vars /\ [NextFactor]_factorVars
        /\ [NextContext]_contextVars /\ [NextGrants]_grantVars
  BY DEF AccountNext
<1> QED  BY <1>1, <1>2, PTL DEF AccountSpec, Spec, FactorSpec, ContextSpec, GrantsSpec

\* AccountTypeOK: owners, second factors, request contexts and grants keep their
\* types, side by side.
THEOREM AccountTyping == AccountSpec => []AccountTypeOK
<1>1. TypeOK /\ FactorTypeOK /\ ContextTypeOK /\ GrantsTypeOK => AccountTypeOK
  BY DEF AccountTypeOK
<1> QED
  BY <1>1, AccountImplementsParts, OwnershipTyping, Verified, FreshRow, GrantsTyping, PTL

\* What the run account checks on a small instance holds of the composition for
\* all users, requests, codes, versions, roles and permissions: no step of one
\* part breaks what another promises.
THEOREM AccountHolds ==
  AccountSpec =>
    /\ [](OneOwner /\ EnabledIsVerified /\ SpentOnce /\ GuessesBounded /\ RunsOnFreshRow
          /\ PermissionsHaveSource)
    /\ OnlyOwnerHandsOver /\ OffByPasswordOnly /\ AdminFromOwner
<1> QED
  BY AccountImplementsParts, SingleOwner, HandOver, Verified, OnceOnly, Bounded, StaysOn,
     FreshRow, HaveSource, AdminSource, PTL
=============================================================================
