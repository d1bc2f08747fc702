---------------------------- MODULE SecondFactor ----------------------------
(***************************************************************************)
(* The second factor of one account: User.mfaSettings and User.otp, and    *)
(* the requests that read both with the row and later write one of them    *)
(* back whole, with nothing between that notices another write.            *)
(*                                                                         *)
(* A read and the write it leads to are two steps.  One-time codes and     *)
(* enrolments are numbered as they are made up; an enrolment with an       *)
(* authenticator has one backup code, that of its number.                  *)
(***************************************************************************)
EXTENDS Naturals

CONSTANTS
  Logins,       \* requests about the account
  MaxAttempts,  \* MAX_OTP_ATTEMPTS
  MaxCodes,     \* bound: one-time codes made up
  MaxEnrolled,  \* bound: enrolments
  MaxLost       \* bound: lost writes followed

ASSUME SecondFactorAssumption ==
  MaxAttempts \in Nat /\ MaxCodes \in Nat /\ MaxEnrolled \in Nat /\ MaxLost \in Nat

VARIABLES
  mfa,       \* User.mfaSettings
  otp,       \* User.otp; code 0 if it is null
  lastCode,  \* the one-time codes made up so far
  enrolled,  \* the enrolments made up so far
  login,     \* the requests, each with what it has read
  verified,  \* history: the enrolments whose secret its user has proved to hold
  spent,     \* history: how often each code was accepted
  wrong,     \* history: the wrong answers each one-time code judged at sign-in
  lost       \* history: how often a request has written over a row changed since it read it

factorVars == <<mfa, otp, lastCode, enrolled, login, verified, spent, wrong, lost>>

Methods == {"none", "EMAIL", "AUTHENTICATOR"}
Codes == 1..MaxCodes
Enrolments == 1..MaxEnrolled

LoginOps == {"none", "enrolEmail", "enrolApp", "confirm", "challenge", "verify"}

\* secret: the enrolment, also with EMAIL, which stores none; codes: the backup codes left.
Mfa == [on : BOOLEAN, method : Methods, secret : 0..MaxEnrolled, codes : SUBSET Enrolments]
Otp == [code : 0..MaxCodes, attempts : 0..MaxAttempts]

\* What is typed in: a one-time code, a backup code, the code an
\* authenticator shows for a secret, or anything else.
Answers == ({"otp"} \X Codes) \cup ({"backup", "totp"} \X Enrolments) \cup {<<"other", 0>>}
SingleUse == ({"otp"} \X Codes) \cup ({"backup"} \X Enrolments)

Off == [on |-> FALSE, method |-> "none", secret |-> 0, codes |-> {}]
NoOtp == [code |-> 0, attempts |-> 0]
NoLogin == [op |-> "none", mfa |-> Off, otp |-> NoOtp, answer |-> <<"other", 0>>]

FactorTypeOK ==
  /\ mfa \in Mfa /\ otp \in Otp
  /\ lastCode \in 0..MaxCodes /\ enrolled \in 0..MaxEnrolled
  /\ login \in [Logins -> [op : LoginOps, mfa : Mfa, otp : Otp,
                           answer : Answers]]
  /\ verified \in SUBSET Enrolments
  /\ spent \in [SingleUse -> 0..MaxLost + 1] /\ wrong \in [Codes -> 0..MaxAttempts * MaxLost + 1]
  /\ lost \in 0..MaxLost

InitFactor ==
  /\ mfa = Off /\ otp = NoOtp
  /\ lastCode = 0 /\ enrolled = 0
  /\ login = [p \in Logins |-> NoLogin]
  /\ verified = {}
  /\ spent = [c \in SingleUse |-> 0] /\ wrong = [c \in Codes |-> 0]
  /\ lost = 0

\* Histories count no further than the properties look.
More(n, limit) == IF n < limit THEN n + 1 ELSE n
Spend(answer) == spent' = [spent EXCEPT ![answer] = More(@, MaxLost + 1)]
Misjudge(code) == wrong' = [wrong EXCEPT ![code] = More(@, MaxAttempts * MaxLost + 1)]

ReadRow(p, op, answer) ==
  /\ login[p] = NoLogin
  /\ login' = [login EXCEPT ![p] = [op |-> op, mfa |-> mfa, otp |-> otp, answer |-> answer]]

EndLogin(p) == login' = [login EXCEPT ![p] = NoLogin]

\* Whether the row is no more as p has read it.
Changed(p) == login[p].mfa # mfa \/ login[p].otp # otp
NoteLost(p) == lost' = IF Changed(p) THEN More(lost, MaxLost) ELSE lost

EmailAnswered(p) ==
  login[p].op = "verify" /\ login[p].mfa.method = "EMAIL" /\ login[p].otp.code # 0
IsRightCode(p) == login[p].answer = <<"otp", login[p].otp.code>>
-----------------------------------------------------------------------------
\* Faulty: a right code is not deleted.
AcceptCodeKept(p) ==
  /\ EmailAnswered(p) /\ IsRightCode(p)
  /\ Spend(login[p].answer)
  /\ EndLogin(p) /\ NoteLost(p)
  /\ UNCHANGED <<mfa, otp, lastCode, enrolled, verified, wrong>>

\* Faulty: a wrong answer is not counted.
RejectUncounted(p) ==
  /\ EmailAnswered(p) /\ ~IsRightCode(p)
  /\ Misjudge(login[p].otp.code)
  /\ EndLogin(p) /\ NoteLost(p)
  /\ UNCHANGED <<mfa, otp, lastCode, enrolled, verified, spent>>

\* Faulty: the settings are enabled as they are by now.
EnableWhatIsThere(p) ==
  /\ login[p].op = "confirm"
  /\ mfa' = [mfa EXCEPT !.on = TRUE]
  /\ otp' = IF login[p].mfa.method = "EMAIL" THEN NoOtp ELSE otp
  /\ verified' = verified \cup {login[p].mfa.secret}
  /\ EndLogin(p) /\ NoteLost(p)
  /\ UNCHANGED <<lastCode, enrolled, spent, wrong>>

\* Faulty: an enrolment begins whatever is enabled.
ReadToEnrolAnew(p, op) ==
  /\ ReadRow(p, op, <<"other", 0>>)
  /\ UNCHANGED <<mfa, otp, lastCode, enrolled, verified, spent, wrong, lost>>

\* Faulty: the settings are left with a method nobody knows.
DisableUnset ==
  /\ mfa' = [Off EXCEPT !.method = "NONE"]
  /\ otp' = NoOtp
  /\ UNCHANGED <<lastCode, enrolled, login, verified, spent, wrong, lost>>
-----------------------------------------------------------------------------
(***************************************************************************)
(* init2faEnrollment, which refuses settings that were enabled when the    *)
(* context was read                                                        *)
(***************************************************************************)
ReadToEnrol(p, op) ==
  /\ ~mfa.on
  /\ ReadRow(p, op, <<"other", 0>>)
  /\ UNCHANGED <<mfa, otp, lastCode, enrolled, verified, spent, wrong, lost>>

EnrolEmail(p) ==
  /\ login[p].op = "enrolEmail" /\ enrolled < MaxEnrolled /\ lastCode < MaxCodes
  /\ mfa' = [on |-> FALSE, method |-> "EMAIL", secret |-> enrolled + 1, codes |-> {}]
  /\ otp' = [code |-> lastCode + 1, attempts |-> 0]
  /\ enrolled' = enrolled + 1 /\ lastCode' = lastCode + 1
  /\ EndLogin(p) /\ NoteLost(p)
  /\ UNCHANGED <<verified, spent, wrong>>

EnrolAuthenticator(p) ==
  /\ login[p].op = "enrolApp" /\ enrolled < MaxEnrolled
  /\ mfa' = [on |-> FALSE, method |-> "AUTHENTICATOR", secret |-> enrolled + 1, codes |-> {enrolled + 1}]
  /\ enrolled' = enrolled + 1
  /\ EndLogin(p) /\ NoteLost(p)
  /\ UNCHANGED <<otp, lastCode, verified, spent, wrong>>

(***************************************************************************)
(* confirm2faEnrollment.  The right answer writes back the whole settings  *)
(* of the request's context; a wrong or late one is refused, and nothing   *)
(* counts it, so that a code judges any number of them here.               *)
(***************************************************************************)
ReadToConfirm(p) ==
  /\ mfa.method = "AUTHENTICATOR" \/ (mfa.method = "EMAIL" /\ otp.code # 0)
  /\ ReadRow(p, "confirm", <<"other", 0>>)
  /\ UNCHANGED <<mfa, otp, lastCode, enrolled, verified, spent, wrong, lost>>

Enable(p) ==
  /\ login[p].op = "confirm"
  /\ mfa' = [login[p].mfa EXCEPT !.on = TRUE]
  /\ otp' = IF login[p].mfa.method = "EMAIL" THEN NoOtp ELSE otp
  /\ verified' = verified \cup {login[p].mfa.secret}
  /\ EndLogin(p) /\ NoteLost(p)
  /\ UNCHANGED <<lastCode, enrolled, spent, wrong>>

RefuseConfirm(p) ==
  /\ login[p].op = "confirm"
  /\ EndLogin(p)
  /\ UNCHANGED <<mfa, otp, lastCode, enrolled, verified, spent, wrong, lost>>

\* disable2fa, with the right password.  It writes what it read nothing of.
Disable ==
  /\ mfa' = Off
  /\ otp' = NoOtp
  /\ UNCHANGED <<lastCode, enrolled, login, verified, spent, wrong, lost>>
-----------------------------------------------------------------------------
(***************************************************************************)
(* maybeStartMfaChallenge: a password login mails a new code               *)
(***************************************************************************)
ReadToChallenge(p) ==
  /\ mfa.on /\ mfa.method = "EMAIL"
  /\ ReadRow(p, "challenge", <<"other", 0>>)
  /\ UNCHANGED <<mfa, otp, lastCode, enrolled, verified, spent, wrong, lost>>

SendCode(p) ==
  /\ login[p].op = "challenge" /\ lastCode < MaxCodes
  /\ otp' = [code |-> lastCode + 1, attempts |-> 0]
  /\ lastCode' = lastCode + 1
  /\ EndLogin(p)
  /\ UNCHANGED <<mfa, enrolled, verified, spent, wrong, lost>>

(***************************************************************************)
(* verify2FA.  An expired code is judged like a wrong one.                 *)
(***************************************************************************)
ReadToVerify(p, answer) ==
  /\ mfa.on
  /\ mfa.method = "EMAIL" => otp.attempts < MaxAttempts
  /\ ReadRow(p, "verify", answer)
  /\ UNCHANGED <<mfa, otp, lastCode, enrolled, verified, spent, wrong, lost>>

AcceptCode(p) ==
  /\ EmailAnswered(p) /\ IsRightCode(p)
  /\ otp' = NoOtp
  /\ Spend(login[p].answer)
  /\ EndLogin(p) /\ NoteLost(p)
  /\ UNCHANGED <<mfa, lastCode, enrolled, verified, wrong>>

\* The code and the count are written back as they were read, one attempt on.
RejectCode(p) ==
  /\ EmailAnswered(p) /\ ~IsRightCode(p)
  /\ otp' = [login[p].otp EXCEPT !.attempts = @ + 1]
  /\ Misjudge(login[p].otp.code)
  /\ EndLogin(p) /\ NoteLost(p)
  /\ UNCHANGED <<mfa, lastCode, enrolled, verified, spent>>

\* The settings are written back as they were read, one code less.
AcceptBackup(p) ==
  /\ login[p].op = "verify" /\ login[p].mfa.method = "AUTHENTICATOR"
  /\ login[p].answer \in {"backup"} \X login[p].mfa.codes
  /\ mfa' = [login[p].mfa EXCEPT !.codes = @ \ {login[p].answer[2]}]
  /\ Spend(login[p].answer)
  /\ EndLogin(p) /\ NoteLost(p)
  /\ UNCHANGED <<otp, lastCode, enrolled, verified, wrong>>

\* The code of an authenticator, or an answer to which nothing was stored.
AnswerElse(p) ==
  /\ login[p].op = "verify" /\ ~EmailAnswered(p)
  /\ ~(login[p].mfa.method = "AUTHENTICATOR" /\ login[p].answer \in {"backup"} \X login[p].mfa.codes)
  /\ EndLogin(p)
  /\ UNCHANGED <<mfa, otp, lastCode, enrolled, verified, spent, wrong, lost>>
-----------------------------------------------------------------------------
NextFactor ==
  \/ Disable
  \/ \E p \in Logins :
       \/ \E op \in {"enrolEmail", "enrolApp"} : ReadToEnrol(p, op)
       \/ EnrolEmail(p) \/ EnrolAuthenticator(p)
       \/ ReadToConfirm(p) \/ Enable(p) \/ RefuseConfirm(p)
       \/ ReadToChallenge(p) \/ SendCode(p)
       \/ AcceptCode(p) \/ RejectCode(p) \/ AcceptBackup(p) \/ AnswerElse(p)
       \/ \E answer \in Answers : ReadToVerify(p, answer)

FactorSpec == InitFactor /\ [][NextFactor]_factorVars
-----------------------------------------------------------------------------
\* A one-time or backup code lets its user in once, through any sequence of
\* challenges, answers, enrolments and removals, and once more for every write
\* that was lost: overlapping requests write back what another has changed,
\* which nothing in the code prevents, but each brings back a code only once.
SpentOnce == lost < MaxLost => \A c \in SingleUse : spent[c] <= 1 + lost

\* At sign-in a mailed code judges at most MaxAttempts wrong answers, however
\* often its user asks for others between, and at most as many again for every
\* lost write.  confirm2faEnrollment, which counts nothing, is not included.
GuessesBounded == lost < MaxLost => \A c \in Codes : wrong[c] <= MaxAttempts * (1 + lost)

\* Settings are enabled only with a secret that the user has proved to hold,
\* whatever writes are lost: a confirmation that a newer enrolment overtakes
\* does not enable the secret of the newer one.
EnabledIsVerified == mfa.on => mfa.secret \in verified

\* An enabled second factor goes off only when its user gives the password, or
\* in the very step that loses a write, an enrolment read before it went on;
\* never by an answer, by a code or by what was lost before.
OffByPasswordOnly == [][mfa.on /\ ~mfa'.on => Disable \/ lost' # lost \/ lost = MaxLost]_factorVars
=============================================================================
