----------------------------- MODULE MCAccount -----------------------------
(***************************************************************************)
(* The four parts around a member's row, checked in one run.  Each models  *)
(* columns that the others leave alone, so a behaviour follows one of them.*)
(***************************************************************************)
EXTENDS Ownership, SecondFactor, RequestContext, AccessGrants, TLC

CONSTANTS u1, u2, u3, p1, p2, p3, a1, a2, c1, c2, role, manage, edit, g1

VARIABLE part

\* Requests of one part are alike, and members but for the founder, whom Init tells apart.
AccountSymmetry ==
  Permutations(Procs) \cup Permutations(Users \ {Founder}) \cup Permutations(Logins)

AccountInit ==
  /\ part \in {"owner", "factor", "context", "grants"}
  /\ Init /\ InitFactor /\ InitContext /\ InitGrants

AccountNext ==
  /\ UNCHANGED part
  /\ \/ part = "owner" /\ Next /\ UNCHANGED <<factorVars, contextVars, grantVars>>
     \/ part = "factor" /\ NextFactor /\ UNCHANGED <<vars, contextVars, grantVars>>
     \/ part = "context" /\ NextContext /\ UNCHANGED <<vars, factorVars, grantVars>>
     \/ part = "grants" /\ NextGrants /\ UNCHANGED <<vars, factorVars, contextVars>>

AccountSpec == AccountInit /\ [][AccountNext]_<<part, vars, factorVars, contextVars, grantVars>>
-----------------------------------------------------------------------------
\* The rows and requests of each part keep their types.
AccountTypeOK == TypeOK /\ FactorTypeOK /\ ContextTypeOK /\ GrantsTypeOK
=============================================================================
