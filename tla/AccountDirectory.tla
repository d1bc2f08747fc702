-------------------------- MODULE AccountDirectory --------------------------
(***************************************************************************)
(* What the identity protocol promises, without shards, rows or handlers:  *)
(* an email has at most one owner, an account opens only for the owner of  *)
(* its email, and the email is free again only when no account is left.    *)
(***************************************************************************)
CONSTANTS Emails, Users, NoUser

VARIABLES
  owner,    \* who holds the email
  account,  \* the account that exists under the email
  past      \* every id an account was ever opened for

dirVars == <<owner, account, past>>

Init ==
  /\ owner \in [Emails -> Users \cup {NoUser}]
  /\ account = [e \in Emails |-> NoUser]
  /\ past = {}

Claim(e, u) ==
  /\ owner[e] = NoUser
  /\ u \notin past
  /\ owner' = [owner EXCEPT ![e] = u]
  /\ UNCHANGED <<account, past>>

Open(e) ==
  /\ owner[e] # NoUser
  /\ owner[e] \notin past
  /\ account[e] = NoUser
  /\ account' = [account EXCEPT ![e] = owner[e]]
  /\ past' = past \cup {owner[e]}
  /\ UNCHANGED owner

Close(e) ==
  /\ account[e] # NoUser
  /\ account' = [account EXCEPT ![e] = NoUser]
  /\ UNCHANGED <<owner, past>>

Free(e) ==
  /\ owner[e] # NoUser
  /\ account[e] = NoUser
  /\ owner' = [owner EXCEPT ![e] = NoUser]
  /\ UNCHANGED <<account, past>>

Next ==
  \E e \in Emails :
    Open(e) \/ Close(e) \/ Free(e) \/ \E u \in Users : Claim(e, u)

Spec == Init /\ [][Next]_dirVars
=============================================================================
