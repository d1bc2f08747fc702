---------------------------- MODULE SessionBook ----------------------------
(***************************************************************************)
(* What refresh tokens promise: a login opens a session, a session has one *)
(* current token, a token is good for one refresh, and a session that was  *)
(* closed stays closed.  A session is named by its first token.            *)
(***************************************************************************)
CONSTANTS Tokens, NoToken

VARIABLES
  current,  \* the token that refreshes a session, NoToken when it is closed
  past      \* tokens that are or were current

bookVars == <<current, past>>

Init == current = [s \in Tokens |-> NoToken] /\ past = {}

Open(s) ==
  /\ s \notin past
  /\ current' = [current EXCEPT ![s] = s]
  /\ past' = past \cup {s}

Advance(s, t) ==
  /\ current[s] # NoToken
  /\ t \notin past
  /\ current' = [current EXCEPT ![s] = t]
  /\ past' = past \cup {t}

Close(closed) ==
  /\ current' = [s \in Tokens |-> IF s \in closed THEN NoToken ELSE current[s]]
  /\ UNCHANGED past

Next ==
  \/ \E s \in Tokens : Open(s) \/ \E t \in Tokens : Advance(s, t)
  \/ \E closed \in SUBSET Tokens : Close(closed)

Spec == Init /\ [][Next]_bookVars
=============================================================================
