--------------------------- MODULE LoginSessions ---------------------------
(***************************************************************************)
(* What rotating refresh tokens promise: a login is served by one token at *)
(* a time.  A login opens with a token, moves from token to token, and once *)
(* it has ended it never comes back.  No token serves twice.               *)
(***************************************************************************)
EXTENDS Naturals

CONSTANT MaxTokens     \* bound on the refresh tokens ever issued

VARIABLES current,     \* the token that serves a login, or NoToken
          begun,       \* the logins that have been opened
          spent        \* the tokens that have served

vars == <<current, begun, spent>>

Tokens  == 1 .. MaxTokens
NoToken == 0

\* A login is named after the token that opens it.
Init == /\ current = [l \in Tokens |-> NoToken]
        /\ begun = {}
        /\ spent = {}

Open(l) == /\ l \notin begun
           /\ l \notin spent
           /\ current' = [current EXCEPT ![l] = l]
           /\ begun' = begun \cup {l}
           /\ spent' = spent \cup {l}

Rotate(l, t) == /\ current[l] # NoToken
                /\ t \notin spent
                /\ current' = [current EXCEPT ![l] = t]
                /\ spent' = spent \cup {t}
                /\ UNCHANGED begun

End(l) == /\ current[l] # NoToken
          /\ current' = [current EXCEPT ![l] = NoToken]
          /\ UNCHANGED <<begun, spent>>

Next == \E l \in Tokens : Open(l) \/ End(l) \/ \E t \in Tokens : Rotate(l, t)

Spec == Init /\ [][Next]_vars
=============================================================================
