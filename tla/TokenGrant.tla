----------------------------- MODULE TokenGrant -----------------------------
(***************************************************************************)
(* What refresh-token rotation promises, without requests, processes,      *)
(* clocks or statements.  A grant is named by the first refresh token      *)
(* issued under it.  At any moment a grant has at most one current token;  *)
(* a rotation replaces it by a token that never existed before; a          *)
(* revocation closes a set of grants; a closed grant never opens again and *)
(* a token that was replaced never becomes current again.                  *)
(***************************************************************************)
CONSTANTS Token,     \* every refresh token that can ever be issued
          NoToken    \* a closed, or not yet opened, grant has this token

VARIABLES issued,    \* the tokens that exist
          current    \* the token of each grant that is still good

grantVars == <<issued, current>>

GrantTypeOK == /\ issued \subseteq Token
               /\ current \in [Token -> Token \cup {NoToken}]

GrantInit == /\ issued = {}
             /\ current = [g \in Token |-> NoToken]

\* A login opens a grant.
Open(t) == /\ t \notin issued
           /\ issued' = issued \cup {t}
           /\ current' = [current EXCEPT ![t] = t]

\* A rotation moves the grant to a token never seen before.
Rotate(g, t) == /\ current[g] # NoToken
                /\ t \notin issued
                /\ issued' = issued \cup {t}
                /\ current' = [current EXCEPT ![g] = t]

\* A logout, a reuse verdict or an explicit revocation closes grants.
Close(G) == /\ current' = [g \in Token |-> IF g \in G THEN NoToken ELSE current[g]]
            /\ UNCHANGED issued

GrantNext == \/ \E t \in Token : Open(t)
             \/ \E g, t \in Token : Rotate(g, t)
             \/ \E G \in SUBSET Token : Close(G)

GrantSpec == GrantInit /\ [][GrantNext]_grantVars
=============================================================================
