------------------------- MODULE MC_RefreshRotation -------------------------
(***************************************************************************)
(* Model-checking instances of RefreshRotation.                            *)
(***************************************************************************)
EXTENDS RefreshRotation, TLC

\* Tokens, requests and processes are interchangeable within their roles.
\* Only runs without temporal properties reduce by it.
Symmetry == Permutations(LoginToken) \cup Permutations(Token \ LoginToken)
            \cup Permutations(Request) \cup Permutations(Proc)

\* Bound of the runs with faults: one of a restart, a logout, a session
\* revocation and an RFC 7009 revocation happens in a behaviour.
Disturbances == restarts + Cardinality({l \in Logout : logout[l].pc # "idle"})
                         + Cardinality({v \in Revoker : revoker[v].pc # "idle"})
OneDisturbance == Disturbances' <= 1
=============================================================================
