-------------------------- MODULE MC_RefreshClaims --------------------------
(***************************************************************************)
(* What a guide of the repository says of refresh tokens and the code does *)
(* not do; its run finds a counterexample.                                 *)
(***************************************************************************)
EXTENDS MC_RefreshRotation

\* docs/design/sso-oidc-concepts.md: an explicit /revoke takes a token to
\* Revoked.  A rotated row has lost its client id, so the UPDATE of
\* RevokeToken finds no row and the caller is told nothing.
ClientRevocationRevokes ==
  \A v \in Revoker : revoker[v].pc = "done" => ~Live(revoker[v].tok)
=============================================================================
