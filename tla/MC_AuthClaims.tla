--------------------------- MODULE MC_AuthClaims ---------------------------
(***************************************************************************)
(* What a comment of the repository says of logins and the code does not  *)
(* do; its run finds a counterexample.                                     *)
(***************************************************************************)
EXTENDS MC_AuthCode

\* auth.go, CompleteLogin: a login completes, and an SSO session exists, only
\* for a person whose password status is normal.  CompleteLogin binds the
\* person with the temporary password to the request and returns the tenants;
\* SelectTenant then completes the request without asking for the status.
CompletionNeedsNormalPassword ==
  \A r \in created \ hinted : (Present(r) /\ auth[r].done) => auth[r].subject \notin temporary
=============================================================================
