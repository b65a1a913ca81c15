----------------------------- MODULE MC_SsoClaims -----------------------------
(***************************************************************************)
(* What the comments say of logouts, and the code does not do.             *)
(***************************************************************************)
EXTENDS MC_SsoLogout

\* storage.go:525-526 (H15): an end_session without an id token hint falls back to
\* the session of the cookie, so that the clients do receive their notices.
EndSessionNotifies ==
  \A l \in Call : call[l].pc = "out" /\ call[l].mode = "end_session" /\ Undisturbed(l) => Announced(l)
=============================================================================
