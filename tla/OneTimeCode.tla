---------------------------- MODULE OneTimeCode ----------------------------
(***************************************************************************)
(* What an authorization code promises, without requests, logins, clocks   *)
(* or Redis: it is issued once, taken by at most one exchange, and only    *)
(* the exchange that took it can be granted tokens, once.  A code may also *)
(* be lost (it expires, or the exchange that took it fails); a lost code   *)
(* never comes back.                                                       *)
(***************************************************************************)
CONSTANTS Code,      \* every code that can ever be issued
          Call,      \* every call that can ever present one
          NoCall     \* a code nobody has taken has this holder

VARIABLES live,      \* the codes that can still be exchanged
          dead,      \* the codes that were issued and cannot be exchanged any more
          holder,    \* the call that took a code
          paid       \* the codes tokens were issued for

codeVars == <<live, dead, holder, paid>>

CodeInit == /\ live = {} /\ dead = {} /\ paid = {}
            /\ holder = [c \in Code |-> NoCall]

\* Codes appear that never existed, and codes expire.
Appear(c) == /\ c \notin live \cup dead
             /\ live' = live \cup {c}
             /\ UNCHANGED <<dead, holder, paid>>

Expire(C) == /\ C \subseteq live
             /\ live' = live \ C
             /\ dead' = dead \cup C
             /\ UNCHANGED <<holder, paid>>

Take(c, h) == /\ c \in live
              /\ live' = live \ {c}
              /\ dead' = dead \cup {c}
              /\ holder' = [holder EXCEPT ![c] = h]
              /\ UNCHANGED paid

Pay(c) == /\ holder[c] # NoCall
          /\ c \notin paid
          /\ paid' = paid \cup {c}
          /\ UNCHANGED <<live, dead, holder>>

CodeNext == \/ \E c \in Code : Appear(c) \/ Pay(c)
            \/ \E C \in SUBSET Code : Expire(C)
            \/ \E c \in Code, h \in Call : Take(c, h)

CodeSpec == CodeInit /\ [][CodeNext]_codeVars
=============================================================================
