---------------------------- MODULE MC_AuthCode ----------------------------
(***************************************************************************)
(* Model-checking instances of AuthCode.                                   *)
(***************************************************************************)
EXTENDS AuthCode, TLC

CONSTANTS p1, p2, t1, t2, t3

\* Every person has one tenant.
OneTenant == [p \in Person |-> {t1}]
\* The first person has two tenants, the second registers and opens one.
Newcomer   == [p \in Person |-> IF p = p1 THEN {t1, t2} ELSE {}]

Symmetry == Permutations(Call) \cup Permutations(Code) \cup Permutations(Session)

\* Where codes and sessions are numbers they are taken in their order instead.
CallSymmetry == Permutations(Call)
InOrder == /\ \A c \in Code \ {1} : c \in issued => c - 1 \in issued
           /\ \A s \in Session \ {1} : owner[s] # NoPerson => owner[s - 1] # NoPerson

\* Bound: a behaviour is about the codes of one person, without sessions, or
\* about the password and the sessions of the other, without codes and hints,
\* while the clock stands.
OnlyFor(p) ==
  /\ \A h \in Call : call[h].who \in {p, NoPerson}
  /\ \A r \in Request : auth[r].subject \in {p, NoPerson}

Exchanges == /\ OnlyFor(p1) /\ temporary = Temporary
             /\ \A s \in Session : owner[s] = NoPerson
             /\ \A h \in Call : call[h].pc # "revoke"

Passwords == /\ OnlyFor(p2) /\ now = 1 /\ issued = {} /\ hinted = {}
             /\ \A r \in Request : auth[r].tenant = NoTenant \/ auth[r].done
             /\ \A h \in Call : call[h].pc # "save"

OneStory == (InOrder /\ (Exchanges \/ Passwords))'
=============================================================================
