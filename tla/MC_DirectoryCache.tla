-------------------------- MODULE MC_DirectoryCache --------------------------
(***************************************************************************)
(* Model-checking instances of DirectoryCache.                             *)
(***************************************************************************)
EXTENDS DirectoryCache, TLC

CONSTANTS
  Changing,     \* bound: what changes at all
  MaxChanges    \* bound of the exploration: changes of the directory

Symmetry == Permutations(Call)

\* Members and tables share nothing but the clock: a behaviour is about the
\* ones or the others.
NoTables  == /\ \A t \in Table : tables[t] = None /\ version[t] = 0
             /\ \A h \in Call : call[h].ids \cap Table = {}
NoMembers == /\ \A m \in Member : members[m] = None /\ negatives[m] = 0 /\ version[m] = 0
             /\ \A h \in Call : call[h].ids \cap Member = {}

\* Only what changes is asked for alone, and invalidated; the rest comes along
\* in its batches.
Along == /\ \A h \in Call : call'[h].ids \cap Member # {} => call'[h].ids \cap Changing # {}
         /\ \A m \in Member \ Changing : members[m] # None => members'[m] # None

Within == /\ Along
          /\ (NoTables \/ NoMembers)'
          /\ \A x \in Thing : version'[x] <= IF x \in Changing THEN MaxChanges ELSE 0
=============================================================================
