---------------------------- MODULE MC_JwksCache ----------------------------
(***************************************************************************)
(* A model-checking instance of JwksCache.  Calls are numbers, and are     *)
(* taken in their order: they are interchangeable.                         *)
(***************************************************************************)
EXTENDS JwksCache

InOrder == \A h \in Call \ {1} : task[h].pc # "idle" => task[h - 1].pc # "idle"

\* The bound: five events, where a call, a restart, a tick of the clock and the
\* publication or the retirement of a key each count for one.
Begun   == Cardinality({h \in Call : task[h].pc # "idle"})
Retired == Cardinality({k \in Kid : retired[k] # 0})
Rotated == Cardinality(published \ FirstKids) + Retired
             + Cardinality({k \in Kid \ FirstKids : retired[k] # 0})
Load    == Begun + restarts + Rotated + now - 1
Within  == (InOrder /\ Load <= 4)'
=============================================================================
