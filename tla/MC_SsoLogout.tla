---------------------------- MODULE MC_SsoLogout ----------------------------
(***************************************************************************)
(* A model-checking instance of SsoLogout.  Calls and sessions are         *)
(* numbers, and are taken in their order: they are interchangeable.        *)
(***************************************************************************)
EXTENDS SsoLogout, FiniteSets

InOrder == /\ \A h \in Call \ {1} : call[h].pc # "idle" => call[h - 1].pc # "idle"
           /\ \A s \in Session \ {1} : owner[s] # NoPerson => owner[s - 1] # NoPerson

\* The bound: four calls.  A tick of the clock and a notice each stand for a
\* call, and a fault for two; the worker and its faults are not bounded.
Begun  == {h \in Call : call[h].pc # "idle"}
Wrong  == {h \in Call : call[h].pc \in {"unindex", "failed", "stopped"} \/ ~call[h].clean}
Sent   == {n \in Notice : Accounted(n)}
Load   == Cardinality(Begun) + 2 * Cardinality(Wrong) + Cardinality(Sent) + now - 1
Within == (InOrder /\ Load <= 4)'
=============================================================================
