--------------------------- MODULE MC_Departments ---------------------------
EXTENDS Departments, TLC

CONSTANTS root, a, b, x, y, u1, u2, u3, k1, k2

MCPath == root :> <<root>> @@ a :> <<root, a>> @@ b :> <<root, a, b>>
Row(d, u, t) == [dept |-> d, user |-> u, type |-> t]
MCMember == <<Row(a, u1, "primary"), Row(a, u1, "leader"), Row(b, u2, "primary")>>

\* Bound: a behaviour has requests about the tree, or about members, and
\* deletions in both.
OneArea == begun'["relate"] = 0 \/ begun'["create"] + begun'["move"] = 0

\* Bound: a behaviour ends once none of the properties says anything of it.
Telling ==
  \/ TreeKept /\ begun["relate"] = 0
  \/ Apart("relate", "relate") /\ "relate" \notin torn /\ begun["relate"] > 0

Bounded == OneArea /\ Telling'

\* The requests under way are interchangeable, and so are fresh departments.
Interchangeable == Permutations({k1, k2}) \cup Permutations({x, y})
=============================================================================
