-------------------------- MODULE MC_TenantAccess --------------------------
EXTENDS TenantAccess, TLC

CONSTANTS u1, u2, r1, r2, k1, k2

\* Bound: a behaviour ends once none of the properties says anything of it.
Telling ==
  \/ ApartOnUser("roles", "replace")
  \/ Apart("publish", "subscription") /\ begun["publish"] > 0
  \/ Apart("roles", "role") /\ Apart("roles", "publish") /\ Apart("roles", "subscription")

\* Bound: a fourth request only where two of the four are about the template
\* or the subscription and at most one about a member.
Few ==
  LET members == begun["roles"] + begun["replace"]
      product == begun["publish"] + begun["subscription"]
  IN members + product + begun["role"] <= 3 \/ (product \in {2, 3} /\ members <= 1)

Bounded == Few' /\ Telling'

\* The identifiers of roles are interchangeable, and so are the requests under
\* way; no property looks at the order of the rows.
Interchangeable == Permutations({r1, r2}) \cup Permutations({k1, k2})
=============================================================================
