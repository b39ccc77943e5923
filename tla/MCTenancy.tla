----------------------------- MODULE MCTenancy -----------------------------
\* Two requests at a time, on a workspace with two members and an invitation.
EXTENDS Tenancy, TLC

CONSTANTS c1, c2, u1, u2, u3, r1, e1, s1, s2

Symmetry == Permutations(Callers) \cup Permutations(Users) \cup Permutations(Slugs)
=============================================================================
