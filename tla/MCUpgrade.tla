----------------------------- MODULE MCUpgrade -----------------------------
\* Three databases; releases up to the edges of the compatibility window.
EXTENDS Upgrade

V(major, minor, patch) == [major |-> major, minor |-> minor, patch |-> patch]

MCReleases == {V(1, 0, 0), V(1, 2, 0), V(1, 3, 0), V(2, 0, 1), V(3, 0, 0)}
MCBreaking == {V(2, 0, 1)}
=============================================================================
