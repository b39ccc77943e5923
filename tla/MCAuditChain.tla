---------------------------- MODULE MCAuditChain ----------------------------
EXTENDS AuditChain, TLC

CONSTANTS w1, w2, ws1, ws2, e1, e2

Symmetry == Permutations({w1, w2}) \cup Permutations({e1, e2})
=============================================================================
