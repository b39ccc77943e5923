----------------------------- MODULE MCDataApi -----------------------------
EXTENDS DataApi, TLC
CONSTANTS r1, r2, k1, c1, c2
\* Every operation under one key, and deletions without that come in between.
MCRequests ==
  [op : Operations \ {"hardDelete"}, key : Keys] \cup [op : {"hardDelete"}, key : {NoKey}]

Symmetry == Permutations(Rows) \cup Permutations(Callers)
=============================================================================
