----------------------------- MODULE MCSseMerge -----------------------------
\* SseMerge for TLC: its constants are numbers and flags the cfg sets.
EXTENDS SseMerge
=============================================================================
