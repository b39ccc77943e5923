---------------------------- MODULE MCChangeFeed ----------------------------
\* ChangeFeed for TLC: its constants are numbers and flags the cfg sets.
EXTENDS ChangeFeed
=============================================================================
