------------------------------ MODULE MCFanout ------------------------------
\* Small instances of Fanout: one subscriber of one table, one of both.
EXTENDS Fanout, TLC

CONSTANTS s1, s2, users, orders

MCWants == (s1 :> {users}) @@ (s2 :> {users, orders})
=============================================================================
