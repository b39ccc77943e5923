--------------------------- MODULE MCConnections ---------------------------
\* Three requests of two users on two workspaces.
EXTENDS Connections, TLC

CONSTANTS c1, c2, c3, u1, u2, wsA, wsB

MCWorkspace == (c1 :> wsA) @@ (c2 :> wsA) @@ (c3 :> wsB)
MCPrincipal == (c1 :> u1) @@ (c2 :> u2) @@ (c3 :> u1)
MCDeclared  == (c1 :> {1, 2, 3}) @@ (c2 :> {1}) @@ (c3 :> {1})
=============================================================================
