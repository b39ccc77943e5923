-------------------------- MODULE MCSchemaService --------------------------
EXTENDS SchemaService, TLC
CONSTANTS t1, t2, c1, c2
Symmetry == Permutations(Tables) \cup Permutations(Callers)
=============================================================================
