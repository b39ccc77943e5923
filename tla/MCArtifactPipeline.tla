------------------------- MODULE MCArtifactPipeline -------------------------
\* Three requests at a time, on a conversation and its brief.
EXTENDS ArtifactPipeline, TLC

CONSTANTS c1, c2, c3

Symmetry == Permutations(Callers)
=============================================================================
