----------------------------- MODULE MCStorage -----------------------------
\* Two requests at a time, and the job, on two buckets.
EXTENDS Storage, TLC

CONSTANTS c1, c2, k1, k2, k3, docs, media

MCBucket == (k1 :> docs) @@ (k2 :> docs) @@ (k3 :> media)
=============================================================================
