---------------------------- MODULE MCWeightCache ----------------------------
\* Two clients, two models that fill the pool together, one restart of the
\* server, so that the second incarnation may put either model at the addresses
\* of the first.
EXTENDS WeightCache, TLC

CONSTANTS c1, c2, m1, m2, p1, p2

MCBucketNum == [m \in Models |-> IF m = m1 THEN 2 ELSE 1]
MCSymmetry == Permutations({c1, c2}) \cup Permutations({p1, p2})
==============================================================================
