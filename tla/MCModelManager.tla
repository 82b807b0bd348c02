---------------------------- MODULE MCModelManager ----------------------------
\* Buckets of 3 bytes that round up to 4, so that a tensor may be oversize and
\* still fit a regular bucket; names that repeat; a tensor that is oversize, one
\* that is empty; a pool two models may fill.
EXTENDS ModelManager, TLC

CONSTANTS m1, m2, a, b

MCRawPtrs == {5}
MCTensors ==
    {[name |-> a, nbytes |-> 1, itemsize |-> 1],
     [name |-> a, nbytes |-> 4, itemsize |-> 4],
     [name |-> b, nbytes |-> 2, itemsize |-> 2],
     [name |-> b, nbytes |-> 0, itemsize |-> 2]}
MCSymmetry == Permutations({m1, m2})
MCData == Models \X (1 .. MaxTensors) \X (0 .. CapacityBytes - 1)
==============================================================================
