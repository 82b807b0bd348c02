---------------------------- MODULE MCTransferQueue ----------------------------
\* Two groups of two rows are one training step of two ranks that take two rows each;
\* the third group is put before or after they are deleted.  The forward ranks go row
\* by row, so that a batch can hold rows of two groups, and of two shards.
EXTENDS TransferQueue, TLC

CONSTANTS f1, f2, t1, t2

MCFwd == {f1, f2}
MCTrain == {t1, t2}
MCShare == [w \in MCFwd \cup MCTrain |-> IF w \in MCFwd THEN 1 ELSE 2]

\* The ranks of a team are alike.
MCSymmetry == Permutations(MCFwd) \cup Permutations(MCTrain)

\* However many groups the shards hold, a put finds a shard for its own.
ASSUME AllocationSuffices ==
    \A holds \in [Shards -> 0..5] : \E s \in Shards : Needed(holds, s) > 0
==============================================================================
