----------------------------- MODULE MCTcpTransfer -----------------------------
\* A region, the range that is all of it and a range that runs past its end; headers
\* of two cells, so that every header may arrive in pieces.
EXTENDS TcpTransfer, TLC

CONSTANTS r1, r2

MCRegions == {[first |-> 1, last |-> 3]}
MCOneRange == {[first |-> 1, last |-> 2]}
MCRanges == {[first |-> 1, last |-> 3], [first |-> 2, last |-> 4]}
MCSymmetry == Permutations({r1, r2})
==============================================================================
