------------------------------ MODULE MCHostMem ------------------------------
\* A pool whose capacity is not a multiple of its alignment, at every
\* misalignment the allocator may return.
EXTENDS HostMem

MCRawPtrs == 5 .. 8
==============================================================================
