------------------------------- MODULE HostMem -------------------------------
(***************************************************************************)
(* The resident host memory pool of the cache server                       *)
(* (static_weight_cache/host_mem_manager.py).                              *)
(*                                                                         *)
(* A pool is one over-allocated buffer whose head is trimmed so that the   *)
(* pool starts on a multiple of Alignment.  Buckets are carved from it by  *)
(* a bump pointer that only moves forward: nothing is ever freed.  The     *)
(* pool is modelled byte by byte, a byte being NoData until it is written, *)
(* because the properties are about which bytes a write may reach.         *)
(*                                                                         *)
(* A call that raises leaves the object as it was, so it is not a step:    *)
(* a request that does not fit (MemoryError), a request that is not        *)
(* positive, a write past the bucket's end or of no bytes (ValueError).    *)
(***************************************************************************)
EXTENDS Integers

CONSTANTS
    CapacityBytes,  \* HostMemConfig.capacity_bytes
    Alignment,      \* HostMemConfig.alignment
    RawPtrs,        \* the addresses torch.empty may return
    PinMemory,      \* HostMemConfig.pin_memory
    LockMemory,     \* HostMemConfig.lock_memory
    Data,           \* the values a pool byte may be given
    NoData          \* a pool byte nobody has written

ASSUME HostMemAssumption ==
    /\ CapacityBytes \in Nat \ {0}
    /\ Alignment \in Nat \ {0}
    /\ RawPtrs \subseteq Nat
    /\ PinMemory \in BOOLEAN
    /\ LockMemory \in BOOLEAN
    /\ NoData \notin Data

VARIABLES
    rawPtr,        \* _pool_owner.data_ptr()
    nextOffset,    \* _next_offset
    nextBucketId,  \* _next_bucket_id
    allocations,   \* _allocations: bucket_id -> [offset, capacity, used]
    pool,          \* the bytes of _pool
    locked         \* _locked

hostVars == <<rawPtr, nextOffset, nextBucketId, allocations, pool, locked>>

-----------------------------------------------------------------------------
AlignUp(value, alignment) ==
    ((value + alignment - 1) \div alignment) * alignment

\* Faulty variant: the owner buffer without the slack the trimming needs.
OwnerBytesNoSlack == CapacityBytes

\* The owner buffer is `alignment` bytes longer than the pool cut from it.
OwnerBytes == CapacityBytes + Alignment

\* Where the trimmed pool begins: every bucket offset is relative to it.
PoolBase == AlignUp(rawPtr, Alignment)

\* Faulty variant: the slack is locked a second time.
LockLengthWithSlack == AlignUp(CapacityBytes + Alignment, Alignment)

\* The bytes handed to mlock, whole pages of the pool's own alignment.
LockLength == AlignUp(CapacityBytes, Alignment)

BasePtr(b) == PoolBase + allocations[b].offset

\* f extended, or overwritten, at one key, as a Python dict assignment does.
With(f, key, value) ==
    [k \in DOMAIN f \cup {key} |-> IF k = key THEN value ELSE f[k]]

-----------------------------------------------------------------------------
HostInit ==
    /\ rawPtr \in RawPtrs
    /\ nextOffset = 0
    /\ nextBucketId = 0
    /\ allocations = [b \in {} |-> b]
    /\ pool = [i \in 0 .. CapacityBytes - 1 |-> NoData]
    /\ locked = (LockMemory /\ ~PinMemory)

\* Faulty variant: the boundary is checked before the request is rounded up.
HasRoomUnrounded(capacity) == nextOffset + capacity <= CapacityBytes

\* The boundary check of allocate_bucket, after rounding the request up.
HasRoom(capacity) ==
    nextOffset + AlignUp(capacity, Alignment) <= CapacityBytes

\* Faulty variant: the frontier advances by the request, not by the rounded size.
CarveUnrounded(table, capacity, used) ==
    /\ nextOffset' = nextOffset + capacity
    /\ nextBucketId' = nextBucketId + 1
    /\ allocations' = With(table, nextBucketId,
                           [offset   |-> nextOffset,
                            capacity |-> AlignUp(capacity, Alignment),
                            used     |-> used])

\* Advance the frontier and add the bucket cut between its old and new place to
\* the allocation table.
Carve(table, capacity, used) ==
    /\ nextOffset' = nextOffset + AlignUp(capacity, Alignment)
    /\ nextBucketId' = nextBucketId + 1
    /\ allocations' = With(table, nextBucketId,
                           [offset   |-> nextOffset,
                            capacity |-> AlignUp(capacity, Alignment),
                            used     |-> used])

\* used_bytes is the caller's, or the whole (rounded) capacity when not given.
AllocateBucket(capacity, declared) ==
    /\ capacity > 0
    /\ HasRoom(capacity)
    /\ Carve(allocations, capacity, IF declared THEN 0 ELSE AlignUp(capacity, Alignment))
    /\ UNCHANGED <<rawPtr, pool, locked>>

\* The pool after n bytes, data(0) to data(n - 1), land from pool offset `first`.
Written(first, n, data(_)) ==
    [i \in DOMAIN pool |->
        IF i \in first .. first + n - 1 THEN data(i - first) ELSE pool[i]]

\* Faulty variants: a boundary check off by one, none at all, and used_bytes
\* set to the end of the latest write.
WriteBytesOffByOne(b, at, n, d) ==
    /\ n > 0
    /\ at + n <= allocations[b].capacity + 1
    /\ pool' = Written(allocations[b].offset + at, n, LAMBDA i : d)
    /\ allocations' = [allocations EXCEPT ![b].used =
                           IF @ >= at + n THEN @ ELSE at + n]
    /\ UNCHANGED <<rawPtr, nextOffset, nextBucketId, locked>>

WriteBytesUnchecked(b, at, n, d) ==
    /\ n > 0
    /\ pool' = Written(allocations[b].offset + at, n, LAMBDA i : d)
    /\ allocations' = [allocations EXCEPT ![b].used =
                           IF @ >= at + n THEN @ ELSE at + n]
    /\ UNCHANGED <<rawPtr, nextOffset, nextBucketId, locked>>

WriteBytesUsedIsLast(b, at, n, d) ==
    /\ n > 0
    /\ at + n <= allocations[b].capacity
    /\ pool' = Written(allocations[b].offset + at, n, LAMBDA i : d)
    /\ allocations' = [allocations EXCEPT ![b].used = at + n]
    /\ UNCHANGED <<rawPtr, nextOffset, nextBucketId, locked>>

WriteBytes(b, at, n, d) ==
    /\ n > 0
    /\ at + n <= allocations[b].capacity
    /\ pool' = Written(allocations[b].offset + at, n, LAMBDA i : d)
    /\ allocations' = [allocations EXCEPT ![b].used =
                           IF @ >= at + n THEN @ ELSE at + n]
    /\ UNCHANGED <<rawPtr, nextOffset, nextBucketId, locked>>

\* close only unlocks; the object keeps working afterwards.
Close ==
    /\ locked
    /\ locked' = FALSE
    /\ UNCHANGED <<rawPtr, nextOffset, nextBucketId, allocations, pool>>

HostNext ==
    \/ \E capacity \in 1 .. CapacityBytes, declared \in BOOLEAN :
           AllocateBucket(capacity, declared)
    \/ \E b \in DOMAIN allocations, at, n \in 0 .. CapacityBytes, d \in Data :
           WriteBytes(b, at, n, d)
    \/ Close

HostSpec == HostInit /\ [][HostNext]_hostVars

-----------------------------------------------------------------------------
\* Every variable holds a value of the type its Python field has.
HostTypeOK ==
    /\ rawPtr \in RawPtrs
    /\ nextOffset \in 0 .. CapacityBytes
    /\ nextBucketId \in Nat
    /\ allocations \in [0 .. nextBucketId - 1 ->
                            [offset : Nat, capacity : Nat \ {0}, used : Nat]]
    /\ pool \in [0 .. CapacityBytes - 1 -> Data \cup {NoData}]
    /\ locked \in BOOLEAN

BucketEnd(b) == allocations[b].offset + allocations[b].capacity

\* Buckets lie end to end from the pool's head to the frontier, in the order of
\* their ids: none overlaps another, none runs past the pool, no gap is lost.
\* A client addresses a bucket by base_ptr alone, so an overlap would serve one
\* bucket's bytes as another's.
BucketsTile ==
    /\ nextBucketId = 0 => nextOffset = 0
    /\ \A b \in DOMAIN allocations :
           /\ allocations[b].offset = IF b = 0 THEN 0 ELSE BucketEnd(b - 1)
           /\ BucketEnd(b) <= nextOffset
           /\ b = nextBucketId - 1 => BucketEnd(b) = nextOffset

\* Every bucket's absolute address is a multiple of the alignment, whatever
\* address the allocator returned, and every byte of it is a byte of the owner
\* buffer: what the transfer engine registers is aligned and really allocated.
BucketsRegistrable ==
    \A b \in DOMAIN allocations :
        /\ BasePtr(b) % Alignment = 0
        /\ BasePtr(b) >= rawPtr
        /\ PoolBase + BucketEnd(b) <= rawPtr + OwnerBytes

\* The mlock range never reaches past the last alignment-sized block that the
\* owner buffer touches, although its length is rounded up on its own.
LockStaysInOwnerBlocks ==
    PoolBase + LockLength <= AlignUp(rawPtr + OwnerBytes, Alignment)

\* used_bytes is the right edge of what was written: a byte that is not NoData
\* lies below the used_bytes of the one bucket that contains it.
UsedIsRightEdge ==
    \A i \in DOMAIN pool :
        pool[i] # NoData =>
            \E b \in DOMAIN allocations :
                /\ allocations[b].offset <= i
                /\ i < allocations[b].offset + allocations[b].used
                /\ allocations[b].used <= allocations[b].capacity

\* A step writes bytes of at most one bucket, and carving a bucket writes none.
WriteStaysInOneBucket ==
    \E b \in DOMAIN allocations \cup {nextBucketId} :
        \A i \in DOMAIN pool :
            pool'[i] # pool[i] =>
                /\ b \in DOMAIN allocations
                /\ allocations[b].offset <= i
                /\ i < BucketEnd(b)

WriteIsolation == [][WriteStaysInOneBucket]_hostVars

\* A bucket that exists never moves, grows or loses used bytes: its address and
\* capacity were sent to clients as part of the metadata.
BucketsStay ==
    \A b \in DOMAIN allocations :
        /\ b \in DOMAIN allocations'
        /\ allocations'[b].offset = allocations[b].offset
        /\ allocations'[b].capacity = allocations[b].capacity
        /\ allocations'[b].used >= allocations[b].used

AllocationsAreForever == [][BucketsStay]_hostVars
==============================================================================
