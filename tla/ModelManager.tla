----------------------------- MODULE ModelManager -----------------------------
(***************************************************************************)
(* Packing a stream of named tensors into buckets of the host pool, and    *)
(* the metadata that describes the packing                                 *)
(* (static_weight_cache/model_manager.py, protocol.py).                    *)
(*                                                                         *)
(* One call of load_from_named_tensors is a sequence of steps, one per     *)
(* tensor drawn from the source.  All of them run in the one thread that   *)
(* loads; the other threads only see what the last step publishes, so a    *)
(* tensor's flush, allocation and copy are one step.  The p-th tensor      *)
(* drawn for model m is opaque: its k-th byte is <<m, p, k>>.              *)
(***************************************************************************)
EXTENDS HostMem, Sequences

CONSTANTS
    BucketSizeBytes,   \* ModelManager.bucket_size_bytes
    Models,            \* the model ids a caller may load
    NoModel,           \* "no load in progress"
    Tensors,           \* what a source may yield: [name, nbytes, itemsize]
    MaxTensors         \* bound: tensors drawn in one load

ASSUME ManagerAssumption ==
    /\ BucketSizeBytes \in Nat \ {0}
    /\ NoModel \notin Models
    /\ MaxTensors \in Nat
    /\ \A t \in Tensors :
           /\ t.nbytes \in Nat
           /\ t.itemsize \in Nat \ {0}
           /\ t.nbytes % t.itemsize = 0
    /\ \A m \in Models, p \in 1 .. MaxTensors, k \in 0 .. CapacityBytes - 1 :
           <<m, p, k>> \in Data

VARIABLES
    models,  \* _models: model id -> its buckets' metadata, in order
    load     \* the locals of the load in progress, or Idle

managerVars == <<rawPtr, nextOffset, nextBucketId, allocations, pool, locked,
                 models, load>>

NoBucket == -1
NoTensors == [n \in {} |-> n]

\* given is the tensors drawn so far; the others are the locals of the loop.
Fresh(m) ==
    [model |-> m, given |-> <<>>, buckets |-> <<>>,
     current |-> NoBucket,   \* current_allocation
     index   |-> NoTensors,  \* current_tensors: name -> TensorMetadata
     offset  |-> 0]          \* current_offset

Idle == Fresh(NoModel)

-----------------------------------------------------------------------------
\* Faulty variant: the capacity asked for, not the one the pool rounded it to.
CurrentMetadataUnrounded ==
    [bucketId |-> load.current,
     base     |-> BasePtr(load.current),
     capacity |-> BucketSizeBytes,
     used     |-> load.offset,
     tensors  |-> load.index]

\* BucketMetadata of the current bucket, with its address as a client gets it.
CurrentMetadata ==
    [bucketId |-> load.current,
     base     |-> BasePtr(load.current),
     capacity |-> allocations[load.current].capacity,
     used     |-> load.offset,
     tensors  |-> load.index]

\* Faulty variant: the bucket is listed but stays open for more tensors.
FlushedKeepsOpen ==
    IF load.current = NoBucket THEN load
    ELSE [load EXCEPT !.buckets = Append(@, CurrentMetadata),
                      !.index = NoTensors, !.offset = 0]

\* flush_bucket: the locals after it, and the allocation table after it.
Flushed ==
    IF load.current = NoBucket THEN load
    ELSE [load EXCEPT !.buckets = Append(@, CurrentMetadata),
                      !.current = NoBucket,
                      !.index = NoTensors,
                      !.offset = 0]

FlushedTable ==
    IF load.current = NoBucket THEN allocations
    ELSE [allocations EXCEPT ![load.current].used = load.offset]

\* The byte k of the tensor being drawn.
Byte(k) == <<load.model, Len(load.given) + 1, k>>

TensorMetadata(t, offset) ==
    [offset |-> offset, nbytes |-> t.nbytes, itemsize |-> t.itemsize]

Oversize(t) == t.nbytes > BucketSizeBytes

\* Faulty variant: the fit is off by one.
FitsCurrentOffByOne(t) ==
    /\ load.current # NoBucket
    /\ load.offset + t.nbytes <= allocations[load.current].capacity + 1

\* The tensor may be appended to the current bucket.
FitsCurrent(t) ==
    /\ load.current # NoBucket
    /\ load.offset + t.nbytes <= allocations[load.current].capacity

Drawing == load # Idle /\ Len(load.given) < MaxTensors

-----------------------------------------------------------------------------
ManagerInit ==
    /\ HostInit
    /\ models = [m \in {} |-> m]
    /\ load = Idle

\* A second load of a published model raises ValueError and changes nothing.
BeginLoad(m) ==
    /\ load = Idle
    /\ m \notin DOMAIN models
    /\ load' = Fresh(m)
    /\ UNCHANGED <<hostVars, models>>

\* Append to the current bucket.  The bound _copy_tensor_to_bucket checks again
\* is the one FitsCurrent has just established.
PackIntoCurrent(t) ==
    /\ Drawing
    /\ ~Oversize(t)
    /\ FitsCurrent(t)
    /\ pool' = Written(allocations[load.current].offset + load.offset,
                       t.nbytes, Byte)
    /\ allocations' = [allocations EXCEPT ![load.current].used =
                           IF @ >= load.offset + t.nbytes
                           THEN @ ELSE load.offset + t.nbytes]
    /\ load' = [load EXCEPT !.given = Append(@, t),
                            !.index = With(@, t.name, TensorMetadata(t, load.offset)),
                            !.offset = @ + t.nbytes]
    /\ UNCHANGED <<rawPtr, nextOffset, nextBucketId, locked, models>>

\* Faulty variant: the copy does not raise used_bytes, which stays as allocated.
OpenBucketAndCopyUnused(size, t) ==
    /\ HasRoom(size)
    /\ t.nbytes <= AlignUp(size, Alignment)
    /\ Carve(FlushedTable, size, 0)
    /\ pool' = Written(nextOffset, t.nbytes, Byte)
    /\ UNCHANGED <<rawPtr, locked, models>>

\* Flush, open a bucket for `size` bytes and copy the tensor to its head.
OpenBucketAndCopy(size, t) ==
    /\ HasRoom(size)
    /\ t.nbytes <= AlignUp(size, Alignment)
    /\ Carve(FlushedTable, size, t.nbytes)
    /\ pool' = Written(nextOffset, t.nbytes, Byte)
    /\ UNCHANGED <<rawPtr, locked, models>>

\* No bucket is open, or the open one has no room: cut a new one.
PackIntoNew(t) ==
    /\ Drawing
    /\ ~Oversize(t)
    /\ ~FitsCurrent(t)
    /\ OpenBucketAndCopy(BucketSizeBytes, t)
    /\ load' = [Flushed EXCEPT !.given = Append(@, t),
                               !.current = nextBucketId,
                               !.index = With(NoTensors, t.name, TensorMetadata(t, 0)),
                               !.offset = t.nbytes]

\* A tensor bigger than a bucket gets one of its own, flushed at once.
PackOversize(t) ==
    /\ Drawing
    /\ Oversize(t)
    /\ OpenBucketAndCopy(t.nbytes, t)
    /\ load' = [Flushed EXCEPT
                   !.given = Append(@, t),
                   !.buckets = Append(@,
                       [bucketId |-> nextBucketId,
                        base     |-> PoolBase + nextOffset,
                        capacity |-> AlignUp(t.nbytes, Alignment),
                        used     |-> t.nbytes,
                        tensors  |-> With(NoTensors, t.name, TensorMetadata(t, 0))])]

\* allocate_bucket raises MemoryError: the call ends, the buckets it carved are
\* never given back, and the model is not published.
PoolExhausted(t) ==
    /\ Drawing
    /\ ~FitsCurrent(t) \/ Oversize(t)
    /\ ~HasRoom(IF Oversize(t) THEN t.nbytes ELSE BucketSizeBytes)
    /\ allocations' = FlushedTable
    /\ load' = Idle
    /\ UNCHANGED <<rawPtr, nextOffset, nextBucketId, pool, locked, models>>

\* The lazy iterator raises (an unreadable file): nothing is undone either.
SourceFails ==
    /\ load # Idle
    /\ load' = Idle
    /\ UNCHANGED <<hostVars, models>>

\* The source is exhausted: flush the last bucket and publish the model.
Publish ==
    /\ load # Idle
    /\ allocations' = FlushedTable
    /\ models' = With(models, load.model, Flushed.buckets)
    /\ load' = Idle
    /\ UNCHANGED <<rawPtr, nextOffset, nextBucketId, pool, locked>>

ManagerNext ==
    \/ \E m \in Models : BeginLoad(m)
    \/ \E t \in Tensors :
           \/ PackIntoCurrent(t)
           \/ PackIntoNew(t)
           \/ PackOversize(t)
           \/ PoolExhausted(t)
    \/ SourceFails
    \/ Publish

ManagerSpec == ManagerInit /\ [][ManagerNext]_managerVars

-----------------------------------------------------------------------------
(* What a client makes of the metadata (client.receive_weights).           *)

\* The bytes a read of `n` bytes at an advertised address returns.
BytesAt(address, n) == [k \in 0 .. n - 1 |-> pool[address - PoolBase + k]]

BucketsWith(m, name) ==
    {i \in DOMAIN models[m] : name \in DOMAIN models[m][i].tensors}

NamesOf(m) == UNION {DOMAIN models[m][i].tensors : i \in DOMAIN models[m]}

\* The tensors of a model as a receiver that assigns them in order ends up with
\* them: buckets in order, and within a bucket one entry per name.
Received(m) ==
    [name \in NamesOf(m) |->
        LET i == CHOOSE j \in BucketsWith(m, name) :
                     \A l \in BucketsWith(m, name) : l <= j
            bucket == models[m][i]
            t      == bucket.tensors[name]
        IN  BytesAt(bucket.base + t.offset, t.nbytes)]

-----------------------------------------------------------------------------
IsBucketMetadata(bucket) ==
    /\ bucket.bucketId \in 0 .. nextBucketId - 1
    /\ bucket.base \in Nat
    /\ bucket.capacity \in Nat
    /\ bucket.used \in Nat
    /\ \A name \in DOMAIN bucket.tensors :
           bucket.tensors[name] \in [offset : Nat, nbytes : Nat, itemsize : Nat]

\* The pool's variables and the manager's hold values of their Python types.
ManagerTypeOK ==
    /\ HostTypeOK
    /\ DOMAIN models \subseteq Models
    /\ \A m \in DOMAIN models : \A i \in DOMAIN models[m] :
           IsBucketMetadata(models[m][i])
    /\ load.model \in Models \cup {NoModel}
    /\ load.given \in Seq(Tensors)
    /\ \A i \in DOMAIN load.buckets : IsBucketMetadata(load.buckets[i])
    /\ load.current \in {NoBucket} \cup 0 .. nextBucketId - 1
    /\ load.offset \in Nat

\* The buckets some metadata lists, and the one being filled: <<owner, place>>.
Listed ==
    (UNION {{<<m, i, models[m][i].bucketId>> : i \in DOMAIN models[m]} : m \in DOMAIN models})
    \cup {<<NoModel, i, load.buckets[i].bucketId>> : i \in DOMAIN load.buckets}
    \cup (IF load.current = NoBucket THEN {} ELSE {<<NoModel, 0, load.current>>})

\* No bucket belongs to two places: not to two models, not twice to one model,
\* and a bucket that is listed is closed, so a later tensor, of this load or
\* after an abandoned one, never lands in it.
BucketsOwnedOnce ==
    \A x, y \in Listed : x[3] = y[3] => x = y

\* What a published model advertises to clients is what the server will register
\* with the data plane: load_model registers the allocation's base and capacity,
\* a client asks for the metadata's, and a difference is a rejected read.
AdvertisedIsAllocated ==
    \A m \in DOMAIN models : \A i \in DOMAIN models[m] :
        LET bucket == models[m][i] IN
        /\ bucket.base = BasePtr(bucket.bucketId)
        /\ bucket.capacity = allocations[bucket.bucketId].capacity
        /\ bucket.used = allocations[bucket.bucketId].used
        /\ \A name \in DOMAIN bucket.tensors :
               LET t == bucket.tensors[name] IN t.offset + t.nbytes <= bucket.used

\* Loading implements the catalog: a model appears whole or not at all, a client
\* that reads it back gets, under every name, the bytes of the last tensor the
\* source gave under that name, and nothing that is loaded or abandoned later
\* changes them.
ContentOf(m, p, t) == [k \in 0 .. t.nbytes - 1 |-> <<m, p, k>>]

Promise ==
    INSTANCE Catalog WITH
        catalog  <- [m \in DOMAIN models |-> Received(m)],
        incoming <- [model |-> load.model, given |-> load.given],
        Content  <- ContentOf

ImplementsCatalog == Promise!CatalogSpec

\* The client cuts every tensor out of the bucket as a view of its dtype
\* (client.py:120), and torch views bytes as a wider dtype only at an offset that
\* is a multiple of the item size.
EveryTensorViewable ==
    \A m \in DOMAIN models : \A i \in DOMAIN models[m] :
        \A name \in DOMAIN models[m][i].tensors :
            LET t == models[m][i].tensors[name] IN t.offset % t.itemsize = 0
==============================================================================
