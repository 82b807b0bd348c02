-------------------------- MODULE ModelManagerProofs --------------------------
(***************************************************************************)
(* Theorems about packing, for any bucket size, any tensors and any        *)
(* number of loads, of which some are abandoned.  What is advertised of a  *)
(* bucket stays true because nobody writes it once it is listed; and that  *)
(* is so because the bucket being filled is never one that is listed.      *)
(*                                                                         *)
(* The bytes follow the same way: buckets lie apart and a copy lands past  *)
(* what every bucket uses, so what any metadata points at never changes,   *)
(* and the list a load would publish now always renders what it was given  *)
(* so far.  That is the catalog's promise.                                 *)
(***************************************************************************)
EXTENDS ModelManager, HostMemProofs

Names == {t.name : t \in Tensors}

TensorEntry == [offset : Nat, nbytes : Nat, itemsize : Nat]

Indexes == UNION {[S -> TensorEntry] : S \in SUBSET Names}

Bucket == [bucketId : Nat, base : Nat, capacity : Nat, used : Nat, tensors : Indexes]

LoadRecord ==
    [model : Models \cup {NoModel}, given : Seq(Tensors), buckets : Seq(Bucket),
     current : {NoBucket} \cup Nat, index : Indexes, offset : Nat]

Allocation == [offset : Nat, capacity : Nat \ {0}, used : Nat]

Within(index, edge) ==
    \A name \in DOMAIN index : index[name].offset + index[name].nbytes <= edge

\* What a bucket's metadata says is what the allocation table says.
Right(bucket, table) ==
    /\ bucket.bucketId \in DOMAIN table
    /\ bucket.base = PoolBase + table[bucket.bucketId].offset
    /\ bucket.capacity = table[bucket.bucketId].capacity
    /\ bucket.used = table[bucket.bucketId].used
    /\ Within(bucket.tensors, bucket.used)

AllRight(s, table) == \A i \in DOMAIN s : Right(s[i], table)

Once(s) == \A i, j \in DOMAIN s : s[i].bucketId = s[j].bucketId => i = j

Without(s, b) == \A i \in DOMAIN s : s[i].bucketId # b

Apart(s, u) == \A j \in DOMAIN u : Without(s, u[j].bucketId)

ModelsOK(table) ==
    /\ DOMAIN models \subseteq Models
    /\ \A m \in DOMAIN models :
           models[m] \in Seq(Bucket) /\ AllRight(models[m], table) /\ Once(models[m])
    /\ \A m, n \in DOMAIN models : m # n => Apart(models[m], models[n])

\* A load, or what flushing makes of it, beside the published models.
LoadOK(l, table) ==
    /\ l \in LoadRecord
    /\ l.model = NoModel => l = Idle
    /\ AllRight(l.buckets, table) /\ Once(l.buckets)
    /\ \A m \in DOMAIN models : Apart(models[m], l.buckets)
    /\ l.current # NoBucket =>
           /\ l.current \in DOMAIN table
           /\ Without(l.buckets, l.current)
           /\ \A m \in DOMAIN models : Without(models[m], l.current)
           /\ Within(l.index, l.offset)

ManagerInv ==
    /\ HostTypeOK
    /\ ModelsOK(allocations)
    /\ LoadOK(load, allocations)

-----------------------------------------------------------------------------
(* Data.                                                                   *)

\* What appending one element makes of a sequence.
LEMMA AppendTo ==
    ASSUME NEW S, NEW s \in Seq(S), NEW x \in S
    PROVE  /\ Append(s, x) \in Seq(S)
           /\ Len(s) \in Nat
           /\ DOMAIN s = 1 .. Len(s)
           /\ DOMAIN Append(s, x) = 1 .. (Len(s) + 1)
           /\ \A i \in DOMAIN s : Append(s, x)[i] = s[i]
           /\ Append(s, x)[Len(s) + 1] = x
           /\ \A i \in DOMAIN Append(s, x) : i = Len(s) + 1 \/ i \in DOMAIN s
  OBVIOUS

\* A dict with no names.
LEMMA EmptyIndex == NoTensors \in Indexes /\ DOMAIN NoTensors = {}
  <1>1. NoTensors \in [{} -> TensorEntry]  BY DEF NoTensors
  <1>2. {} \in SUBSET Names  OBVIOUS
  <1>3. [{} -> TensorEntry] \in {[S -> TensorEntry] : S \in SUBSET Names}  BY <1>2
  <1> QED  BY <1>1, <1>3 DEF Indexes, NoTensors

\* A dict with one more name, or another tensor under the same name.
LEMMA WithIndex ==
    ASSUME NEW f \in Indexes, NEW name \in Names, NEW entry \in TensorEntry
    PROVE  /\ With(f, name, entry) \in Indexes
           /\ \A n \in DOMAIN With(f, name, entry) :
                  \/ With(f, name, entry)[n] = entry
                  \/ n \in DOMAIN f /\ With(f, name, entry)[n] = f[n]
  <1>1. PICK S \in SUBSET Names : f \in [S -> TensorEntry]  BY DEF Indexes
  <1>2. With(f, name, entry) \in [S \cup {name} -> TensorEntry]  BY <1>1 DEF With
  <1>3. S \cup {name} \in SUBSET Names  BY <1>1
  <1>4. [S \cup {name} -> TensorEntry] \in {[T -> TensorEntry] : T \in SUBSET Names}  BY <1>3
  <1>5. With(f, name, entry) \in Indexes  BY <1>2, <1>4 DEF Indexes
  <1> QED  BY <1>5 DEF With

\* An entry of a dict of tensors is a tensor's.
LEMMA IndexEntry ==
    ASSUME NEW f \in Indexes, NEW n \in DOMAIN f
    PROVE  f[n] \in TensorEntry
  <1>1. PICK S \in SUBSET Names : f \in [S -> TensorEntry]  BY DEF Indexes
  <1> QED  BY <1>1

\* The metadata of a tensor, and its parts.
LEMMA TensorFacts ==
    ASSUME NEW t \in Tensors, NEW offset \in Nat
    PROVE  /\ TensorMetadata(t, offset) \in TensorEntry
           /\ TensorMetadata(t, offset).offset = offset
           /\ TensorMetadata(t, offset).nbytes = t.nbytes
           /\ t.nbytes \in Nat
           /\ t.name \in Names
  BY ManagerAssumption DEF TensorMetadata, TensorEntry, Names

\* The pool begins at an address.
LEMMA BaseIsNat == ASSUME HostTypeOK PROVE PoolBase \in Nat
  <1>1. rawPtr \in Nat  BY HostMemAssumption DEF HostTypeOK
  <1> QED  BY <1>1, HostMemAssumption, AlignUpProperties DEF PoolBase

\* What there is of a load when none is in progress.
LEMMA IdleRecord ==
    /\ Idle \in LoadRecord /\ Idle.model = NoModel /\ Idle.buckets = <<>>
    /\ Idle.current = NoBucket
  BY EmptyIndex DEF Idle, Fresh, LoadRecord

-----------------------------------------------------------------------------
(* What a list of buckets says stays right in a table that has the same of *)
(* them.                                                                   *)

\* A list that is right stays right in a table that agrees on its buckets.
LEMMA RightStays ==
    ASSUME NEW s, NEW T, NEW U, AllRight(s, T),
           \A i \in DOMAIN s : s[i].bucketId \in DOMAIN U /\ U[s[i].bucketId] = T[s[i].bucketId]
    PROVE  AllRight(s, U)
  BY DEF AllRight, Right

\* So do the lists of all models.
LEMMA ModelsStay ==
    ASSUME NEW T, NEW U, ModelsOK(T),
           \A m \in DOMAIN models : \A i \in DOMAIN models[m] :
               LET b == models[m][i].bucketId IN b \in DOMAIN U /\ U[b] = T[b]
    PROVE  ModelsOK(U)
  <1>1. \A m \in DOMAIN models : AllRight(models[m], U)
    BY RightStays DEF ModelsOK
  <1> QED  BY <1>1 DEF ModelsOK

\* The invariant of the next state, when models and addresses are as they were.
LEMMA ModelsPrime ==
    ASSUME ModelsOK(allocations'), UNCHANGED <<models, rawPtr>>
    PROVE  ModelsOK(allocations)'
  BY DEF ModelsOK, AllRight, Right, Within, Once, Apart, Without, PoolBase

\* The same for the load.
LEMMA LoadPrime ==
    ASSUME LoadOK(load', allocations'), UNCHANGED <<models, rawPtr>>
    PROVE  LoadOK(load, allocations)'
  BY DEF LoadOK, AllRight, Right, Within, Once, Apart, Without, PoolBase

-----------------------------------------------------------------------------
\* Nothing is loaded yet.
LEMMA ManagerInitInv == ManagerInit => ManagerInv
  <1> SUFFICES ASSUME ManagerInit PROVE ManagerInv  OBVIOUS
  <1>1. HostTypeOK  BY HostInitInv DEF ManagerInit, HostInv
  <1>2. DOMAIN models = {}  BY DEF ManagerInit
  <1>3. ModelsOK(allocations)  BY <1>2 DEF ModelsOK
  <1>4. load = Idle  BY DEF ManagerInit
  <1>5. LoadOK(Idle, allocations)
    BY <1>2, IdleRecord DEF LoadOK, AllRight, Once
  <1> QED  BY <1>1, <1>3, <1>4, <1>5 DEF ManagerInv

-----------------------------------------------------------------------------
(* flush_bucket.                                                           *)

\* The metadata of the current bucket is right once its used bytes are recorded.
LEMMA CurrentMetadataRight ==
    ASSUME ManagerInv, load.current # NoBucket
    PROVE  /\ CurrentMetadata \in Bucket
           /\ CurrentMetadata.bucketId = load.current
           /\ Right(CurrentMetadata, FlushedTable)
  <1> DEFINE b == load.current
             c == CurrentMetadata
  <1>1. /\ b \in DOMAIN allocations /\ b \in Nat
        /\ load.index \in Indexes /\ load.offset \in Nat
        /\ Within(load.index, load.offset)
    BY DEF ManagerInv, LoadOK, LoadRecord, NoBucket
  <1>2. /\ allocations[b] \in Allocation
        /\ allocations \in [0 .. nextBucketId - 1 -> Allocation]
    BY <1>1 DEF ManagerInv, HostTypeOK, Allocation
  <1>3. BasePtr(b) = PoolBase + allocations[b].offset  BY DEF BasePtr
  <1>4. BasePtr(b) \in Nat /\ allocations[b].capacity \in Nat
    BY <1>2, <1>3, BaseIsNat DEF ManagerInv, Allocation
  <1>5. /\ c.bucketId = b /\ c.base = BasePtr(b) /\ c.capacity = allocations[b].capacity
        /\ c.used = load.offset /\ c.tensors = load.index
    BY DEF CurrentMetadata
  <1>6. c \in Bucket  BY <1>1, <1>4 DEF CurrentMetadata, Bucket
  <1>7. FlushedTable = [allocations EXCEPT ![b].used = load.offset]  BY DEF FlushedTable
  <1>8. /\ b \in DOMAIN FlushedTable
        /\ FlushedTable[b].offset = allocations[b].offset
        /\ FlushedTable[b].capacity = allocations[b].capacity
        /\ FlushedTable[b].used = load.offset
    BY <1>1, <1>2, <1>7 DEF Allocation
  <1> HIDE DEF c, b
  <1>9. Right(c, FlushedTable)  BY <1>1, <1>3, <1>5, <1>8 DEF Right
  <1> QED  BY <1>5, <1>6, <1>9 DEF b, c

\* The table after flushing differs in the current bucket alone.
LEMMA FlushedTableFacts ==
    ASSUME ManagerInv
    PROVE  /\ FlushedTable \in [0 .. nextBucketId - 1 -> Allocation]
           /\ DOMAIN FlushedTable = DOMAIN allocations
           /\ DOMAIN allocations = 0 .. nextBucketId - 1
           /\ \A b \in DOMAIN allocations :
                  b # load.current => FlushedTable[b] = allocations[b]
  <1>1. allocations \in [0 .. nextBucketId - 1 -> Allocation]
    BY DEF ManagerInv, HostTypeOK, Allocation
  <1>2. CASE load.current = NoBucket
    BY <1>1, <1>2 DEF FlushedTable
  <1>3. CASE load.current # NoBucket
    <2>1. FlushedTable = [allocations EXCEPT ![load.current].used = load.offset]
      BY <1>3 DEF FlushedTable
    <2>2. load.offset \in Nat  BY DEF ManagerInv, LoadOK, LoadRecord
    <2> QED  BY <1>1, <2>1, <2>2 DEF Allocation
  <1> QED  BY <1>2, <1>3

\* The bucket that is closed joins the list; none is open then.
LEMMA FlushedOK ==
    ASSUME ManagerInv
    PROVE  /\ ModelsOK(FlushedTable)
           /\ LoadOK(Flushed, FlushedTable)
           /\ Flushed.current = NoBucket
           /\ Flushed.model = load.model
           /\ Flushed.given = load.given
  <1> DEFINE b == load.current
  <1>0. ModelsOK(allocations) /\ LoadOK(load, allocations)  BY DEF ManagerInv
  <1>1. CASE b = NoBucket
    <2>1. Flushed = load /\ FlushedTable = allocations  BY <1>1 DEF Flushed, FlushedTable
    <2> QED  BY <1>0, <1>1, <2>1
  <1>2. CASE b # NoBucket
    <2> DEFINE c == CurrentMetadata
               l == Flushed
               T == FlushedTable
    <2>1. c \in Bucket /\ c.bucketId = b /\ Right(c, T)  BY <1>2, CurrentMetadataRight
    <2>2. /\ b \in DOMAIN allocations
          /\ Without(load.buckets, b)
          /\ \A m \in DOMAIN models : Without(models[m], b)
      BY <1>0, <1>2 DEF LoadOK
    <2>3. /\ load \in LoadRecord /\ load.buckets \in Seq(Bucket)
          /\ load.model # NoModel
      <3>1. load # Idle  BY <1>2, IdleRecord
      <3> QED  BY <1>0, <3>1 DEF LoadOK, LoadRecord
    <2>4. l = [load EXCEPT !.buckets = Append(load.buckets, c),
                           !.current = NoBucket, !.index = NoTensors, !.offset = 0]
      BY <1>2 DEF Flushed
    <2>5. /\ l.buckets = Append(load.buckets, c) /\ l.current = NoBucket
          /\ l.model = load.model /\ l.given = load.given
      BY <2>3, <2>4 DEF LoadRecord
    <2> HIDE DEF c, l, T
    <2>6. /\ l.buckets \in Seq(Bucket)
          /\ DOMAIN l.buckets = 1 .. (Len(load.buckets) + 1)
          /\ Len(load.buckets) \in Nat /\ DOMAIN load.buckets = 1 .. Len(load.buckets)
          /\ l.buckets[Len(load.buckets) + 1] = c
          /\ \A i \in DOMAIN load.buckets : l.buckets[i] = load.buckets[i]
          /\ \A i \in DOMAIN l.buckets : i = Len(load.buckets) + 1 \/ i \in DOMAIN load.buckets
      BY <2>1, <2>3, <2>5, AppendTo
    <2>7. l \in LoadRecord
      <3>1. Append(load.buckets, c) \in Seq(Bucket)  BY <2>5, <2>6
      <3> QED  BY <2>3, <2>4, <3>1, EmptyIndex DEF LoadRecord
    <2>8. \A k \in DOMAIN allocations : k # b => k \in DOMAIN T /\ T[k] = allocations[k]
      BY FlushedTableFacts DEF T
    <2>9. AllRight(load.buckets, T)
      <3>1. \A i \in DOMAIN load.buckets :
               load.buckets[i].bucketId \in DOMAIN allocations /\ load.buckets[i].bucketId # b
        BY <1>0, <2>2 DEF LoadOK, AllRight, Right, Without
      <3> QED  BY <1>0, <2>8, <3>1, RightStays DEF LoadOK
    <2>10. ModelsOK(T)
      <3>1. \A m \in DOMAIN models : \A i \in DOMAIN models[m] :
               models[m][i].bucketId \in DOMAIN allocations /\ models[m][i].bucketId # b
        BY <1>0, <2>2 DEF ModelsOK, AllRight, Right, Without
      <3> QED  BY <1>0, <2>8, <3>1, ModelsStay
    <2>11. AllRight(l.buckets, T)  BY <2>1, <2>6, <2>9 DEF AllRight
    <2>12. Once(l.buckets)
      BY <1>0, <2>1, <2>2, <2>6 DEF LoadOK, Once, Without
    <2>13. \A m \in DOMAIN models : Apart(models[m], l.buckets)
      BY <1>0, <2>1, <2>2, <2>6 DEF LoadOK, Apart
    <2>14. LoadOK(l, T)
      BY <2>3, <2>5, <2>7, <2>11, <2>12, <2>13 DEF LoadOK
    <2> QED  BY <2>5, <2>10, <2>14 DEF l, T
  <1> QED  BY <1>1, <1>2

-----------------------------------------------------------------------------
(* allocate_bucket and the copy.                                           *)

\* A load that is not idle has a model.
LEMMA DrawingFacts ==
    ASSUME ManagerInv, Drawing
    PROVE  /\ load.model \in Models
           /\ load.given \in Seq(Tensors)
           /\ \A k \in 0 .. CapacityBytes - 1 : Byte(k) \in Data
  <1>1. load # Idle /\ Len(load.given) < MaxTensors  BY DEF Drawing
  <1>2. load.model \in Models /\ load.given \in Seq(Tensors)
    BY <1>1 DEF ManagerInv, LoadOK, LoadRecord
  <1>3. Len(load.given) + 1 \in 1 .. MaxTensors
    BY <1>1, <1>2, ManagerAssumption
  <1> QED  BY <1>2, <1>3, ManagerAssumption DEF Byte

\* The copy puts the tensor's bytes into the pool and changes no others.
LEMMA CopyKeepsPool ==
    ASSUME ManagerInv, Drawing, NEW first \in Nat, NEW n \in Nat,
           pool' = Written(first, n, Byte)
    PROVE  pool' \in [0 .. CapacityBytes - 1 -> Data \cup {NoData}]
  <1>1. pool \in [0 .. CapacityBytes - 1 -> Data \cup {NoData}]  BY DEF ManagerInv, HostTypeOK
  <1>2. pool' = [i \in 0 .. CapacityBytes - 1 |->
                    IF i \in first .. first + n - 1 THEN Byte(i - first) ELSE pool[i]]
    BY <1>1 DEF Written
  <1>3. ASSUME NEW i \in 0 .. CapacityBytes - 1, i \in first .. first + n - 1
        PROVE  Byte(i - first) \in Data
    <2>1. i - first \in 0 .. CapacityBytes - 1  BY <1>3, HostMemAssumption
    <2> QED  BY <2>1, DrawingFacts
  <1> QED  BY <1>1, <1>2, <1>3

\* A bucket is cut, and filled with one tensor, beside a load that was flushed.
LEMMA NewBucket ==
    ASSUME ManagerInv, Drawing, NEW size \in Nat \ {0}, NEW t \in Tensors,
           OpenBucketAndCopy(size, t)
    PROVE  /\ HostTypeOK'
           /\ ModelsOK(allocations')
           /\ LoadOK(Flushed, allocations')
           /\ UNCHANGED <<models, rawPtr>>
           /\ nextBucketId \in Nat /\ nextOffset \in Nat
           /\ nextBucketId \in DOMAIN allocations'
           /\ allocations'[nextBucketId] =
                  [offset |-> nextOffset, capacity |-> AlignUp(size, Alignment), used |-> t.nbytes]
           /\ AlignUp(size, Alignment) \in Nat \ {0}
           /\ Without(Flushed.buckets, nextBucketId)
           /\ \A m \in DOMAIN models : Without(models[m], nextBucketId)
  <1> DEFINE T == FlushedTable
             n == nextBucketId
             c == AlignUp(size, Alignment)
             new == [offset |-> nextOffset, capacity |-> c, used |-> t.nbytes]
  <1>1. c \in Nat /\ c >= size  BY HostMemAssumption, AlignUpProperties
  <1> HIDE DEF c
  <1>2. n \in Nat /\ nextOffset \in Nat  BY DEF ManagerInv, HostTypeOK
  <1>3. /\ nextOffset + c <= CapacityBytes
        /\ nextOffset' = nextOffset + c
        /\ n' = n + 1
        /\ allocations' = With(T, n, new)
        /\ pool' = Written(nextOffset, t.nbytes, Byte)
        /\ UNCHANGED <<rawPtr, locked, models>>
    BY DEF OpenBucketAndCopy, HasRoom, Carve, c
  <1>4. new \in Allocation  BY <1>1, <1>2, TensorFacts DEF Allocation
  <1>5. /\ T \in [0 .. n - 1 -> Allocation] /\ DOMAIN T = 0 .. n - 1
    BY FlushedTableFacts
  <1> HIDE DEF T, new
  <1>6. DOMAIN T \cup {n} = 0 .. n  BY <1>2, <1>5
  <1>7. /\ allocations' \in [0 .. n -> Allocation]
        /\ DOMAIN allocations' = 0 .. n
        /\ allocations'[n] = new
        /\ \A b \in DOMAIN T : b \in DOMAIN allocations' /\ allocations'[b] = T[b] /\ b # n
    BY <1>2, <1>3, <1>4, <1>5, <1>6 DEF With
  <1>8. HostTypeOK'
    <2>1. n' - 1 = n  BY <1>2, <1>3
    <2>2. nextOffset' \in 0 .. CapacityBytes  BY <1>1, <1>2, <1>3, HostMemAssumption
    <2>3. pool' \in [0 .. CapacityBytes - 1 -> Data \cup {NoData}]
      BY <1>2, <1>3, TensorFacts, CopyKeepsPool
    <2> QED
      BY <1>2, <1>3, <1>7, <2>1, <2>2, <2>3 DEF ManagerInv, HostTypeOK, Allocation
  <1>9. ModelsOK(T) /\ LoadOK(Flushed, T) /\ Flushed.current = NoBucket
    BY FlushedOK DEF T
  <1>10. /\ \A m \in DOMAIN models : \A i \in DOMAIN models[m] : models[m][i].bucketId \in DOMAIN T
         /\ \A i \in DOMAIN Flushed.buckets : Flushed.buckets[i].bucketId \in DOMAIN T
    BY <1>9 DEF ModelsOK, LoadOK, AllRight, Right
  <1>11. ModelsOK(allocations')  BY <1>7, <1>9, <1>10, ModelsStay
  <1>12. LoadOK(Flushed, allocations')
    <2>1. AllRight(Flushed.buckets, T)  BY <1>9 DEF LoadOK
    <2>2. AllRight(Flushed.buckets, allocations')  BY <1>7, <1>10, <2>1, RightStays
    <2> QED  BY <1>9, <2>2 DEF LoadOK
  <1>13. /\ Without(Flushed.buckets, n)
         /\ \A m \in DOMAIN models : Without(models[m], n)
    BY <1>7, <1>10 DEF Without
  <1> QED
    BY <1>1, <1>2, <1>3, <1>7, <1>8, <1>11, <1>12, <1>13 DEF n, c, new

-----------------------------------------------------------------------------
(* The steps.                                                              *)

\* A load begins with nothing in it.
LEMMA BeginLoadInv ==
    ASSUME ManagerInv, NEW m \in Models, BeginLoad(m)
    PROVE  ManagerInv'
  <1>1. load' = Fresh(m) /\ UNCHANGED <<hostVars, models>>  BY DEF BeginLoad
  <1>2. HostTypeOK'  BY <1>1 DEF ManagerInv, HostTypeOK, hostVars
  <1>3. allocations' = allocations /\ UNCHANGED <<models, rawPtr>>  BY <1>1 DEF hostVars
  <1>4. /\ Fresh(m) \in LoadRecord /\ Fresh(m).model = m /\ Fresh(m).buckets = <<>>
        /\ Fresh(m).current = NoBucket
    BY EmptyIndex DEF Fresh, LoadRecord
  <1>5. m # NoModel  BY ManagerAssumption
  <1>6. LoadOK(Fresh(m), allocations)
    BY <1>4, <1>5 DEF LoadOK, AllRight, Once, Apart
  <1>7. ModelsOK(allocations)'  BY <1>3, ModelsPrime DEF ManagerInv
  <1>8. LoadOK(load, allocations)'  BY <1>1, <1>3, <1>6, LoadPrime
  <1> QED  BY <1>2, <1>7, <1>8 DEF ManagerInv

\* The bucket written is the open one, of which no metadata is listed yet.
LEMMA PackIntoCurrentInv ==
    ASSUME ManagerInv, NEW t \in Tensors, PackIntoCurrent(t)
    PROVE  ManagerInv'
  <1> DEFINE b == load.current
             o == load.offset
             entry == TensorMetadata(t, o)
             w == With(load.index, t.name, entry)
             l == [load EXCEPT !.given = Append(@, t), !.index = w, !.offset = o + t.nbytes]
  <1>1. /\ b # NoBucket
        /\ o + t.nbytes <= allocations[b].capacity
        /\ pool' = Written(allocations[b].offset + o, t.nbytes, Byte)
        /\ allocations' = [allocations EXCEPT ![b].used = IF @ >= o + t.nbytes THEN @ ELSE o + t.nbytes]
        /\ load' = l
        /\ UNCHANGED <<rawPtr, nextOffset, nextBucketId, locked, models>>
    BY DEF PackIntoCurrent, FitsCurrent
  <1>2. /\ load \in LoadRecord /\ o \in Nat /\ load.index \in Indexes
        /\ load.given \in Seq(Tensors)
        /\ b \in DOMAIN allocations
        /\ Without(load.buckets, b)
        /\ \A m \in DOMAIN models : Without(models[m], b)
        /\ Within(load.index, o)
        /\ load.model # NoModel
    <2>1. load # Idle  BY <1>1, IdleRecord
    <2> QED  BY <1>1, <2>1 DEF ManagerInv, LoadOK, LoadRecord
  <1>3. /\ allocations \in [0 .. nextBucketId - 1 -> Allocation]
        /\ allocations[b] \in Allocation
    BY <1>2 DEF ManagerInv, HostTypeOK, Allocation
  <1>4. t.nbytes \in Nat /\ entry \in TensorEntry /\ entry.offset = o /\ entry.nbytes = t.nbytes
        /\ t.name \in Names
    BY <1>2, TensorFacts
  <1>5. /\ allocations' \in [0 .. nextBucketId - 1 -> Allocation]
        /\ DOMAIN allocations' = DOMAIN allocations
        /\ \A k \in DOMAIN allocations : k # b => allocations'[k] = allocations[k]
    <2> DEFINE u == IF allocations[b].used >= o + t.nbytes THEN allocations[b].used ELSE o + t.nbytes
    <2>1. u \in Nat  BY <1>2, <1>3, <1>4 DEF Allocation
    <2>2. allocations' = [allocations EXCEPT ![b].used = u]  BY <1>1
    <2> HIDE DEF u
    <2> QED  BY <1>2, <1>3, <2>1, <2>2 DEF Allocation
  <1>6. HostTypeOK'
    <2>1. Drawing  BY DEF PackIntoCurrent
    <2>2. allocations[b].offset + o \in Nat  BY <1>2, <1>3 DEF Allocation
    <2>3. pool' \in [0 .. CapacityBytes - 1 -> Data \cup {NoData}]
      BY <1>1, <1>4, <2>1, <2>2, CopyKeepsPool
    <2> QED  BY <1>1, <1>5, <2>3 DEF ManagerInv, HostTypeOK, Allocation
  <1>7. w \in Indexes /\ \A n \in DOMAIN w : w[n] = entry \/ (n \in DOMAIN load.index /\ w[n] = load.index[n])
    BY <1>2, <1>4, WithIndex
  <1> HIDE DEF w, entry
  <1>8. /\ l \in LoadRecord /\ l.buckets = load.buckets /\ l.current = b
        /\ l.model = load.model /\ l.index = w /\ l.offset = o + t.nbytes
    <2>1. Append(load.given, t) \in Seq(Tensors)  BY <1>2
    <2>2. o + t.nbytes \in Nat  BY <1>2, <1>4
    <2> QED  BY <1>2, <1>7, <2>1, <2>2 DEF LoadRecord
  <1> HIDE DEF l
  <1>9. Within(l.index, l.offset)
    <2> SUFFICES ASSUME NEW n \in DOMAIN w
                 PROVE  w[n].offset + w[n].nbytes <= o + t.nbytes
      BY <1>8 DEF Within
    <2>1. CASE w[n] = entry  BY <1>2, <1>4, <2>1
    <2>2. CASE n \in DOMAIN load.index /\ w[n] = load.index[n]
      <3>1. load.index[n] \in TensorEntry  BY <1>2, <2>2, IndexEntry
      <3>2. load.index[n].offset + load.index[n].nbytes <= o  BY <1>2, <2>2 DEF Within
      <3> QED  BY <1>2, <1>4, <2>2, <3>1, <3>2 DEF TensorEntry
    <2> QED  BY <1>7, <2>1, <2>2
  <1>10. /\ \A m \in DOMAIN models : \A i \in DOMAIN models[m] :
               models[m][i].bucketId \in DOMAIN allocations /\ models[m][i].bucketId # b
         /\ \A i \in DOMAIN load.buckets :
               load.buckets[i].bucketId \in DOMAIN allocations /\ load.buckets[i].bucketId # b
    BY <1>2 DEF ManagerInv, ModelsOK, LoadOK, AllRight, Right, Without
  <1>11. ModelsOK(allocations')
    <2>1. \A m \in DOMAIN models : \A i \in DOMAIN models[m] :
              LET k == models[m][i].bucketId
              IN  k \in DOMAIN allocations' /\ allocations'[k] = allocations[k]
      BY <1>5, <1>10
    <2>2. ModelsOK(allocations)  BY DEF ManagerInv
    <2> HIDE DEF b
    <2> QED  BY <2>1, <2>2, ModelsStay
  <1>12. AllRight(load.buckets, allocations')
    BY <1>5, <1>10, RightStays DEF ManagerInv, LoadOK
  <1>13. LoadOK(l, allocations')
    BY <1>2, <1>5, <1>8, <1>9, <1>12 DEF ManagerInv, LoadOK
  <1>14. ModelsOK(allocations)'  BY <1>1, <1>11, ModelsPrime
  <1>15. LoadOK(load, allocations)'  BY <1>1, <1>13, LoadPrime
  <1> QED  BY <1>6, <1>14, <1>15 DEF ManagerInv

\* The new bucket is the open one afterwards.
LEMMA PackIntoNewInv ==
    ASSUME ManagerInv, NEW t \in Tensors, PackIntoNew(t)
    PROVE  ManagerInv'
  <1> DEFINE n == nextBucketId
             f == Flushed
             entry == TensorMetadata(t, 0)
             w == With(NoTensors, t.name, entry)
             l == [f EXCEPT !.given = Append(@, t), !.current = n, !.index = w, !.offset = t.nbytes]
  <1>1. Drawing /\ OpenBucketAndCopy(BucketSizeBytes, t) /\ load' = l
    BY DEF PackIntoNew
  <1>2. BucketSizeBytes \in Nat \ {0}  BY ManagerAssumption
  <1>3. /\ HostTypeOK' /\ ModelsOK(allocations') /\ LoadOK(f, allocations')
        /\ UNCHANGED <<models, rawPtr>>
        /\ n \in Nat /\ n \in DOMAIN allocations'
        /\ Without(f.buckets, n)
        /\ \A m \in DOMAIN models : Without(models[m], n)
    BY <1>1, <1>2, NewBucket
  <1>4. /\ entry \in TensorEntry /\ entry.offset = 0 /\ entry.nbytes = t.nbytes
        /\ t.nbytes \in Nat /\ t.name \in Names
    BY TensorFacts
  <1>5. w \in Indexes /\ \A k \in DOMAIN w : w[k] = entry
    BY <1>4, EmptyIndex, WithIndex
  <1>6. f \in LoadRecord /\ f.model = load.model /\ f.given = load.given
        /\ load.model \in Models /\ load.given \in Seq(Tensors)
    BY <1>1, <1>3, FlushedOK, DrawingFacts DEF LoadOK
  <1> HIDE DEF w, entry, f
  <1>7. /\ l \in LoadRecord /\ l.buckets = f.buckets /\ l.current = n /\ l.model = load.model
        /\ l.index = w /\ l.offset = t.nbytes
    <2>1. Append(f.given, t) \in Seq(Tensors)  BY <1>6
    <2> QED  BY <1>3, <1>4, <1>5, <1>6, <2>1 DEF LoadRecord
  <1> HIDE DEF l
  <1>8. Within(l.index, l.offset)  BY <1>4, <1>5, <1>7 DEF Within
  <1>9. l.model # NoModel  BY <1>6, <1>7, ManagerAssumption
  <1>10. LoadOK(l, allocations')  BY <1>3, <1>7, <1>8, <1>9 DEF LoadOK
  <1>11. ModelsOK(allocations)'  BY <1>3, ModelsPrime
  <1>12. LoadOK(load, allocations)'  BY <1>1, <1>3, <1>10, LoadPrime
  <1> QED  BY <1>3, <1>11, <1>12 DEF ManagerInv

\* The new bucket is listed with all it will ever hold.
LEMMA PackOversizeInv ==
    ASSUME ManagerInv, NEW t \in Tensors, PackOversize(t)
    PROVE  ManagerInv'
  <1> DEFINE n == nextBucketId
             f == Flushed
             a == AlignUp(t.nbytes, Alignment)
             base == PoolBase + nextOffset
             entry == TensorMetadata(t, 0)
             w == With(NoTensors, t.name, entry)
             c == [bucketId |-> n, base |-> base, capacity |-> a, used |-> t.nbytes, tensors |-> w]
             l == [f EXCEPT !.given = Append(@, t), !.buckets = Append(@, c)]
  <1>1. Drawing /\ OpenBucketAndCopy(t.nbytes, t) /\ load' = l
    BY DEF PackOversize
  <1>2. t.nbytes \in Nat \ {0}
    BY ManagerAssumption DEF PackOversize, Oversize
  <1>3. /\ HostTypeOK' /\ ModelsOK(allocations') /\ LoadOK(f, allocations')
        /\ UNCHANGED <<models, rawPtr>>
        /\ n \in Nat /\ nextOffset \in Nat /\ n \in DOMAIN allocations'
        /\ allocations'[n] = [offset |-> nextOffset, capacity |-> a, used |-> t.nbytes]
        /\ a \in Nat \ {0}
        /\ Without(f.buckets, n)
        /\ \A m \in DOMAIN models : Without(models[m], n)
    BY <1>1, <1>2, NewBucket
  <1>4. /\ entry \in TensorEntry /\ entry.offset = 0 /\ entry.nbytes = t.nbytes
        /\ t.name \in Names
    BY TensorFacts
  <1>5. w \in Indexes /\ \A k \in DOMAIN w : w[k] = entry
    BY <1>4, EmptyIndex, WithIndex
  <1>6. /\ f \in LoadRecord /\ f.model = load.model /\ f.given = load.given
        /\ f.current = NoBucket /\ f.buckets \in Seq(Bucket)
        /\ load.model \in Models /\ load.given \in Seq(Tensors)
    BY <1>1, <1>3, FlushedOK, DrawingFacts DEF LoadOK, LoadRecord
  <1>7. base \in Nat  BY <1>3, BaseIsNat DEF ManagerInv
  <1>8. /\ allocations'[n].offset = nextOffset /\ allocations'[n].capacity = a
        /\ allocations'[n].used = t.nbytes
    BY <1>3
  <1> HIDE DEF w, entry, f, a
  <1>9. c \in Bucket  BY <1>2, <1>3, <1>5, <1>7 DEF Bucket
  <1>10. /\ c.bucketId = n /\ c.base = base /\ c.capacity = a /\ c.used = t.nbytes
         /\ c.tensors = w
    OBVIOUS
  <1>11. Within(w, t.nbytes)  BY <1>2, <1>4, <1>5 DEF Within
  <1> HIDE DEF c
  <1>12. Right(c, allocations')
    BY <1>3, <1>8, <1>10, <1>11 DEF Right
  <1>13. /\ l.buckets = Append(f.buckets, c) /\ l.current = NoBucket /\ l.model = load.model
         /\ l \in LoadRecord
    <2>1. Append(f.given, t) \in Seq(Tensors)  BY <1>6
    <2>2. Append(f.buckets, c) \in Seq(Bucket)  BY <1>6, <1>9
    <2> QED  BY <1>6, <2>1, <2>2 DEF LoadRecord
  <1> HIDE DEF l
  <1>14. /\ DOMAIN l.buckets = 1 .. (Len(f.buckets) + 1)
         /\ Len(f.buckets) \in Nat /\ DOMAIN f.buckets = 1 .. Len(f.buckets)
         /\ l.buckets[Len(f.buckets) + 1] = c
         /\ \A i \in DOMAIN f.buckets : l.buckets[i] = f.buckets[i]
         /\ \A i \in DOMAIN l.buckets : i = Len(f.buckets) + 1 \/ i \in DOMAIN f.buckets
    BY <1>6, <1>9, <1>13, AppendTo
  <1>15. AllRight(l.buckets, allocations')
    BY <1>3, <1>12, <1>14 DEF LoadOK, AllRight
  <1>16. Once(l.buckets)
    <2>1. Once(f.buckets)  BY <1>3 DEF LoadOK
    <2>2. \A i \in DOMAIN f.buckets : f.buckets[i].bucketId # n  BY <1>3 DEF Without
    <2>3. \A i \in DOMAIN f.buckets : l.buckets[i].bucketId = f.buckets[i].bucketId
      BY <1>14
    <2>4. l.buckets[Len(f.buckets) + 1].bucketId = n  BY <1>10, <1>14
    <2> HIDE DEF n
    <2> QED  BY <1>14, <2>1, <2>2, <2>3, <2>4 DEF Once
  <1>17. \A m \in DOMAIN models : Apart(models[m], l.buckets)
    BY <1>3, <1>10, <1>14 DEF LoadOK, Apart
  <1>18. l.model # NoModel  BY <1>6, <1>13, ManagerAssumption
  <1>19. LoadOK(l, allocations')
    BY <1>13, <1>15, <1>16, <1>17, <1>18 DEF LoadOK
  <1>20. ModelsOK(allocations)'  BY <1>3, ModelsPrime
  <1>21. LoadOK(load, allocations)'  BY <1>1, <1>3, <1>19, LoadPrime
  <1> QED  BY <1>3, <1>20, <1>21 DEF ManagerInv

\* The load is given up; its buckets stay in the table and in no list.
LEMMA GiveUpInv ==
    ASSUME ManagerInv, SourceFails \/ \E t \in Tensors : PoolExhausted(t)
    PROVE  ManagerInv'
  <1>1. /\ allocations' \in {allocations, FlushedTable} /\ load' = Idle
        /\ UNCHANGED <<rawPtr, nextOffset, nextBucketId, pool, locked, models>>
    BY DEF SourceFails, PoolExhausted, hostVars
  <1>2. HostTypeOK'
    BY <1>1, FlushedTableFacts DEF ManagerInv, HostTypeOK, Allocation
  <1>3. ModelsOK(allocations')  BY <1>1, FlushedOK DEF ManagerInv
  <1>4. LoadOK(Idle, allocations')
    BY IdleRecord DEF LoadOK, AllRight, Once, Apart
  <1>5. ModelsOK(allocations)'  BY <1>1, <1>3, ModelsPrime
  <1>6. LoadOK(load, allocations)'  BY <1>1, <1>4, LoadPrime
  <1> QED  BY <1>2, <1>5, <1>6 DEF ManagerInv

\* The list of the load becomes the list of its model.
LEMMA PublishInv ==
    ASSUME ManagerInv, Publish
    PROVE  ManagerInv'
  <1> DEFINE f == Flushed
             T == FlushedTable
             p == load.model
  <1>1. /\ load # Idle /\ allocations' = T /\ load' = Idle
        /\ models' = With(models, p, f.buckets)
        /\ UNCHANGED <<rawPtr, nextOffset, nextBucketId, pool, locked>>
    BY DEF Publish
  <1>2. HostTypeOK'
    BY <1>1, FlushedTableFacts DEF ManagerInv, HostTypeOK, Allocation
  <1>3. ModelsOK(T) /\ LoadOK(f, T) /\ f.model = p  BY FlushedOK
  <1>4. p \in Models  BY <1>1 DEF ManagerInv, LoadOK, LoadRecord
  <1>5. f.buckets \in Seq(Bucket)  BY <1>3 DEF LoadOK, LoadRecord
  <1>6. UNCHANGED PoolBase  BY <1>1 DEF PoolBase
  <1> HIDE DEF f, T
  <1>7. /\ DOMAIN models' = DOMAIN models \cup {p}
        /\ models'[p] = f.buckets
        /\ \A m \in DOMAIN models : m # p => models'[m] = models[m]
    BY <1>1 DEF With
  <1>8. \A s : AllRight(s, allocations)' <=> AllRight(s, T)
    BY <1>1, <1>6 DEF AllRight, Right
  <1>9. \A m \in DOMAIN models' :
           models'[m] \in Seq(Bucket) /\ AllRight(models'[m], T) /\ Once(models'[m])
    BY <1>3, <1>5, <1>7 DEF ModelsOK, LoadOK
  <1>10. \A m, n \in DOMAIN models' : m # n => Apart(models'[m], models'[n])
    <2> SUFFICES ASSUME NEW m \in DOMAIN models', NEW n \in DOMAIN models', m # n
                 PROVE  Apart(models'[m], models'[n])
      OBVIOUS
    <2>1. CASE m = p
      <3>1. n \in DOMAIN models /\ models'[n] = models[n]  BY <1>7, <2>1
      <3>2. Apart(models[n], f.buckets)  BY <1>3, <3>1 DEF LoadOK
      <3>3. Apart(f.buckets, models[n])  BY <3>2 DEF Apart, Without
      <3> QED  BY <1>7, <2>1, <3>1, <3>3
    <2>2. CASE n = p
      <3>1. m \in DOMAIN models /\ models'[m] = models[m]  BY <1>7, <2>2
      <3> QED  BY <1>3, <1>7, <2>2, <3>1 DEF LoadOK
    <2>3. CASE m # p /\ n # p
      BY <1>3, <1>7, <2>3 DEF ModelsOK
    <2> QED  BY <2>1, <2>2, <2>3
  <1>11. DOMAIN models' \subseteq Models  BY <1>3, <1>4, <1>7 DEF ModelsOK
  <1>12. ModelsOK(allocations)'
    <2>1. \A m \in DOMAIN models' :
             models'[m] \in Seq(Bucket) /\ AllRight(models[m], allocations)' /\ Once(models[m])'
      BY <1>8, <1>9 DEF Once, AllRight, Right
    <2>2. \A m, n \in DOMAIN models' : m # n => Apart(models[m], models[n])'
      BY <1>10 DEF Apart, Without
    <2> QED  BY <1>11, <2>1, <2>2 DEF ModelsOK
  <1>13. LoadOK(load, allocations)'
    BY <1>1, IdleRecord DEF LoadOK, AllRight, Once, Apart
  <1> QED  BY <1>2, <1>12, <1>13 DEF ManagerInv

\* Every step, and a stutter, keeps the invariant.
LEMMA ManagerNextInv == ManagerInv /\ [ManagerNext]_managerVars => ManagerInv'
  <1> SUFFICES ASSUME ManagerInv, [ManagerNext]_managerVars PROVE ManagerInv'  OBVIOUS
  <1>1. CASE UNCHANGED managerVars
    <2>1. UNCHANGED <<rawPtr, nextOffset, nextBucketId, allocations, pool, locked, models, load>>
      BY <1>1 DEF managerVars
    <2>2. HostTypeOK'  BY <2>1 DEF ManagerInv, HostTypeOK
    <2>3. ModelsOK(allocations)'  BY <2>1, ModelsPrime DEF ManagerInv
    <2>4. LoadOK(load, allocations)'  BY <2>1, LoadPrime DEF ManagerInv
    <2> QED  BY <2>2, <2>3, <2>4 DEF ManagerInv
  <1>2. CASE ManagerNext
    BY <1>2, BeginLoadInv, PackIntoCurrentInv, PackIntoNewInv, PackOversizeInv, GiveUpInv, PublishInv
    DEF ManagerNext
  <1> QED  BY <1>1, <1>2

-----------------------------------------------------------------------------
(* What follows.                                                           *)

\* What is listed is right and listed once, through any sequence of loads of
\* model_manager.py.
THEOREM ManagerInductiveInvariant == ManagerSpec => []ManagerInv
  BY ManagerInitInv, ManagerNextInv, PTL DEF ManagerSpec

\* The fields of the pool and of the manager keep their types.
THEOREM ManagerTypeCorrect == ManagerSpec => []ManagerTypeOK
  <1>1. ManagerInv => ManagerTypeOK
    <2> SUFFICES ASSUME ManagerInv PROVE ManagerTypeOK  OBVIOUS
    <2>0. DOMAIN allocations = 0 .. nextBucketId - 1  BY DEF ManagerInv, HostTypeOK
    <2>1. ASSUME NEW c \in Bucket, Right(c, allocations)  PROVE IsBucketMetadata(c)
      <3>1. \A name \in DOMAIN c.tensors : c.tensors[name] \in TensorEntry
        BY IndexEntry DEF Bucket
      <3> QED  BY <2>0, <2>1, <3>1 DEF Right, IsBucketMetadata, Bucket, TensorEntry
    <2>2. \A m \in DOMAIN models : \A i \in DOMAIN models[m] : IsBucketMetadata(models[m][i])
      <3> SUFFICES ASSUME NEW m \in DOMAIN models, NEW i \in DOMAIN models[m]
                   PROVE  IsBucketMetadata(models[m][i])
        OBVIOUS
      <3>1. models[m] \in Seq(Bucket) /\ Right(models[m][i], allocations)
        BY DEF ManagerInv, ModelsOK, AllRight
      <3>2. models[m][i] \in Bucket  BY <3>1
      <3> QED  BY <2>1, <3>1, <3>2
    <2>3. \A i \in DOMAIN load.buckets : IsBucketMetadata(load.buckets[i])
      <3> SUFFICES ASSUME NEW i \in DOMAIN load.buckets
                   PROVE  IsBucketMetadata(load.buckets[i])
        OBVIOUS
      <3>1. load.buckets \in Seq(Bucket) /\ Right(load.buckets[i], allocations)
        BY DEF ManagerInv, LoadOK, LoadRecord, AllRight
      <3>2. load.buckets[i] \in Bucket  BY <3>1
      <3> QED  BY <2>1, <3>1, <3>2
    <2>4. /\ load.model \in Models \cup {NoModel} /\ load.given \in Seq(Tensors)
          /\ load.current \in {NoBucket} \cup 0 .. nextBucketId - 1 /\ load.offset \in Nat
      BY <2>0 DEF ManagerInv, LoadOK, LoadRecord
    <2> QED  BY <2>2, <2>3, <2>4 DEF ManagerInv, ModelsOK, ManagerTypeOK
  <1> QED  BY <1>1, ManagerInductiveInvariant, PTL

\* The metadata that receive_weights of client.py is given agrees with the table that
\* load_model of server.py registers from.
THEOREM AdvertisedRight == ManagerSpec => []AdvertisedIsAllocated
  <1>1. ManagerInv => AdvertisedIsAllocated
    BY DEF ManagerInv, ModelsOK, AllRight, Right, Within, AdvertisedIsAllocated, BasePtr
  <1> QED  BY <1>1, ManagerInductiveInvariant, PTL

\* No bucket is in two places, and the open one is in no list.
THEOREM OwnedOnce == ManagerSpec => []BucketsOwnedOnce
  <1>1. ManagerInv => BucketsOwnedOnce
    <2> SUFFICES ASSUME ManagerInv, NEW x \in Listed, NEW y \in Listed, x[3] = y[3]
                 PROVE  x = y
      BY DEF BucketsOwnedOnce
    <2> DEFINE InModel(z) == \E m \in DOMAIN models : \E i \in DOMAIN models[m] :
                                 z = <<m, i, models[m][i].bucketId>>
               InLoad(z) == \E i \in DOMAIN load.buckets :
                                 z = <<NoModel, i, load.buckets[i].bucketId>>
               Open(z) == load.current # NoBucket /\ z = <<NoModel, 0, load.current>>
    <2>1. \A z \in Listed : InModel(z) \/ InLoad(z) \/ Open(z)  BY DEF Listed
    <2>2. ModelsOK(allocations) /\ LoadOK(load, allocations)  BY DEF ManagerInv
    <2>3. CASE InModel(x) /\ InModel(y)
      BY <2>2, <2>3 DEF ModelsOK, Once, Apart, Without
    <2>4. CASE InLoad(x) /\ InLoad(y)
      BY <2>2, <2>4 DEF LoadOK, Once
    <2>5. CASE Open(x) /\ Open(y)
      BY <2>5
    <2>6. ~(InModel(x) /\ InLoad(y)) /\ ~(InModel(y) /\ InLoad(x))
      BY <2>2 DEF LoadOK, Apart, Without
    <2>7. ~(InModel(x) /\ Open(y)) /\ ~(InModel(y) /\ Open(x))
      BY <2>2 DEF LoadOK, Without
    <2>8. ~(InLoad(x) /\ Open(y)) /\ ~(InLoad(y) /\ Open(x))
      BY <2>2 DEF LoadOK, Without
    <2> QED  BY <2>1, <2>3, <2>4, <2>5, <2>6, <2>7, <2>8
  <1> QED  BY <1>1, ManagerInductiveInvariant, PTL

-----------------------------------------------------------------------------
(* Where the bytes of a load go.                                           *)

\* Buckets lie apart, in the order of their ids, and hold what they use.
Placed ==
    /\ \A b \in DOMAIN allocations :
           /\ BucketEnd(b) <= nextOffset
           /\ allocations[b].used <= allocations[b].capacity
    /\ \A b, c \in DOMAIN allocations : b < c => BucketEnd(b) <= allocations[c].offset

\* The table knows of the open bucket what the load does.
OpenUsedRight ==
    load.current # NoBucket => allocations[load.current].used = load.offset

SpaceInv == ManagerInv /\ Placed /\ OpenUsedRight

InUse(b, k) ==
    /\ allocations[b].offset <= k
    /\ k < allocations[b].offset + allocations[b].used

\* A step of a load leaves every byte that a bucket uses as it was.
UsedBytesStay ==
    \A b \in DOMAIN allocations, k \in 0 .. CapacityBytes - 1 :
        InUse(b, k) => pool'[k] = pool[k]

\* The types of the table, one field at a time.
LEMMA TableFacts ==
    ASSUME ManagerInv
    PROVE  /\ DOMAIN allocations = 0 .. nextBucketId - 1
           /\ nextBucketId \in Nat /\ nextOffset \in Nat /\ nextOffset <= CapacityBytes
           /\ allocations \in [0 .. nextBucketId - 1 -> Allocation]
           /\ \A b \in DOMAIN allocations :
                  /\ b \in Nat
                  /\ allocations[b].offset \in Nat
                  /\ allocations[b].capacity \in Nat
                  /\ allocations[b].used \in Nat
  <1>1. allocations \in [0 .. nextBucketId - 1 -> Allocation]
    BY DEF ManagerInv, HostTypeOK, Allocation
  <1>2. \A b \in DOMAIN allocations : allocations[b] \in Allocation
    BY <1>1
  <1>3. nextBucketId \in Nat /\ nextOffset \in Nat /\ nextOffset <= CapacityBytes
    BY HostMemAssumption DEF ManagerInv, HostTypeOK
  <1> QED  BY <1>1, <1>2, <1>3 DEF Allocation

\* Flushing tells the table nothing new.
LEMMA FlushChangesNothing ==
    ASSUME SpaceInv
    PROVE  FlushedTable = allocations
  <1>1. CASE load.current = NoBucket  BY <1>1 DEF FlushedTable
  <1>2. CASE load.current # NoBucket
    <2> DEFINE b == load.current
    <2>1. b \in DOMAIN allocations  BY <1>2 DEF SpaceInv, ManagerInv, LoadOK
    <2>2. allocations[b] \in Allocation /\ allocations[b].used = load.offset
      BY <1>2, <2>1, TableFacts DEF SpaceInv, OpenUsedRight
    <2>3. [allocations[b] EXCEPT !.used = load.offset] = allocations[b]
      BY <2>2 DEF Allocation
    <2>4. FlushedTable = [allocations EXCEPT ![b] = [allocations[b] EXCEPT !.used = load.offset]]
      BY <1>2 DEF FlushedTable
    <2>5. allocations \in [0 .. nextBucketId - 1 -> Allocation]
      BY TableFacts DEF SpaceInv
    <2> QED  BY <2>3, <2>4, <2>5
  <1> QED  BY <1>1, <1>2

\* What a copy of n bytes to pool offset `first` leaves there.
LEMMA CopyFacts ==
    ASSUME ManagerInv, NEW first \in Nat, NEW n \in Nat, first + n <= CapacityBytes,
           pool' = Written(first, n, Byte)
    PROVE  /\ \A k \in 0 .. CapacityBytes - 1 :
                  ~ (first <= k /\ k < first + n) => pool'[k] = pool[k]
           /\ \A k \in 0 .. n - 1 :
                  /\ first + k \in 0 .. CapacityBytes - 1
                  /\ pool'[first + k] = Byte(k)
  <1>1. DOMAIN pool = 0 .. CapacityBytes - 1 /\ CapacityBytes \in Nat
    BY HostMemAssumption DEF ManagerInv, HostTypeOK
  <1>2. pool' = [i \in 0 .. CapacityBytes - 1 |->
                    IF i \in first .. first + n - 1 THEN Byte(i - first) ELSE pool[i]]
    BY <1>1 DEF Written
  <1>3. \A k \in 0 .. CapacityBytes - 1 :
            ~ (first <= k /\ k < first + n) => pool'[k] = pool[k]
    BY <1>1, <1>2
  <1>4. ASSUME NEW k \in 0 .. n - 1
        PROVE  first + k \in 0 .. CapacityBytes - 1 /\ pool'[first + k] = Byte(k)
    <2>1. /\ first + k \in 0 .. CapacityBytes - 1
          /\ first + k \in first .. first + n - 1
          /\ (first + k) - first = k
      BY <1>1
    <2> QED  BY <1>2, <2>1
  <1> QED  BY <1>3, <1>4

\* A tensor that fits the open bucket lands past what every bucket uses.
LEMMA CurrentIsFresh ==
    ASSUME SpaceInv, NEW t \in Tensors, PackIntoCurrent(t)
    PROVE  LET b     == load.current
               first == allocations[b].offset + load.offset
           IN  /\ UsedBytesStay
               /\ \A k \in 0 .. CapacityBytes - 1 :
                      ~ (first <= k /\ k < first + t.nbytes) => pool'[k] = pool[k]
               /\ \A k \in 0 .. t.nbytes - 1 : pool'[first + k] = Byte(k)
  <1> DEFINE b == load.current
             o == load.offset
             first == allocations[b].offset + o
  <1>1. /\ b # NoBucket
        /\ o + t.nbytes <= allocations[b].capacity
        /\ pool' = Written(first, t.nbytes, Byte)
    BY DEF PackIntoCurrent, FitsCurrent
  <1>2. /\ b \in DOMAIN allocations /\ o \in Nat /\ t.nbytes \in Nat
        /\ allocations[b].used = o
    BY <1>1, TensorFacts DEF SpaceInv, ManagerInv, LoadOK, LoadRecord, OpenUsedRight
  <1>3. /\ DOMAIN allocations = 0 .. nextBucketId - 1
        /\ nextOffset \in Nat /\ nextOffset <= CapacityBytes /\ CapacityBytes \in Nat
        /\ \A c \in DOMAIN allocations :
               /\ c \in Nat
               /\ allocations[c].offset \in Nat
               /\ allocations[c].capacity \in Nat
               /\ allocations[c].used \in Nat
    BY TableFacts, HostMemAssumption DEF SpaceInv
  <1>4. /\ allocations[b].offset + allocations[b].capacity <= nextOffset
        /\ \A c \in DOMAIN allocations : allocations[c].used <= allocations[c].capacity
        /\ \A c \in DOMAIN allocations :
               c < b => allocations[c].offset + allocations[c].capacity <= allocations[b].offset
        /\ \A c \in DOMAIN allocations :
               b < c => allocations[b].offset + allocations[b].capacity <= allocations[c].offset
    BY <1>2 DEF SpaceInv, Placed, BucketEnd
  <1>5. first \in Nat /\ first + t.nbytes <= CapacityBytes
    BY <1>1, <1>2, <1>3, <1>4
  <1>6. /\ \A k \in 0 .. CapacityBytes - 1 :
               ~ (first <= k /\ k < first + t.nbytes) => pool'[k] = pool[k]
        /\ \A k \in 0 .. t.nbytes - 1 : pool'[first + k] = Byte(k)
    BY <1>1, <1>2, <1>5, CopyFacts DEF SpaceInv
  <1>7. ASSUME NEW c \in DOMAIN allocations, NEW k \in 0 .. CapacityBytes - 1,
               InUse(c, k), first <= k, k < first + t.nbytes
        PROVE  FALSE
    <2>1. allocations[c].offset <= k /\ k < allocations[c].offset + allocations[c].used
      BY <1>7 DEF InUse
    <2>2. /\ c \in Nat /\ b \in Nat /\ allocations[c].offset \in Nat
          /\ allocations[b].offset \in Nat
          /\ allocations[c].used \in Nat /\ allocations[c].capacity \in Nat
          /\ allocations[c].used <= allocations[c].capacity
      BY <1>2, <1>3, <1>4
    <2>3. allocations[b].offset + o <= k /\ k < allocations[b].offset + o + t.nbytes
      BY <1>2, <1>7, <2>2
    <2> HIDE DEF b, o, first
    <2>4. CASE c = b  BY <1>2, <2>1, <2>2, <2>3, <2>4
    <2>5. CASE c < b
      <3>1. allocations[c].offset + allocations[c].capacity <= allocations[b].offset
        BY <1>4, <2>5
      <3> QED  BY <1>2, <2>1, <2>2, <2>3, <3>1
    <2>6. CASE b < c
      <3>1. allocations[b].offset + allocations[b].capacity <= allocations[c].offset
        BY <1>4, <2>6
      <3> QED  BY <1>1, <1>2, <1>3, <2>1, <2>2, <2>3, <3>1, SMTT(30)
    <2> QED  BY <2>2, <2>4, <2>5, <2>6
  <1> QED  BY <1>6, <1>7 DEF UsedBytesStay

\* A tensor that opens a bucket lands past the frontier.
LEMMA NewIsFresh ==
    ASSUME SpaceInv, NEW size \in Nat \ {0}, NEW t \in Tensors, OpenBucketAndCopy(size, t)
    PROVE  /\ UsedBytesStay
           /\ \A k \in 0 .. CapacityBytes - 1 :
                  ~ (nextOffset <= k /\ k < nextOffset + t.nbytes) => pool'[k] = pool[k]
           /\ \A k \in 0 .. t.nbytes - 1 : pool'[nextOffset + k] = Byte(k)
           /\ DOMAIN allocations' = 0 .. nextBucketId
           /\ \A b \in DOMAIN allocations : b # nextBucketId /\ allocations'[b] = allocations[b]
           /\ allocations'[nextBucketId].offset = nextOffset
           /\ allocations'[nextBucketId].capacity = AlignUp(size, Alignment)
           /\ allocations'[nextBucketId].used = t.nbytes
           /\ nextOffset' = nextOffset + AlignUp(size, Alignment)
           /\ AlignUp(size, Alignment) \in Nat
           /\ t.nbytes <= AlignUp(size, Alignment)
  <1> DEFINE a == AlignUp(size, Alignment)
             new == [offset |-> nextOffset, capacity |-> a, used |-> t.nbytes]
  <1>1. a \in Nat  BY HostMemAssumption, AlignUpProperties
  <1>2. FlushedTable = allocations  BY FlushChangesNothing
  <1>3. /\ nextOffset + a <= CapacityBytes
        /\ t.nbytes <= a
        /\ nextOffset' = nextOffset + a
        /\ allocations' = With(allocations, nextBucketId, new)
        /\ pool' = Written(nextOffset, t.nbytes, Byte)
    BY <1>2 DEF OpenBucketAndCopy, HasRoom, Carve
  <1> HIDE DEF a
  <1>4. /\ DOMAIN allocations = 0 .. nextBucketId - 1
        /\ nextOffset \in Nat /\ CapacityBytes \in Nat /\ nextBucketId \in Nat
        /\ \A c \in DOMAIN allocations :
               /\ c \in Nat
               /\ allocations[c].offset \in Nat
               /\ allocations[c].capacity \in Nat
               /\ allocations[c].used \in Nat
    BY TableFacts, HostMemAssumption DEF SpaceInv
  <1>5. \A c \in DOMAIN allocations :
            /\ allocations[c].used <= allocations[c].capacity
            /\ allocations[c].offset + allocations[c].capacity <= nextOffset
    BY DEF SpaceInv, Placed, BucketEnd
  <1>6. t.nbytes \in Nat /\ nextOffset + t.nbytes <= CapacityBytes
    BY <1>1, <1>3, <1>4, TensorFacts
  <1>7. /\ \A k \in 0 .. CapacityBytes - 1 :
               ~ (nextOffset <= k /\ k < nextOffset + t.nbytes) => pool'[k] = pool[k]
        /\ \A k \in 0 .. t.nbytes - 1 : pool'[nextOffset + k] = Byte(k)
    BY <1>3, <1>4, <1>6, CopyFacts DEF SpaceInv
  <1>8. UsedBytesStay
    <2> SUFFICES ASSUME NEW c \in DOMAIN allocations, NEW k \in 0 .. CapacityBytes - 1, InUse(c, k)
                 PROVE  pool'[k] = pool[k]
      BY DEF UsedBytesStay
    <2>1. k < allocations[c].offset + allocations[c].used  BY DEF InUse
    <2>2. k < nextOffset  BY <1>4, <1>5, <2>1
    <2> QED  BY <1>7, <2>2, <1>4
  <1>9. /\ DOMAIN allocations' = 0 .. nextBucketId
        /\ \A b \in DOMAIN allocations : b # nextBucketId /\ allocations'[b] = allocations[b]
        /\ allocations'[nextBucketId] = new
    BY <1>3, <1>4 DEF With
  <1>10. /\ allocations'[nextBucketId].offset = nextOffset
         /\ allocations'[nextBucketId].capacity = a
         /\ allocations'[nextBucketId].used = t.nbytes
    BY <1>9
  <1> QED  BY <1>1, <1>3, <1>7, <1>8, <1>9, <1>10 DEF a

-----------------------------------------------------------------------------
(* The locals of the load after each step.                                 *)

\* A tensor appended to the open bucket.
LEMMA AfterCurrent ==
    ASSUME ManagerInv, NEW t \in Tensors, PackIntoCurrent(t)
    PROVE  /\ load'.model = load.model
           /\ load'.given = Append(load.given, t)
           /\ load'.buckets = load.buckets
           /\ load'.current = load.current
           /\ load'.index = With(load.index, t.name, TensorMetadata(t, load.offset))
           /\ load'.offset = load.offset + t.nbytes
  <1>1. load \in LoadRecord  BY DEF ManagerInv, LoadOK
  <1>2. load' = [load EXCEPT !.given = Append(@, t),
                             !.index = With(@, t.name, TensorMetadata(t, load.offset)),
                             !.offset = @ + t.nbytes]
    BY DEF PackIntoCurrent
  <1> QED  BY <1>1, <1>2 DEF LoadRecord

\* A tensor at the head of a bucket that stays open.
LEMMA AfterNew ==
    ASSUME ManagerInv, NEW t \in Tensors, PackIntoNew(t)
    PROVE  /\ load'.model = load.model
           /\ load'.given = Append(load.given, t)
           /\ load'.buckets = Flushed.buckets
           /\ load'.current = nextBucketId
           /\ load'.index = With(NoTensors, t.name, TensorMetadata(t, 0))
           /\ load'.offset = t.nbytes
  <1>1. Flushed \in LoadRecord /\ Flushed.given = load.given /\ Flushed.model = load.model
    BY FlushedOK DEF LoadOK
  <1>2. load' = [Flushed EXCEPT !.given = Append(@, t),
                                !.current = nextBucketId,
                                !.index = With(NoTensors, t.name, TensorMetadata(t, 0)),
                                !.offset = t.nbytes]
    BY DEF PackIntoNew
  <1> QED  BY <1>1, <1>2 DEF LoadRecord

\* The bucket of an oversize tensor.
OversizeBucket(t) ==
    [bucketId |-> nextBucketId,
     base     |-> PoolBase + nextOffset,
     capacity |-> AlignUp(t.nbytes, Alignment),
     used     |-> t.nbytes,
     tensors  |-> With(NoTensors, t.name, TensorMetadata(t, 0))]

\* A tensor in a bucket of its own, listed at once.
LEMMA AfterOversize ==
    ASSUME ManagerInv, NEW t \in Tensors, PackOversize(t)
    PROVE  /\ load'.model = load.model
           /\ load'.given = Append(load.given, t)
           /\ load'.buckets = Append(Flushed.buckets, OversizeBucket(t))
           /\ load'.current = NoBucket
  <1>1. /\ Flushed \in LoadRecord /\ Flushed.given = load.given /\ Flushed.model = load.model
        /\ Flushed.current = NoBucket
    BY FlushedOK DEF LoadOK
  <1>2. load' = [Flushed EXCEPT !.given = Append(@, t),
                                !.buckets = Append(@, OversizeBucket(t))]
    BY DEF PackOversize, OversizeBucket
  <1> QED  BY <1>1, <1>2 DEF LoadRecord

-----------------------------------------------------------------------------
(* Buckets stay apart.                                                     *)

\* Appending moves the used edge of the open bucket and nothing else in the table.
LEMMA CurrentKeepsPlaced ==
    ASSUME SpaceInv, NEW t \in Tensors, PackIntoCurrent(t)
    PROVE  /\ DOMAIN allocations' = DOMAIN allocations
           /\ \A c \in DOMAIN allocations :
                  /\ allocations'[c].offset = allocations[c].offset
                  /\ allocations'[c].capacity = allocations[c].capacity
                  /\ c # load.current => allocations'[c].used = allocations[c].used
           /\ allocations'[load.current].used = load.offset + t.nbytes
           /\ load.offset + t.nbytes <= allocations[load.current].capacity
           /\ load.current \in DOMAIN allocations
           /\ nextOffset' = nextOffset
  <1> DEFINE b == load.current
  <1>1. /\ b # NoBucket
        /\ load.offset + t.nbytes <= allocations[b].capacity
        /\ allocations' = [allocations EXCEPT ![b].used =
                               IF @ >= load.offset + t.nbytes THEN @ ELSE load.offset + t.nbytes]
        /\ nextOffset' = nextOffset
    BY DEF PackIntoCurrent, FitsCurrent
  <1>2. /\ b \in DOMAIN allocations /\ load.offset \in Nat /\ t.nbytes \in Nat
        /\ allocations[b].used = load.offset
    BY <1>1, TensorFacts DEF SpaceInv, ManagerInv, LoadOK, LoadRecord, OpenUsedRight
  <1>3. /\ allocations \in [0 .. nextBucketId - 1 -> Allocation]
        /\ allocations[b] \in Allocation
    BY <1>2, TableFacts DEF SpaceInv
  <1>4. allocations' = [allocations EXCEPT ![b] = [allocations[b] EXCEPT !.used = load.offset + t.nbytes]]
    <2> DEFINE u == IF allocations[b].used >= load.offset + t.nbytes
                    THEN allocations[b].used ELSE load.offset + t.nbytes
    <2>1. u = load.offset + t.nbytes  BY <1>2
    <2>2. allocations' = [allocations EXCEPT ![b] = [allocations[b] EXCEPT !.used = u]]  BY <1>1
    <2> HIDE DEF u
    <2> QED  BY <2>1, <2>2
  <1> HIDE DEF b
  <1>5. /\ DOMAIN allocations' = DOMAIN allocations
        /\ allocations'[b] = [allocations[b] EXCEPT !.used = load.offset + t.nbytes]
        /\ \A c \in DOMAIN allocations : c # b => allocations'[c] = allocations[c]
    BY <1>2, <1>3, <1>4
  <1>6. /\ allocations'[b].offset = allocations[b].offset
        /\ allocations'[b].capacity = allocations[b].capacity
        /\ allocations'[b].used = load.offset + t.nbytes
    BY <1>3, <1>5 DEF Allocation
  <1> QED  BY <1>1, <1>2, <1>5, <1>6 DEF b

\* The open bucket has room for what was appended.
LEMMA PlacedAfterCurrent ==
    ASSUME SpaceInv, NEW t \in Tensors, PackIntoCurrent(t)
    PROVE  Placed' /\ OpenUsedRight'
  <1>1. OpenUsedRight'
    BY CurrentKeepsPlaced, AfterCurrent DEF SpaceInv, OpenUsedRight
  <1>2. \A c \in DOMAIN allocations : BucketEnd(c)' = BucketEnd(c)
    BY CurrentKeepsPlaced DEF BucketEnd
  <1>3. \A c \in DOMAIN allocations : allocations'[c].used <= allocations'[c].capacity
    BY CurrentKeepsPlaced DEF SpaceInv, Placed
  <1>4. Placed'
    <2>1. \A c \in DOMAIN allocations' : BucketEnd(c)' <= nextOffset' /\ (allocations[c].used <= allocations[c].capacity)'
      BY <1>2, <1>3, CurrentKeepsPlaced DEF SpaceInv, Placed
    <2>2. \A c, d \in DOMAIN allocations' : c < d => BucketEnd(c)' <= allocations'[d].offset
      BY <1>2, CurrentKeepsPlaced DEF SpaceInv, Placed
    <2> QED  BY <2>1, <2>2 DEF Placed
  <1> QED  BY <1>1, <1>4

\* A new bucket begins where all others have ended.
LEMMA PlacedAfterNew ==
    ASSUME SpaceInv, NEW size \in Nat \ {0}, NEW t \in Tensors, OpenBucketAndCopy(size, t)
    PROVE  Placed'
  <1> DEFINE n == nextBucketId
  <1>1. DOMAIN allocations = 0 .. n - 1 /\ n \in Nat /\ nextOffset \in Nat
    BY TableFacts DEF SpaceInv
  <1>2. /\ DOMAIN allocations' = 0 .. n
        /\ \A c \in DOMAIN allocations : c # n /\ allocations'[c] = allocations[c]
        /\ allocations'[n].offset = nextOffset
        /\ nextOffset' = nextOffset + allocations'[n].capacity
        /\ allocations'[n].capacity \in Nat
        /\ allocations'[n].used <= allocations'[n].capacity
    BY NewIsFresh
  <1>3. \A c \in DOMAIN allocations :
            BucketEnd(c)' = BucketEnd(c) /\ BucketEnd(c) <= nextOffset /\ BucketEnd(c) \in Nat
    BY <1>2, TableFacts DEF BucketEnd, SpaceInv, Placed
  <1> HIDE DEF n
  <1>4. ASSUME NEW c \in DOMAIN allocations'
        PROVE  BucketEnd(c)' <= nextOffset' /\ (allocations[c].used <= allocations[c].capacity)'
    <2>1. CASE c = n  BY <1>1, <1>2, <2>1 DEF BucketEnd
    <2>2. CASE c \in DOMAIN allocations
      <3>1. BucketEnd(c)' <= nextOffset'  BY <1>1, <1>2, <1>3, <2>2
      <3>2. allocations'[c].used <= allocations'[c].capacity
        BY <1>2, <2>2 DEF SpaceInv, Placed
      <3> QED  BY <3>1, <3>2
    <2> QED  BY <1>1, <1>2, <2>1, <2>2
  <1>5. ASSUME NEW c \in DOMAIN allocations', NEW d \in DOMAIN allocations', c < d
        PROVE  BucketEnd(c)' <= allocations'[d].offset
    <2>1. c \in DOMAIN allocations  BY <1>1, <1>2, <1>5
    <2>2. CASE d = n  BY <1>2, <1>3, <2>1, <2>2
    <2>3. CASE d \in DOMAIN allocations
      <3>1. BucketEnd(c) <= allocations[d].offset  BY <1>5, <2>1, <2>3 DEF SpaceInv, Placed
      <3> QED  BY <1>2, <1>3, <2>1, <2>3, <3>1
    <2> QED  BY <1>1, <1>2, <2>2, <2>3
  <1> QED  BY <1>4, <1>5 DEF Placed

\* There are no buckets yet.
LEMMA SpaceInitInv == ManagerInit => SpaceInv
  <1> SUFFICES ASSUME ManagerInit PROVE SpaceInv  OBVIOUS
  <1>1. DOMAIN allocations = {} /\ load = Idle  BY DEF ManagerInit, HostInit
  <1> QED  BY <1>1, ManagerInitInv, IdleRecord DEF SpaceInv, Placed, OpenUsedRight

\* Every step keeps buckets apart and the open one's used bytes known.
LEMMA SpaceNextInv == SpaceInv /\ [ManagerNext]_managerVars => SpaceInv'
  <1> SUFFICES ASSUME SpaceInv, [ManagerNext]_managerVars PROVE SpaceInv'  OBVIOUS
  <1>1. ManagerInv'  BY ManagerNextInv DEF SpaceInv
  <1>2. ASSUME UNCHANGED <<allocations, nextOffset>>  PROVE Placed'
    BY <1>2 DEF SpaceInv, Placed, BucketEnd
  <1>3. CASE UNCHANGED managerVars
    <2>1. UNCHANGED <<allocations, nextOffset, load>>  BY <1>3 DEF managerVars
    <2>2. OpenUsedRight'  BY <2>1 DEF SpaceInv, OpenUsedRight
    <2> QED  BY <1>1, <1>2, <2>1, <2>2 DEF SpaceInv
  <1>4. ASSUME NEW m \in Models, BeginLoad(m)  PROVE SpaceInv'
    <2>1. UNCHANGED <<allocations, nextOffset>> /\ load'.current = NoBucket
      BY <1>4 DEF BeginLoad, hostVars, Fresh
    <2> QED  BY <1>1, <1>2, <2>1 DEF SpaceInv, OpenUsedRight
  <1>5. ASSUME NEW t \in Tensors, PackIntoCurrent(t)  PROVE SpaceInv'
    BY <1>1, <1>5, PlacedAfterCurrent DEF SpaceInv
  <1>6. ASSUME NEW t \in Tensors, PackIntoNew(t)  PROVE SpaceInv'
    <2>1. BucketSizeBytes \in Nat \ {0} /\ OpenBucketAndCopy(BucketSizeBytes, t)
      BY <1>6, ManagerAssumption DEF PackIntoNew
    <2>2. Placed'  BY <2>1, PlacedAfterNew
    <2>3. allocations'[nextBucketId].used = t.nbytes  BY <2>1, NewIsFresh
    <2>4. OpenUsedRight'  BY <1>6, <2>3, AfterNew DEF SpaceInv, OpenUsedRight
    <2> QED  BY <1>1, <2>2, <2>4 DEF SpaceInv
  <1>7. ASSUME NEW t \in Tensors, PackOversize(t)  PROVE SpaceInv'
    <2>1. t.nbytes \in Nat \ {0} /\ OpenBucketAndCopy(t.nbytes, t)
      BY <1>7, ManagerAssumption DEF PackOversize, Oversize
    <2>2. Placed'  BY <2>1, PlacedAfterNew
    <2>3. OpenUsedRight'  BY <1>7, AfterOversize DEF SpaceInv, OpenUsedRight
    <2> QED  BY <1>1, <2>2, <2>3 DEF SpaceInv
  <1>8. ASSUME Publish \/ SourceFails \/ \E t \in Tensors : PoolExhausted(t)  PROVE SpaceInv'
    <2>1. UNCHANGED <<allocations, nextOffset>> /\ load' = Idle
      BY <1>8, FlushChangesNothing DEF Publish, SourceFails, PoolExhausted, hostVars
    <2> QED  BY <1>1, <1>2, <2>1, IdleRecord DEF SpaceInv, OpenUsedRight
  <1>9. CASE ManagerNext
    BY <1>4, <1>5, <1>6, <1>7, <1>8, <1>9 DEF ManagerNext
  <1> QED  BY <1>3, <1>9

-----------------------------------------------------------------------------
(* What no step of a load changes.                                         *)

\* The steps that write bytes, and the one other thing they can do to the pool.
LEMMA Cases ==
    ASSUME SpaceInv, [ManagerNext]_managerVars
    PROVE  \/ \E t \in Tensors : PackIntoCurrent(t)
           \/ \E t \in Tensors, size \in Nat \ {0} : OpenBucketAndCopy(size, t)
           \/ UNCHANGED <<allocations, pool>>
  <1>1. ASSUME NEW t \in Tensors, PackIntoNew(t)
        PROVE  \E size \in Nat \ {0} : OpenBucketAndCopy(size, t)
    BY <1>1, ManagerAssumption DEF PackIntoNew
  <1>2. ASSUME NEW t \in Tensors, PackOversize(t)
        PROVE  \E size \in Nat \ {0} : OpenBucketAndCopy(size, t)
    <2>1. t.nbytes \in Nat \ {0}  BY <1>2, ManagerAssumption DEF PackOversize, Oversize
    <2> QED  BY <1>2, <2>1 DEF PackOversize
  <1>3. ASSUME \/ UNCHANGED managerVars
               \/ \E m \in Models : BeginLoad(m)
               \/ \E t \in Tensors : PoolExhausted(t)
               \/ SourceFails \/ Publish
        PROVE  UNCHANGED <<allocations, pool>>
    BY <1>3, FlushChangesNothing
    DEF managerVars, BeginLoad, PoolExhausted, SourceFails, Publish, hostVars
  <1> QED  BY <1>1, <1>2, <1>3 DEF ManagerNext

\* The bytes in use stay, and so do the places of the buckets that use them.
LEMMA StepKeepsUsed ==
    ASSUME SpaceInv, [ManagerNext]_managerVars
    PROVE  /\ UsedBytesStay
           /\ \A b \in DOMAIN allocations :
                  /\ b \in DOMAIN allocations'
                  /\ allocations'[b].offset = allocations[b].offset
                  /\ allocations'[b].used >= allocations[b].used
  <1>1. \A b \in DOMAIN allocations : b \in Nat /\ allocations[b].used \in Nat
    BY TableFacts DEF SpaceInv
  <1>2. ASSUME NEW t \in Tensors, PackIntoCurrent(t)
        PROVE  /\ UsedBytesStay
               /\ \A b \in DOMAIN allocations :
                      /\ b \in DOMAIN allocations'
                      /\ allocations'[b].offset = allocations[b].offset
                      /\ allocations'[b].used >= allocations[b].used
    <2>1. load.current # NoBucket  BY <1>2 DEF PackIntoCurrent, FitsCurrent
    <2>2. allocations[load.current].used = load.offset  BY <2>1 DEF SpaceInv, OpenUsedRight
    <2>3. load.offset \in Nat /\ t.nbytes \in Nat
      BY TensorFacts DEF SpaceInv, ManagerInv, LoadOK, LoadRecord
    <2>4. allocations'[load.current].used >= allocations[load.current].used
      BY <1>2, <2>2, <2>3, CurrentKeepsPlaced
    <2> QED  BY <1>1, <1>2, <2>4, CurrentIsFresh, CurrentKeepsPlaced
  <1>3. ASSUME NEW t \in Tensors, NEW size \in Nat \ {0}, OpenBucketAndCopy(size, t)
        PROVE  /\ UsedBytesStay
               /\ \A b \in DOMAIN allocations :
                      /\ b \in DOMAIN allocations'
                      /\ allocations'[b].offset = allocations[b].offset
                      /\ allocations'[b].used >= allocations[b].used
    <2>1. UsedBytesStay  BY <1>3, NewIsFresh
    <2>2. /\ DOMAIN allocations' = 0 .. nextBucketId
          /\ \A b \in DOMAIN allocations : allocations'[b] = allocations[b]
      BY <1>3, NewIsFresh
    <2>3. DOMAIN allocations = 0 .. nextBucketId - 1 /\ nextBucketId \in Nat
      BY TableFacts DEF SpaceInv
    <2> QED  BY <1>1, <2>1, <2>2, <2>3
  <1>4. ASSUME UNCHANGED <<allocations, pool>>
        PROVE  /\ UsedBytesStay
               /\ \A b \in DOMAIN allocations :
                      /\ b \in DOMAIN allocations'
                      /\ allocations'[b].offset = allocations[b].offset
                      /\ allocations'[b].used >= allocations[b].used
    BY <1>1, <1>4 DEF UsedBytesStay
  <1> QED  BY <1>2, <1>3, <1>4, Cases

\* A byte that is written is below the edge its copy raises, and edges only rise.
LEMMA EdgeNextInv ==
    SpaceInv /\ UsedIsRightEdge /\ [ManagerNext]_managerVars => UsedIsRightEdge'
  <1> SUFFICES ASSUME SpaceInv, UsedIsRightEdge, [ManagerNext]_managerVars,
                      NEW i \in DOMAIN pool', pool'[i] # NoData
               PROVE  \E b \in DOMAIN allocations' :
                          /\ allocations'[b].offset <= i
                          /\ i < allocations'[b].offset + allocations'[b].used
                          /\ allocations'[b].used <= allocations'[b].capacity
    BY DEF UsedIsRightEdge
  <1>1. SpaceInv'  BY SpaceNextInv
  <1>2. /\ DOMAIN pool = 0 .. CapacityBytes - 1 /\ DOMAIN pool' = 0 .. CapacityBytes - 1
        /\ CapacityBytes \in Nat
    BY <1>1, HostMemAssumption DEF SpaceInv, ManagerInv, HostTypeOK
  <1>3. \A b \in DOMAIN allocations' :
            /\ allocations'[b].used <= allocations'[b].capacity
            /\ allocations'[b].used \in Nat /\ allocations'[b].offset \in Nat
    <2>1. \A b \in DOMAIN allocations' : allocations'[b].used <= allocations'[b].capacity
      BY <1>1 DEF SpaceInv, Placed
    <2>2. allocations' \in [0 .. nextBucketId' - 1 -> [offset : Nat, capacity : Nat \ {0}, used : Nat]]
      BY <1>1 DEF SpaceInv, ManagerInv, HostTypeOK
    <2> QED  BY <2>1, <2>2
  <1>4. CASE pool'[i] = pool[i]
    <2>1. PICK b \in DOMAIN allocations : InUse(b, i)
      BY <1>2, <1>4 DEF UsedIsRightEdge, InUse
    <2>2. /\ b \in DOMAIN allocations'
          /\ allocations'[b].offset = allocations[b].offset
          /\ allocations'[b].used >= allocations[b].used
          /\ allocations[b].used \in Nat
      BY StepKeepsUsed, TableFacts DEF SpaceInv
    <2>3. allocations[b].offset <= i /\ i < allocations[b].offset + allocations[b].used
      BY <2>1 DEF InUse
    <2>4. i < allocations'[b].offset + allocations'[b].used
      BY <1>2, <1>3, <2>2, <2>3
    <2> QED  BY <1>3, <2>2, <2>3, <2>4
  <1>5. ASSUME NEW t \in Tensors, PackIntoCurrent(t), pool'[i] # pool[i]
        PROVE  \E b \in DOMAIN allocations' :
                   /\ allocations'[b].offset <= i
                   /\ i < allocations'[b].offset + allocations'[b].used
                   /\ allocations'[b].used <= allocations'[b].capacity
    <2> DEFINE b == load.current
    <2>1. /\ allocations[b].offset + load.offset <= i
          /\ i < allocations[b].offset + load.offset + t.nbytes
      BY <1>2, <1>5, CurrentIsFresh
    <2>2. /\ b \in DOMAIN allocations'
          /\ allocations'[b].offset = allocations[b].offset
          /\ allocations'[b].used = load.offset + t.nbytes
      BY <1>5, CurrentKeepsPlaced
    <2>3. load.offset \in Nat /\ t.nbytes \in Nat
      BY TensorFacts DEF SpaceInv, ManagerInv, LoadOK, LoadRecord
    <2> HIDE DEF b
    <2>4. allocations'[b].offset <= i /\ i < allocations'[b].offset + allocations'[b].used
      BY <1>2, <1>3, <2>1, <2>2, <2>3
    <2> QED  BY <1>3, <2>2, <2>4
  <1>6. ASSUME NEW t \in Tensors, NEW size \in Nat \ {0}, OpenBucketAndCopy(size, t),
               pool'[i] # pool[i]
        PROVE  \E b \in DOMAIN allocations' :
                   /\ allocations'[b].offset <= i
                   /\ i < allocations'[b].offset + allocations'[b].used
                   /\ allocations'[b].used <= allocations'[b].capacity
    <2>1. nextOffset <= i /\ i < nextOffset + t.nbytes
      BY <1>2, <1>6, NewIsFresh
    <2>2. /\ nextBucketId \in DOMAIN allocations'
          /\ allocations'[nextBucketId].offset = nextOffset
          /\ allocations'[nextBucketId].used = t.nbytes
      BY <1>6, NewIsFresh, TableFacts DEF SpaceInv
    <2> QED  BY <1>3, <2>1, <2>2
  <1>7. CASE pool' = pool  BY <1>4, <1>7
  <1> QED  BY <1>4, <1>5, <1>6, <1>7, Cases

\* used_bytes stays the right edge of what a load has written into a bucket, for
\* _copy_tensor_to_bucket and flush_bucket of model_manager.py as for the pool alone.
THEOREM PackedRightEdge == ManagerSpec => []UsedIsRightEdge
  <1>1. ManagerInit => SpaceInv /\ UsedIsRightEdge
    BY SpaceInitInv DEF ManagerInit, HostInit, UsedIsRightEdge
  <1>2. SpaceInv /\ UsedIsRightEdge /\ [ManagerNext]_managerVars => SpaceInv' /\ UsedIsRightEdge'
    BY SpaceNextInv, EdgeNextInv
  <1> QED  BY <1>1, <1>2, PTL DEF ManagerSpec

\* A byte that a bucket uses is never written again by a load: what PackIntoCurrent
\* and OpenBucketAndCopy of model_manager.py copy lands past everything in use.
THEOREM UsedBytesAreFinal == ManagerSpec => [][UsedBytesStay]_managerVars
  <1>1. SpaceInv /\ [ManagerNext]_managerVars => UsedBytesStay
    BY StepKeepsUsed
  <1> QED  BY <1>1, SpaceInitInv, SpaceNextInv, PTL DEF ManagerSpec

-----------------------------------------------------------------------------
(* What a receiver makes of a list of buckets.                             *)

NamesIn(s) == UNION {DOMAIN s[i].tensors : i \in DOMAIN s}

\* The last bucket of the list that has the name, and the last tensor given
\* under it.
Latest(s, name, i) ==
    /\ i \in DOMAIN s
    /\ name \in DOMAIN s[i].tensors
    /\ \A j \in DOMAIN s : name \in DOMAIN s[j].tensors => j <= i

LastGiven(given, name, p) ==
    /\ p \in DOMAIN given
    /\ given[p].name = name
    /\ \A q \in DOMAIN given : given[q].name = name => q <= p

\* The bytes a bucket's metadata gives a name, in a memory whose pool begins at
\* `base`.
Read(bucket, name, memory, base) ==
    [k \in 0 .. bucket.tensors[name].nbytes - 1 |->
        memory[(bucket.base + bucket.tensors[name].offset) - base + k]]

\* Every name of the list is in a last bucket of it.
Ends(s) == \A name \in NamesIn(s) : \E i \in DOMAIN s : Latest(s, name, i)

\* The list holds the last tensor that m's source gave under every name.
Renders(s, m, given, memory, base) ==
    /\ NamesIn(s) = {given[p].name : p \in DOMAIN given}
    /\ \A name \in NamesIn(s) :
           \E i \in DOMAIN s, p \in DOMAIN given :
               /\ Latest(s, name, i)
               /\ LastGiven(given, name, p)
               /\ Read(s[i], name, memory, base) = ContentOf(m, p, given[p])

\* Received, of any list of buckets and any memory.
ReceivedOf(s, memory, base) ==
    [name \in NamesIn(s) |->
        Read(s[CHOOSE j \in {i \in DOMAIN s : name \in DOMAIN s[i].tensors} :
                   \A l \in {i \in DOMAIN s : name \in DOMAIN s[i].tensors} : l <= j],
             name, memory, base)]

\* A client receives a model as its list reads in the pool.
LEMMA ReceivedIs == \A m : Received(m) = ReceivedOf(models[m], pool, PoolBase)
  <1> SUFFICES ASSUME NEW m PROVE Received(m) = ReceivedOf(models[m], pool, PoolBase)
    OBVIOUS
  <1> DEFINE Newest(name) == CHOOSE j \in BucketsWith(m, name) :
                                 \A l \in BucketsWith(m, name) : l <= j
             value(name) == Read(models[m][Newest(name)], name, pool, PoolBase)
             bucketOf(name) == models[m][Newest(name)]
             entry(name) == bucketOf(name).tensors[name]
  <1>1. Received(m) = [name \in NamesOf(m) |->
                          BytesAt(bucketOf(name).base + entry(name).offset, entry(name).nbytes)]
    BY DEF Received
  <1>2. ASSUME NEW name
        PROVE  value(name) = BytesAt(bucketOf(name).base + entry(name).offset, entry(name).nbytes)
    <2>1. \A c : Read(c, name, pool, PoolBase)
                     = BytesAt(c.base + c.tensors[name].offset, c.tensors[name].nbytes)
      BY DEF BytesAt, Read
    <2> QED  BY <2>1
  <1>3. Received(m) = [name \in NamesOf(m) |-> value(name)]
    BY <1>1, <1>2
  <1>4. ReceivedOf(models[m], pool, PoolBase) = [name \in NamesIn(models[m]) |-> value(name)]
    BY DEF ReceivedOf, BucketsWith
  <1>5. NamesOf(m) = NamesIn(models[m])  BY DEF NamesOf, NamesIn
  <1> HIDE DEF value
  <1> QED  BY <1>3, <1>4, <1>5

\* The same of the next state.
LEMMA ReceivedPrime ==
    \A m : Received(m)' = ReceivedOf(models'[m], pool', PoolBase')
  <1>1. (\A m : Received(m) = ReceivedOf(models[m], pool, PoolBase))'  BY ReceivedIs, PTL
  <1> QED  BY <1>1

\* A name is received from the last bucket that has it.
LEMMA ReceivedFrom ==
    ASSUME NEW S, NEW s \in Seq(S), NEW memory, NEW base, NEW name \in NamesIn(s), NEW i,
           Latest(s, name, i)
    PROVE  ReceivedOf(s, memory, base)[name] = Read(s[i], name, memory, base)
  <1> DEFINE B == {j \in DOMAIN s : name \in DOMAIN s[j].tensors}
             c == CHOOSE j \in B : \A l \in B : l <= j
  <1>1. i \in B /\ \A l \in B : l <= i  BY DEF Latest
  <1>2. c \in B /\ \A l \in B : l <= c  BY <1>1
  <1>3. B \subseteq Nat  OBVIOUS
  <1>4. c = i
    <2> HIDE DEF B, c
    <2> QED  BY <1>1, <1>2, <1>3
  <1>5. ReceivedOf(s, memory, base)[name] = Read(s[c], name, memory, base)
    BY DEF ReceivedOf
  <1> QED  BY <1>4, <1>5

\* A model whose list renders what its source gave is the model the catalog promises.
LEMMA RendersDenoted ==
    ASSUME NEW S, NEW s \in Seq(S), NEW m, NEW T, NEW given \in Seq(T), NEW memory, NEW base,
           Renders(s, m, given, memory, base)
    PROVE  ReceivedOf(s, memory, base) = Promise!Denoted(m, given)
  <1> DEFINE D == {given[p].name : p \in DOMAIN given}
             R == ReceivedOf(s, memory, base)
  <1>1. NamesIn(s) = D  BY DEF Renders
  <1>2. DOMAIN R = D  BY <1>1 DEF ReceivedOf
  <1>3. Promise!Denoted(m, given) =
          [name \in D |-> ContentOf(m, Promise!LastOf(given, name), given[Promise!LastOf(given, name)])]
    BY DEF Promise!Denoted, Promise!Names
  <1>4. ASSUME NEW name \in D
        PROVE  R[name] = ContentOf(m, Promise!LastOf(given, name), given[Promise!LastOf(given, name)])
    <2>1. PICK i \in DOMAIN s, p \in DOMAIN given :
            /\ Latest(s, name, i)
            /\ LastGiven(given, name, p)
            /\ Read(s[i], name, memory, base) = ContentOf(m, p, given[p])
      BY <1>1 DEF Renders
    <2>2. R[name] = Read(s[i], name, memory, base)  BY <1>1, <2>1, ReceivedFrom
    <2>3. Promise!LastOf(given, name) = p
      <3> DEFINE OK(q) == /\ given[q].name = name
                          /\ \A r \in DOMAIN given : given[r].name = name => r <= q
                 c == CHOOSE q \in DOMAIN given : OK(q)
      <3>1. OK(p)  BY <2>1 DEF LastGiven
      <3>2. c \in DOMAIN given /\ OK(c)  BY <3>1
      <3>3. DOMAIN given \subseteq Nat  OBVIOUS
      <3>4. c <= p /\ p <= c  BY <3>1, <3>2
      <3>5. c = p
        <4> HIDE DEF c
        <4> QED  BY <3>2, <3>3, <3>4
      <3> QED  BY <3>5 DEF Promise!LastOf
    <2> QED  BY <2>1, <2>2, <2>3
  <1>5. R = [name \in D |-> R[name]]  BY <1>1 DEF ReceivedOf
  <1> DEFINE P(name) == ContentOf(m, Promise!LastOf(given, name), given[Promise!LastOf(given, name)])
  <1>6. \A name \in D : R[name] = P(name)  BY <1>4
  <1>7. Promise!Denoted(m, given) = [name \in D |-> P(name)]  BY <1>3
  <1> HIDE DEF R, D, P
  <1> QED  BY <1>5, <1>6, <1>7 DEF R

-----------------------------------------------------------------------------
(* A step and what is listed.                                              *)

\* What metadata that is right points at does not change.
LEMMA ReadStays ==
    ASSUME SpaceInv, [ManagerNext]_managerVars,
           NEW c \in Bucket, Right(c, allocations), NEW name \in DOMAIN c.tensors
    PROVE  Read(c, name, pool', PoolBase') = Read(c, name, pool, PoolBase)
  <1> DEFINE e == c.tensors[name]
             o == allocations[c.bucketId].offset
             u == allocations[c.bucketId].used
  <1>1. PoolBase' = PoolBase
    BY DEF managerVars, ManagerNext, BeginLoad, PackIntoCurrent, PackIntoNew, PackOversize,
           OpenBucketAndCopy, PoolExhausted, SourceFails, Publish, hostVars, PoolBase
  <1>2. PoolBase \in Nat  BY BaseIsNat DEF SpaceInv, ManagerInv
  <1>3. c.tensors \in Indexes /\ c.base \in Nat  BY DEF Bucket
  <1>4. e.offset \in Nat /\ e.nbytes \in Nat  BY <1>3, IndexEntry DEF TensorEntry
  <1>5. /\ c.bucketId \in DOMAIN allocations
        /\ c.base = PoolBase + o
        /\ c.used = u
        /\ e.offset + e.nbytes <= u
    BY DEF Right, Within
  <1>6. /\ o \in Nat /\ u \in Nat /\ allocations[c.bucketId].capacity \in Nat
        /\ nextOffset <= CapacityBytes /\ nextOffset \in Nat /\ CapacityBytes \in Nat
    BY <1>5, TableFacts, HostMemAssumption DEF SpaceInv
  <1>7. u <= allocations[c.bucketId].capacity /\ o + allocations[c.bucketId].capacity <= nextOffset
    BY <1>5 DEF SpaceInv, Placed, BucketEnd
  <1>8. ASSUME NEW k \in 0 .. e.nbytes - 1
        PROVE  pool'[(c.base + e.offset) - PoolBase + k] = pool[(c.base + e.offset) - PoolBase + k]
    <2> DEFINE x == (c.base + e.offset) - PoolBase + k
    <2> HIDE DEF e, o, u
    <2>1. x = o + e.offset + k  BY <1>2, <1>4, <1>5, <1>6
    <2>2. x \in 0 .. CapacityBytes - 1 /\ o <= x /\ x < o + u
      BY <1>4, <1>5, <1>6, <1>7, <2>1
    <2> HIDE DEF x
    <2>3. InUse(c.bucketId, x)  BY <2>2 DEF InUse, o, u
    <2>4. pool'[x] = pool[x]  BY <1>5, <2>2, <2>3, StepKeepsUsed DEF UsedBytesStay
    <2> QED  BY <2>4 DEF x
  <1> DEFINE F(p) == [k \in 0 .. e.nbytes - 1 |-> p[(c.base + e.offset) - PoolBase + k]]
  <1>9. F(pool') = F(pool)
    <2> HIDE DEF e
    <2> QED  BY <1>8
  <1>10. Read(c, name, pool, PoolBase) = F(pool)  BY DEF Read
  <1>11. Read(c, name, pool', PoolBase') = F(pool')  BY <1>1 DEF Read
  <1> QED  BY <1>9, <1>10, <1>11

\* A list that is right reads the same after a step.
LEMMA ReceivedStays ==
    ASSUME SpaceInv, [ManagerNext]_managerVars,
           NEW s \in Seq(Bucket), AllRight(s, allocations), Ends(s)
    PROVE  ReceivedOf(s, pool', PoolBase') = ReceivedOf(s, pool, PoolBase)
  <1> DEFINE F == ReceivedOf(s, pool, PoolBase)
             G == ReceivedOf(s, pool', PoolBase')
  <1>1. ASSUME NEW name \in NamesIn(s)  PROVE F[name] = G[name]
    <2>1. PICK i \in DOMAIN s : Latest(s, name, i)  BY DEF Ends
    <2>2. s[i] \in Bucket /\ Right(s[i], allocations) /\ name \in DOMAIN s[i].tensors
      BY <2>1 DEF AllRight, Latest
    <2>3. Read(s[i], name, pool', PoolBase') = Read(s[i], name, pool, PoolBase)
      BY <2>2, ReadStays
    <2> QED  BY <2>1, <2>3, ReceivedFrom
  <1>2. F = [name \in NamesIn(s) |-> F[name]] /\ G = [name \in NamesIn(s) |-> G[name]]
    BY DEF ReceivedOf
  <1> HIDE DEF F, G
  <1>3. F = G  BY <1>1, <1>2
  <1> QED  BY <1>3 DEF F, G

\* The entries of a list read the same in another memory.
ReadsSame(s, memory, base, memory2, base2) ==
    \A i \in DOMAIN s : \A name \in DOMAIN s[i].tensors :
        Read(s[i], name, memory2, base2) = Read(s[i], name, memory, base)

\* u is s with an entry for x in its last bucket, new or in the place of another.
Adds(s, u, x, last) ==
    /\ last \in DOMAIN u /\ \A i \in DOMAIN u : i <= last
    /\ x \in DOMAIN u[last].tensors
    /\ \A i \in DOMAIN u : \A name \in DOMAIN u[i].tensors :
           name # x => i \in DOMAIN s /\ name \in DOMAIN s[i].tensors
    /\ \A i \in DOMAIN s : \A name \in DOMAIN s[i].tensors :
           /\ i \in DOMAIN u
           /\ name \in DOMAIN u[i].tensors
           /\ name # x => /\ u[i].base = s[i].base
                          /\ u[i].tensors[name] = s[i].tensors[name]

\* One more tensor is given; the others read as before.
LEMMA RendersMore ==
    ASSUME NEW s \in Seq(Bucket), NEW u \in Seq(Bucket), NEW given \in Seq(Tensors),
           NEW t \in Tensors, NEW m, NEW memory, NEW base, NEW memory2, NEW base2,
           Renders(s, m, given, memory, base),
           ReadsSame(s, memory, base, memory2, base2),
           NEW last, Adds(s, u, t.name, last),
           Read(u[last], t.name, memory2, base2) = ContentOf(m, Len(given) + 1, t)
    PROVE  Renders(u, m, Append(given, t), memory2, base2)
  <1>0. /\ last \in DOMAIN u /\ \A i \in DOMAIN u : i <= last
        /\ t.name \in DOMAIN u[last].tensors
        /\ \A i \in DOMAIN u : \A name \in DOMAIN u[i].tensors :
               name # t.name => i \in DOMAIN s /\ name \in DOMAIN s[i].tensors
        /\ \A i \in DOMAIN s : \A name \in DOMAIN s[i].tensors :
               /\ i \in DOMAIN u
               /\ name \in DOMAIN u[i].tensors
               /\ name # t.name => /\ u[i].base = s[i].base
                                   /\ u[i].tensors[name] = s[i].tensors[name]
    BY DEF Adds
  <1> DEFINE g == Append(given, t)
             n == Len(given) + 1
  <1>1. /\ n \in Nat /\ DOMAIN given = 1 .. n - 1 /\ DOMAIN g = 1 .. n
        /\ \A p \in DOMAIN given : p \in DOMAIN g /\ g[p] = given[p] /\ p < n
        /\ g[n] = t /\ n \in DOMAIN g
        /\ \A p \in DOMAIN g : p = n \/ p \in DOMAIN given
    BY AppendTo
  <1> HIDE DEF g, n
  <1>2. NamesIn(u) = NamesIn(s) \cup {t.name}  BY <1>0 DEF NamesIn
  <1>3. {g[p].name : p \in DOMAIN g} = {given[p].name : p \in DOMAIN given} \cup {t.name}
    BY <1>1
  <1>4. NamesIn(u) = {g[p].name : p \in DOMAIN g}  BY <1>2, <1>3 DEF Renders
  <1>5. Latest(u, t.name, last) /\ LastGiven(g, t.name, n)
    <2>1. Latest(u, t.name, last)  BY <1>0 DEF Latest
    <2>2. \A p \in DOMAIN g : p <= n  BY <1>1
    <2> QED  BY <1>1, <2>1, <2>2 DEF LastGiven
  <1>6. ASSUME NEW name \in NamesIn(u), name # t.name
        PROVE  \E i \in DOMAIN u, p \in DOMAIN g :
                   /\ Latest(u, name, i)
                   /\ LastGiven(g, name, p)
                   /\ Read(u[i], name, memory2, base2) = ContentOf(m, p, g[p])
    <2>1. PICK i \in DOMAIN s, p \in DOMAIN given :
            /\ Latest(s, name, i)
            /\ LastGiven(given, name, p)
            /\ Read(s[i], name, memory, base) = ContentOf(m, p, given[p])
      BY <1>2, <1>6 DEF Renders
    <2>2. Latest(u, name, i)  BY <1>0, <1>6, <2>1 DEF Latest
    <2>3. LastGiven(g, name, p)  BY <1>1, <1>6, <2>1 DEF LastGiven
    <2>4. /\ u[i].base = s[i].base /\ u[i].tensors[name] = s[i].tensors[name]
          /\ name \in DOMAIN s[i].tensors
      BY <1>0, <1>6, <2>1 DEF Latest
    <2>5. Read(u[i], name, memory2, base2) = Read(s[i], name, memory2, base2)
      BY <2>4 DEF Read
    <2>6. Read(s[i], name, memory2, base2) = Read(s[i], name, memory, base)
      BY <2>1, <2>4 DEF ReadsSame
    <2> QED  BY <1>1, <2>1, <2>2, <2>3, <2>5, <2>6 DEF Latest
  <1>7. \A name \in NamesIn(u) :
           \E i \in DOMAIN u, p \in DOMAIN g :
               /\ Latest(u, name, i)
               /\ LastGiven(g, name, p)
               /\ Read(u[i], name, memory2, base2) = ContentOf(m, p, g[p])
    BY <1>0, <1>1, <1>5, <1>6 DEF n
  <1> QED  BY <1>4, <1>7 DEF Renders, g

-----------------------------------------------------------------------------
(* The load in progress renders what it was given.                         *)

\* The load's list, were it flushed now, and the published ones.
LoadRenders == Renders(Flushed.buckets, load.model, load.given, pool, PoolBase)

PublishedEnds == \A m \in DOMAIN models : Ends(models[m])

ContentInv == SpaceInv /\ LoadRenders /\ PublishedEnds

ListIs ==
    /\ Flushed.buckets \in Seq(Bucket)
    /\ load.buckets \in Seq(Bucket)
    /\ load.current = NoBucket => Flushed.buckets = load.buckets
    /\ load.current # NoBucket =>
           /\ CurrentMetadata \in Bucket
           /\ Flushed.buckets = Append(load.buckets, CurrentMetadata)

\* The list of a load, with the open bucket at its end.
LEMMA FlushedList == ManagerInv => ListIs
  <1> SUFFICES ASSUME ManagerInv PROVE ListIs  OBVIOUS
  <1>1. load \in LoadRecord /\ Flushed \in LoadRecord
    BY FlushedOK DEF ManagerInv, LoadOK
  <1>2. load.current = NoBucket => Flushed = load  BY DEF Flushed
  <1>3. load.current # NoBucket =>
            Flushed = [load EXCEPT !.buckets = Append(@, CurrentMetadata),
                                   !.current = NoBucket, !.index = NoTensors, !.offset = 0]
    BY DEF Flushed
  <1>4. load.current # NoBucket => Flushed.buckets = Append(load.buckets, CurrentMetadata)
    BY <1>1, <1>3 DEF LoadRecord
  <1> QED  BY <1>1, <1>2, <1>4, CurrentMetadataRight DEF LoadRecord, ListIs

\* The same of the next state.
LEMMA FlushedListPrime == ManagerInv' => ListIs'
  BY FlushedList, PTL

\* The load's list is right and reads the same after a step.
LEMMA ListStays ==
    ASSUME SpaceInv, [ManagerNext]_managerVars
    PROVE  /\ Flushed.buckets \in Seq(Bucket)
           /\ AllRight(Flushed.buckets, allocations)
           /\ ReadsSame(Flushed.buckets, pool, PoolBase, pool', PoolBase')
  <1>1. Flushed.buckets \in Seq(Bucket)  BY FlushedList DEF SpaceInv, ListIs
  <1>2. AllRight(Flushed.buckets, allocations)
    BY FlushedOK, FlushChangesNothing DEF SpaceInv, LoadOK
  <1>3. \A i \in DOMAIN Flushed.buckets :
            Flushed.buckets[i] \in Bucket /\ Right(Flushed.buckets[i], allocations)
    BY <1>1, <1>2 DEF AllRight
  <1>4. \A c \in Bucket : Right(c, allocations) =>
            \A name \in DOMAIN c.tensors :
                Read(c, name, pool', PoolBase') = Read(c, name, pool, PoolBase)
    BY ReadStays
  <1> QED  BY <1>1, <1>2, <1>3, <1>4 DEF ReadsSame

\* The pool does not move.
LEMMA PoolBaseStays ==
    ASSUME [ManagerNext]_managerVars
    PROVE  PoolBase' = PoolBase
  BY DEF managerVars, ManagerNext, BeginLoad, PackIntoCurrent, PackIntoNew, PackOversize,
         OpenBucketAndCopy, PoolExhausted, SourceFails, Publish, hostVars, PoolBase

\* The entry of a tensor that has been copied reads as the tensor.
LEMMA ReadsNew ==
    ASSUME SpaceInv, [ManagerNext]_managerVars, NEW t \in Tensors, NEW c, NEW at \in Nat,
           NEW o \in Nat,
           c.base = PoolBase + at,
           c.tensors[t.name] = TensorMetadata(t, o),
           \A k \in 0 .. t.nbytes - 1 : pool'[at + o + k] = Byte(k)
    PROVE  Read(c, t.name, pool', PoolBase') = ContentOf(load.model, Len(load.given) + 1, t)
  <1>1. PoolBase \in Nat /\ PoolBase' = PoolBase
    BY BaseIsNat, PoolBaseStays DEF SpaceInv, ManagerInv
  <1>2. /\ c.tensors[t.name].offset = o /\ c.tensors[t.name].nbytes = t.nbytes
        /\ t.nbytes \in Nat
    BY TensorFacts
  <1>3. Read(c, t.name, pool', PoolBase')
          = [k \in 0 .. t.nbytes - 1 |-> pool'[(c.base + o) - PoolBase + k]]
    BY <1>1, <1>2 DEF Read
  <1>4. \A k \in 0 .. t.nbytes - 1 : (c.base + o) - PoolBase + k = at + o + k
    BY <1>1, <1>2
  <1>5. [k \in 0 .. t.nbytes - 1 |-> pool'[(c.base + o) - PoolBase + k]]
          = [k \in 0 .. t.nbytes - 1 |-> Byte(k)]
    BY <1>4
  <1> QED  BY <1>3, <1>5 DEF Byte, ContentOf

\* The dict of a bucket that holds one tensor.
LEMMA OneName ==
    ASSUME NEW name, NEW entry
    PROVE  /\ DOMAIN With(NoTensors, name, entry) = {name}
           /\ With(NoTensors, name, entry)[name] = entry
  BY DEF With, NoTensors

\* A tensor in a new bucket at the end of the list.
LEMMA RendersNewBucket ==
    ASSUME ContentInv, [ManagerNext]_managerVars, NEW t \in Tensors, NEW c \in Bucket,
           NEW entry, c.tensors = With(NoTensors, t.name, entry),
           Read(c, t.name, pool', PoolBase') = ContentOf(load.model, Len(load.given) + 1, t)
    PROVE  Renders(Append(Flushed.buckets, c), load.model, Append(load.given, t), pool', PoolBase')
  <1> DEFINE s == Flushed.buckets
             u == Append(s, c)
             last == Len(s) + 1
  <1>1. /\ s \in Seq(Bucket)
        /\ ReadsSame(s, pool, PoolBase, pool', PoolBase')
    BY ListStays DEF ContentInv
  <1>2. load.given \in Seq(Tensors)  BY DEF ContentInv, SpaceInv, ManagerInv, LoadOK, LoadRecord
  <1>3. Renders(s, load.model, load.given, pool, PoolBase)  BY DEF ContentInv, LoadRenders
  <1>4. DOMAIN c.tensors = {t.name}  BY OneName
  <1> HIDE DEF s
  <1>5. /\ u \in Seq(Bucket) /\ Len(s) \in Nat /\ DOMAIN s = 1 .. Len(s)
        /\ DOMAIN u = 1 .. Len(s) + 1
        /\ \A i \in DOMAIN s : u[i] = s[i]
        /\ u[last] = c
        /\ \A i \in DOMAIN u : i = last \/ i \in DOMAIN s
    BY <1>1, AppendTo
  <1> HIDE DEF u
  <1>6. last \in DOMAIN u /\ \A i \in DOMAIN u : i <= last  BY <1>5
  <1>7. \A i \in DOMAIN s : i \in DOMAIN u  BY <1>5
  <1> HIDE DEF last
  <1>8. \A i \in DOMAIN u : \A name \in DOMAIN u[i].tensors :
            name # t.name => i \in DOMAIN s /\ name \in DOMAIN s[i].tensors
    BY <1>4, <1>5
  <1>9. \A i \in DOMAIN s : \A name \in DOMAIN s[i].tensors :
            /\ i \in DOMAIN u
            /\ name \in DOMAIN u[i].tensors
            /\ name # t.name => u[i].base = s[i].base /\ u[i].tensors[name] = s[i].tensors[name]
    BY <1>5, <1>7
  <1>10. t.name \in DOMAIN u[last].tensors  BY <1>4, <1>5
  <1>11. Adds(s, u, t.name, last)  BY <1>6, <1>8, <1>9, <1>10 DEF Adds
  <1>12. Renders(u, load.model, Append(load.given, t), pool', PoolBase')
    BY <1>1, <1>2, <1>3, <1>5, <1>11, RendersMore
  <1> QED  BY <1>12 DEF u, s

\* A tensor in the open bucket, perhaps in the place of one of its name.
LEMMA RendersOldBucket ==
    ASSUME ContentInv, [ManagerNext]_managerVars, NEW t \in Tensors, NEW c \in Bucket,
           NEW entry, load.current # NoBucket,
           c.base = CurrentMetadata.base,
           c.tensors = With(load.index, t.name, entry),
           Read(c, t.name, pool', PoolBase') = ContentOf(load.model, Len(load.given) + 1, t)
    PROVE  Renders(Append(load.buckets, c), load.model, Append(load.given, t), pool', PoolBase')
  <1> DEFINE s == Flushed.buckets
             u == Append(load.buckets, c)
             last == Len(load.buckets) + 1
             d == CurrentMetadata
  <1>1. /\ s \in Seq(Bucket)
        /\ ReadsSame(s, pool, PoolBase, pool', PoolBase')
    BY ListStays DEF ContentInv
  <1>2. load.given \in Seq(Tensors) /\ load.buckets \in Seq(Bucket)
    BY DEF ContentInv, SpaceInv, ManagerInv, LoadOK, LoadRecord
  <1>3. Renders(s, load.model, load.given, pool, PoolBase)  BY DEF ContentInv, LoadRenders
  <1>4. /\ d.tensors = load.index /\ d \in Bucket /\ s = Append(load.buckets, d)
        /\ c.base = d.base
    BY FlushedList DEF ContentInv, SpaceInv, ListIs, CurrentMetadata
  <1> HIDE DEF d
  <1>5. /\ DOMAIN c.tensors = DOMAIN d.tensors \cup {t.name}
        /\ \A name \in DOMAIN d.tensors : name # t.name => c.tensors[name] = d.tensors[name]
    BY <1>4 DEF With
  <1> HIDE DEF s
  <1>6. /\ u \in Seq(Bucket) /\ Len(load.buckets) \in Nat
        /\ DOMAIN u = 1 .. Len(load.buckets) + 1 /\ DOMAIN s = 1 .. Len(load.buckets) + 1
        /\ \A i \in DOMAIN load.buckets : u[i] = load.buckets[i] /\ s[i] = load.buckets[i]
        /\ u[last] = c /\ s[last] = d
        /\ \A i \in DOMAIN u : i = last \/ i \in DOMAIN load.buckets
    <2>1. /\ u \in Seq(Bucket) /\ Len(load.buckets) \in Nat
          /\ DOMAIN u = 1 .. Len(load.buckets) + 1
          /\ \A i \in DOMAIN load.buckets : u[i] = load.buckets[i]
          /\ u[last] = c
          /\ \A i \in DOMAIN u : i = last \/ i \in DOMAIN load.buckets
      BY <1>2, AppendTo
    <2>2. /\ DOMAIN s = 1 .. Len(load.buckets) + 1
          /\ \A i \in DOMAIN load.buckets : s[i] = load.buckets[i]
          /\ s[last] = d
      BY <1>2, <1>4, AppendTo
    <2> QED  BY <2>1, <2>2
  <1> HIDE DEF u
  <1>7. last \in DOMAIN u /\ last \in DOMAIN s /\ \A i \in DOMAIN u : i <= last  BY <1>6
  <1>8. DOMAIN u = DOMAIN s  BY <1>6
  <1> HIDE DEF last
  <1>9. \A i \in DOMAIN u : \A name \in DOMAIN u[i].tensors :
            name # t.name => i \in DOMAIN s /\ name \in DOMAIN s[i].tensors
    BY <1>5, <1>6, <1>8
  <1>10. \A i \in DOMAIN s : \A name \in DOMAIN s[i].tensors :
            /\ i \in DOMAIN u
            /\ name \in DOMAIN u[i].tensors
            /\ name # t.name => u[i].base = s[i].base /\ u[i].tensors[name] = s[i].tensors[name]
    BY <1>4, <1>5, <1>6, <1>8
  <1>11. t.name \in DOMAIN u[last].tensors  BY <1>5, <1>6
  <1>12. Adds(s, u, t.name, last)  BY <1>7, <1>9, <1>10, <1>11 DEF Adds
  <1>13. Renders(u, load.model, Append(load.given, t), pool', PoolBase')
    BY <1>1, <1>2, <1>3, <1>6, <1>12, RendersMore
  <1> QED  BY <1>13 DEF u

\* The tensor is appended to the open bucket.
LEMMA CurrentRenders ==
    ASSUME ContentInv, NEW t \in Tensors, PackIntoCurrent(t)
    PROVE  LoadRenders'
  <1> DEFINE c == CurrentMetadata'
             b == load.current
             at == allocations[b].offset
             entry == TensorMetadata(t, load.offset)
  <1>1. [ManagerNext]_managerVars  BY DEF ManagerNext
  <1>2. SpaceInv /\ ManagerInv /\ ManagerInv' /\ ListIs'
    BY <1>1, SpaceNextInv, FlushedListPrime DEF ContentInv, SpaceInv
  <1>3. b # NoBucket  BY DEF PackIntoCurrent, FitsCurrent
  <1>4. /\ load'.model = load.model
        /\ load'.given = Append(load.given, t)
        /\ load'.buckets = load.buckets
        /\ load'.current = b
        /\ load'.index = With(load.index, t.name, entry)
    BY <1>2, AfterCurrent
  <1>5. c \in Bucket /\ (Flushed.buckets)' = Append(load.buckets, c)
    BY <1>2, <1>3, <1>4 DEF ListIs
  <1>6. b \in DOMAIN allocations /\ allocations'[b].offset = at /\ PoolBase' = PoolBase
    BY <1>1, <1>2, CurrentKeepsPlaced, PoolBaseStays
  <1>7. c.base = PoolBase + at /\ c.tensors = With(load.index, t.name, entry)
    BY <1>4, <1>6 DEF CurrentMetadata, BasePtr
  <1>8. c.base = CurrentMetadata.base  BY <1>7 DEF CurrentMetadata, BasePtr
  <1>9. at \in Nat /\ load.offset \in Nat
    BY <1>2, <1>6, TableFacts DEF ManagerInv, LoadOK, LoadRecord
  <1>10. \A k \in 0 .. t.nbytes - 1 : pool'[at + load.offset + k] = Byte(k)
    BY <1>2, CurrentIsFresh
  <1> HIDE DEF c, at
  <1>11. c.tensors[t.name] = entry  BY <1>7 DEF With
  <1>12. Read(c, t.name, pool', PoolBase') = ContentOf(load.model, Len(load.given) + 1, t)
    BY <1>1, <1>2, <1>7, <1>9, <1>10, <1>11, ReadsNew
  <1>13. Renders(Append(load.buckets, c), load.model, Append(load.given, t), pool', PoolBase')
    BY <1>1, <1>3, <1>5, <1>7, <1>8, <1>12, RendersOldBucket
  <1>14. Renders((Flushed.buckets)', load'.model, load'.given, pool', PoolBase')
    BY <1>4, <1>5, <1>13
  <1> QED  BY <1>14 DEF LoadRenders

\* The tensor opens a bucket; the one before it is listed.
LEMMA NewRenders ==
    ASSUME ContentInv, NEW t \in Tensors, PackIntoNew(t)
    PROVE  LoadRenders'
  <1> DEFINE c == CurrentMetadata'
             entry == TensorMetadata(t, 0)
  <1>1. [ManagerNext]_managerVars  BY DEF ManagerNext
  <1>2. SpaceInv /\ ManagerInv /\ ManagerInv' /\ ListIs'
    BY <1>1, SpaceNextInv, FlushedListPrime DEF ContentInv, SpaceInv
  <1>3. BucketSizeBytes \in Nat \ {0} /\ OpenBucketAndCopy(BucketSizeBytes, t)
    BY ManagerAssumption DEF PackIntoNew
  <1>4. /\ load'.model = load.model
        /\ load'.given = Append(load.given, t)
        /\ load'.buckets = Flushed.buckets
        /\ load'.current = nextBucketId
        /\ load'.index = With(NoTensors, t.name, entry)
    BY <1>2, AfterNew
  <1>5. nextBucketId # NoBucket /\ nextOffset \in Nat
    BY <1>2, TableFacts DEF NoBucket
  <1>6. c \in Bucket /\ (Flushed.buckets)' = Append(Flushed.buckets, c)
    BY <1>2, <1>4, <1>5 DEF ListIs
  <1>7. /\ allocations'[nextBucketId].offset = nextOffset /\ PoolBase' = PoolBase
        /\ \A k \in 0 .. t.nbytes - 1 : pool'[nextOffset + k] = Byte(k)
    BY <1>1, <1>2, <1>3, NewIsFresh, PoolBaseStays
  <1>8. c.base = PoolBase + nextOffset /\ c.tensors = With(NoTensors, t.name, entry)
    BY <1>4, <1>7 DEF CurrentMetadata, BasePtr
  <1> HIDE DEF c
  <1>9. c.tensors[t.name] = entry  BY <1>8, OneName
  <1>10. \A k \in 0 .. t.nbytes - 1 : pool'[nextOffset + 0 + k] = Byte(k)
    BY <1>5, <1>7
  <1>11. Read(c, t.name, pool', PoolBase') = ContentOf(load.model, Len(load.given) + 1, t)
    BY <1>1, <1>2, <1>5, <1>8, <1>9, <1>10, ReadsNew
  <1>12. Renders(Append(Flushed.buckets, c), load.model, Append(load.given, t), pool', PoolBase')
    BY <1>1, <1>6, <1>8, <1>11, RendersNewBucket
  <1>13. Renders((Flushed.buckets)', load'.model, load'.given, pool', PoolBase')
    BY <1>4, <1>6, <1>12
  <1> QED  BY <1>13 DEF LoadRenders

\* The tensor gets a bucket of its own.
LEMMA OversizeRenders ==
    ASSUME ContentInv, NEW t \in Tensors, PackOversize(t)
    PROVE  LoadRenders'
  <1> DEFINE c == OversizeBucket(t)
             entry == TensorMetadata(t, 0)
  <1>1. [ManagerNext]_managerVars  BY DEF ManagerNext
  <1>2. SpaceInv /\ ManagerInv /\ ManagerInv' /\ ListIs'
    BY <1>1, SpaceNextInv, FlushedListPrime DEF ContentInv, SpaceInv
  <1>3. t.nbytes \in Nat \ {0} /\ OpenBucketAndCopy(t.nbytes, t)
    BY ManagerAssumption DEF PackOversize, Oversize
  <1>4. /\ load'.model = load.model
        /\ load'.given = Append(load.given, t)
        /\ load'.buckets = Append(Flushed.buckets, c)
        /\ load'.current = NoBucket
    BY <1>2, AfterOversize
  <1>5. (Flushed.buckets)' = Append(Flushed.buckets, c)
    BY <1>2, <1>4 DEF ListIs
  <1>6. nextBucketId \in Nat /\ nextOffset \in Nat /\ PoolBase \in Nat
    BY <1>2, TableFacts, BaseIsNat DEF ManagerInv
  <1>7. /\ \A k \in 0 .. t.nbytes - 1 : pool'[nextOffset + k] = Byte(k)
        /\ AlignUp(t.nbytes, Alignment) \in Nat
    BY <1>2, <1>3, NewIsFresh
  <1>8. entry \in TensorEntry /\ t.name \in Names  BY TensorFacts
  <1>9. With(NoTensors, t.name, entry) \in Indexes  BY <1>8, EmptyIndex, WithIndex
  <1>10. /\ c.base = PoolBase + nextOffset /\ c.tensors = With(NoTensors, t.name, entry)
         /\ c \in Bucket
    BY <1>3, <1>6, <1>7, <1>9 DEF OversizeBucket, Bucket
  <1> HIDE DEF c
  <1>11. c.tensors[t.name] = entry  BY <1>10, OneName
  <1>12. \A k \in 0 .. t.nbytes - 1 : pool'[nextOffset + 0 + k] = Byte(k)
    BY <1>6, <1>7
  <1>13. Read(c, t.name, pool', PoolBase') = ContentOf(load.model, Len(load.given) + 1, t)
    BY <1>1, <1>2, <1>6, <1>10, <1>11, <1>12, ReadsNew
  <1>14. Renders(Append(Flushed.buckets, c), load.model, Append(load.given, t), pool', PoolBase')
    BY <1>1, <1>10, <1>13, RendersNewBucket
  <1>15. Renders((Flushed.buckets)', load'.model, load'.given, pool', PoolBase')
    BY <1>4, <1>5, <1>14
  <1> QED  BY <1>15 DEF LoadRenders

\* A load of which nothing is given yet, or no load.
LEMMA EmptyRenders ==
    ASSUME NEW m, NEW memory, NEW base
    PROVE  Renders(<<>>, m, <<>>, memory, base)
  BY DEF Renders, NamesIn

\* Nothing is loaded, and no load is in progress.
LEMMA ContentInitInv == ManagerInit => ContentInv
  <1> SUFFICES ASSUME ManagerInit PROVE ContentInv  OBVIOUS
  <1>1. SpaceInv  BY SpaceInitInv
  <1>2. load = Idle /\ DOMAIN models = {}  BY DEF ManagerInit
  <1>3. Flushed.buckets = <<>> /\ load.given = <<>>
    BY <1>2 DEF Flushed, Idle, Fresh
  <1>4. LoadRenders  BY <1>3, EmptyRenders DEF LoadRenders
  <1> QED  BY <1>1, <1>2, <1>4 DEF ContentInv, PublishedEnds

\* Every step keeps the load's list a rendering of what was given.
LEMMA ContentNextInv == ContentInv /\ [ManagerNext]_managerVars => ContentInv'
  <1> SUFFICES ASSUME ContentInv, [ManagerNext]_managerVars PROVE ContentInv'  OBVIOUS
  <1>1. SpaceInv' /\ ListIs' /\ SpaceInv
    BY SpaceNextInv, FlushedListPrime DEF ContentInv, SpaceInv
  <1>2. ASSUME UNCHANGED models  PROVE PublishedEnds'
    BY <1>2 DEF ContentInv, PublishedEnds, Ends, Latest, NamesIn
  <1>3. ASSUME load'.given = <<>>, load'.buckets = <<>>, load'.current = NoBucket
        PROVE  LoadRenders'
    <2>1. (Flushed.buckets)' = <<>>  BY <1>1, <1>3 DEF ListIs
    <2>2. Renders((Flushed.buckets)', load'.model, load'.given, pool', PoolBase')
      BY <1>3, <2>1, EmptyRenders
    <2> QED  BY <2>2 DEF LoadRenders
  <1>4. CASE UNCHANGED managerVars
    <2>1. LoadRenders'
      BY <1>4 DEF ContentInv, managerVars, LoadRenders, Renders, Flushed, CurrentMetadata,
                  BasePtr, PoolBase
    <2>2. UNCHANGED models  BY <1>4 DEF managerVars
    <2> QED  BY <1>1, <1>2, <2>1, <2>2 DEF ContentInv
  <1>5. ASSUME NEW m \in Models, BeginLoad(m)  PROVE ContentInv'
    <2>1. load' = Fresh(m) /\ UNCHANGED models  BY <1>5 DEF BeginLoad
    <2> QED  BY <1>1, <1>2, <1>3, <2>1 DEF ContentInv, Fresh
  <1>6. ASSUME NEW t \in Tensors, PackIntoCurrent(t) \/ PackIntoNew(t) \/ PackOversize(t)
        PROVE  ContentInv'
    <2>1. LoadRenders'  BY <1>6, CurrentRenders, NewRenders, OversizeRenders
    <2>2. UNCHANGED models
      BY <1>6 DEF PackIntoCurrent, PackIntoNew, PackOversize, OpenBucketAndCopy
    <2> QED  BY <1>1, <1>2, <2>1, <2>2 DEF ContentInv
  <1>7. ASSUME SourceFails \/ \E t \in Tensors : PoolExhausted(t)  PROVE ContentInv'
    <2>1. load' = Idle /\ UNCHANGED models  BY <1>7 DEF SourceFails, PoolExhausted
    <2> QED  BY <1>1, <1>2, <1>3, <2>1 DEF ContentInv, Idle, Fresh
  <1>8. ASSUME Publish  PROVE ContentInv'
    <2>1. load' = Idle /\ models' = With(models, load.model, Flushed.buckets)
      BY <1>8 DEF Publish
    <2>2. LoadRenders'  BY <1>3, <2>1 DEF Idle, Fresh
    <2>3. Ends(Flushed.buckets)  BY DEF ContentInv, LoadRenders, Renders, Ends
    <2>4. \A m \in DOMAIN models' :
              \/ models'[m] = Flushed.buckets
              \/ m \in DOMAIN models /\ models'[m] = models[m]
      BY <2>1 DEF With
    <2>5. \A m \in DOMAIN models' : Ends(models'[m])
      BY <2>3, <2>4 DEF ContentInv, PublishedEnds
    <2>6. PublishedEnds'  BY <2>5 DEF PublishedEnds, Ends, Latest, NamesIn
    <2> QED  BY <1>1, <2>2, <2>6 DEF ContentInv
  <1>9. CASE ManagerNext
    BY <1>5, <1>6, <1>7, <1>8, <1>9 DEF ManagerNext
  <1> QED  BY <1>4, <1>9

-----------------------------------------------------------------------------
(* The catalog.                                                            *)

Catalogued == [m \in DOMAIN models |-> Received(m)]

Arriving == [model |-> load.model, given |-> load.given]

\* The catalog, in terms of the lists of the models.
LEMMA CataloguedIs ==
    Catalogued = [m \in DOMAIN models |-> ReceivedOf(models[m], pool, PoolBase)]
  BY ReceivedIs DEF Catalogued

\* The same of the next state.
LEMMA CataloguedPrime ==
    Catalogued' = [m \in DOMAIN models' |-> ReceivedOf(models'[m], pool', PoolBase')]
  <1>1. (Catalogued = [m \in DOMAIN models |-> ReceivedOf(models[m], pool, PoolBase)])'
    BY CataloguedIs, PTL
  <1> QED  BY <1>1

\* What a published model is received as stays.
LEMMA PublishedStays ==
    ASSUME ContentInv, [ManagerNext]_managerVars, NEW m \in DOMAIN models
    PROVE  ReceivedOf(models[m], pool', PoolBase') = ReceivedOf(models[m], pool, PoolBase)
  <1>1. models[m] \in Seq(Bucket) /\ AllRight(models[m], allocations)
    BY DEF ContentInv, SpaceInv, ManagerInv, ModelsOK
  <1>2. Ends(models[m])  BY DEF ContentInv, PublishedEnds
  <1> QED  BY <1>1, <1>2, ReceivedStays DEF ContentInv

\* Nothing that is published changes while no model is.
LEMMA CatalogStays ==
    ASSUME ContentInv, [ManagerNext]_managerVars, UNCHANGED models
    PROVE  Catalogued' = Catalogued
  <1>1. Catalogued' = [m \in DOMAIN models |-> ReceivedOf(models[m], pool', PoolBase')]
    BY CataloguedPrime
  <1>2. \A m \in DOMAIN models :
           ReceivedOf(models[m], pool', PoolBase') = ReceivedOf(models[m], pool, PoolBase)
    BY PublishedStays
  <1> QED  BY <1>1, <1>2, CataloguedIs

\* A load is a record other than Idle exactly when the catalog expects one.
LEMMA BusyIs ==
    ASSUME ContentInv
    PROVE  load # Idle => Arriving # Promise!Nothing
  <1>1. load # Idle => load.model # NoModel
    BY DEF ContentInv, SpaceInv, ManagerInv, LoadOK
  <1> QED  BY <1>1 DEF Arriving, Promise!Nothing

\* The catalog begins empty.
LEMMA CatalogBegins == ManagerInit => Promise!CatalogInit
  BY DEF ManagerInit, Promise!CatalogInit, Promise!Nothing, Idle, Fresh

\* Every step of a load is a step of the catalog, or none.
LEMMA CatalogStep ==
    ContentInv /\ [ManagerNext]_managerVars => [Promise!CatalogNext]_(Promise!catalogVars)
  <1> SUFFICES ASSUME ContentInv, [ManagerNext]_managerVars
               PROVE  [Promise!CatalogNext]_(Promise!catalogVars)
    OBVIOUS
  <1>1. UNCHANGED models => Catalogued' = Catalogued  BY CatalogStays
  <1>2. CASE UNCHANGED managerVars
    <2>1. UNCHANGED models /\ UNCHANGED load  BY <1>2 DEF managerVars
    <2> QED  BY <1>1, <2>1 DEF Promise!catalogVars, Catalogued
  <1>3. ASSUME NEW m \in Models, BeginLoad(m)  PROVE Promise!Begin(m)
    <2>1. load = Idle /\ m \notin DOMAIN models /\ load' = Fresh(m) /\ UNCHANGED models
      BY <1>3 DEF BeginLoad
    <2> QED  BY <1>1, <2>1 DEF Promise!Begin, Promise!Nothing, Catalogued, Fresh, Idle
  <1>4. ASSUME NEW t \in Tensors, PackIntoCurrent(t) \/ PackIntoNew(t) \/ PackOversize(t)
        PROVE  Promise!Supply(t)
    <2>1. load'.model = load.model /\ load'.given = Append(load.given, t)
      BY <1>4, AfterCurrent, AfterNew, AfterOversize DEF ContentInv, SpaceInv
    <2>2. load # Idle /\ UNCHANGED models
      BY <1>4 DEF PackIntoCurrent, PackIntoNew, PackOversize, OpenBucketAndCopy, Drawing
    <2>3. Arriving # Promise!Nothing  BY <2>2, BusyIs
    <2>4. Catalogued' = Catalogued  BY <1>1, <2>2
    <2>5. Arriving' = [Arriving EXCEPT !.given = Append(Arriving.given, t)]
      BY <2>1 DEF Arriving
    <2> QED  BY <2>3, <2>4, <2>5 DEF Promise!Supply, Arriving, Catalogued
  <1>5. ASSUME SourceFails \/ \E t \in Tensors : PoolExhausted(t)
        PROVE  Promise!Abandon
    <2>1. load # Idle /\ load' = Idle /\ UNCHANGED models
      BY <1>5 DEF SourceFails, PoolExhausted, Drawing
    <2>2. Arriving # Promise!Nothing  BY <2>1, BusyIs
    <2>3. Arriving' = Promise!Nothing
      BY <2>1 DEF Arriving, Promise!Nothing, Idle, Fresh
    <2>4. Catalogued' = Catalogued  BY <1>1, <2>1
    <2> QED  BY <2>2, <2>3, <2>4 DEF Promise!Abandon, Promise!Nothing, Arriving, Catalogued
  <1>6. ASSUME Publish  PROVE Promise!Enter
    <2> DEFINE p == load.model
               new == Promise!Denoted(p, load.given)
               s == Flushed.buckets
    <2>1. load # Idle /\ load' = Idle /\ models' = With(models, p, s)
      BY <1>6 DEF Publish
    <2>2. Arriving # Promise!Nothing  BY <2>1, BusyIs
    <2>3. Arriving' = Promise!Nothing
      BY <2>1 DEF Arriving, Promise!Nothing, Idle, Fresh
    <2>4. DOMAIN models' = DOMAIN models \cup {p} /\ models'[p] = s
      BY <2>1 DEF With
    <2>5. \A m \in DOMAIN models : m # p => models'[m] = models[m]
      BY <2>1 DEF With
    <2>6. ReceivedOf(s, pool', PoolBase') = new
      <3>1. s \in Seq(Bucket) /\ load.given \in Seq(Tensors)
        BY FlushedList DEF ContentInv, SpaceInv, ListIs, ManagerInv, LoadOK, LoadRecord
      <3>2. Renders(s, p, load.given, pool, PoolBase)  BY DEF ContentInv, LoadRenders
      <3>3. ReceivedOf(s, pool, PoolBase) = new  BY <3>1, <3>2, RendersDenoted
      <3>4. pool' = pool /\ PoolBase' = PoolBase  BY <1>6 DEF Publish, PoolBase
      <3> QED  BY <3>3, <3>4
    <2>7. \A m \in DOMAIN models :
             m # p => ReceivedOf(models'[m], pool', PoolBase') = Catalogued[m]
      BY <2>5, PublishedStays, CataloguedIs
    <2>8. Catalogued' = [m \in DOMAIN models \cup {p} |->
                            ReceivedOf(models'[m], pool', PoolBase')]
      BY <2>4, CataloguedPrime
    <2>9. Catalogued' = [m \in DOMAIN models \cup {p} |-> IF m = p THEN new ELSE Catalogued[m]]
      <3> HIDE DEF new, p, s
      <3> QED  BY <2>4, <2>6, <2>7, <2>8
    <2>10. DOMAIN Catalogued = DOMAIN models  BY DEF Catalogued
    <2> QED
      BY <2>2, <2>3, <2>9, <2>10 DEF Promise!Enter, Promise!Nothing, Arriving, Catalogued
  <1>7. CASE ManagerNext
    <2>1. Promise!CatalogNext
      BY <1>3, <1>4, <1>5, <1>6, <1>7 DEF ManagerNext, Promise!CatalogNext
    <2> QED  BY <2>1
  <1> QED  BY <1>2, <1>7

\* Loading implements the catalog: what load_from_named_tensors of model_manager.py
\* publishes, read back as receive_weights of client.py reads it, is what the source
\* named, from the moment it is published and for good.
THEOREM CatalogImplemented == ManagerSpec => ImplementsCatalog
  BY CatalogBegins, CatalogStep, ContentInitInv, ContentNextInv, PTL
  DEF ManagerSpec, ImplementsCatalog, Promise!CatalogSpec
==============================================================================
