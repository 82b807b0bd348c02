---------------------------- MODULE HostMemProofs ----------------------------
(***************************************************************************)
(* Theorems about the host memory pool, for every capacity, alignment and  *)
(* allocator address.                                                      *)
(***************************************************************************)
EXTENDS HostMem, TLAPS

-----------------------------------------------------------------------------
(* Arithmetic of rounding up.                                              *)

\* Division with remainder by a positive number.
LEMMA DivMod ==
    ASSUME NEW v \in Nat, NEW a \in Nat \ {0}
    PROVE  /\ v \div a \in Nat
           /\ v % a \in Nat
           /\ v % a < a
           /\ v = (a * (v \div a)) + (v % a)
  <1>1. v \div a \in Nat  BY SMT
  <1>2. v % a \in Nat /\ v % a < a  BY SMT
  <1>3. v = (a * (v \div a)) + (v % a)  BY SMT
  <1> QED  BY <1>1, <1>2, <1>3

\* A product is a multiple of its factor.
LEMMA MulMod ==
    ASSUME NEW k \in Nat, NEW a \in Nat \ {0}
    PROVE  (k * a) % a = 0
  BY SMT

\* A multiple of a is a times its quotient.
LEMMA MultipleQuotient ==
    ASSUME NEW v \in Nat, NEW a \in Nat \ {0}, v % a = 0
    PROVE  v = (v \div a) * a
  BY DivMod, SMT

\* Multiples of a are closed under addition: an aligned base plus an aligned
\* offset is aligned.
LEMMA SumMod ==
    ASSUME NEW a \in Nat \ {0}, NEW x \in Nat, NEW y \in Nat,
           x % a = 0, y % a = 0
    PROVE  (x + y) % a = 0
  <1> DEFINE i == x \div a
             j == y \div a
  <1>1. i \in Nat /\ j \in Nat  BY DivMod
  <1>2. x = i * a /\ y = j * a  BY MultipleQuotient
  <1> HIDE DEF i, j
  <1>3. x + y = (i + j) * a  BY <1>1, <1>2, SMT
  <1>4. ((i + j) * a) % a = 0  BY <1>1, MulMod
  <1> QED  BY <1>3, <1>4

\* align_up returns the least multiple of the alignment that is not below its
\* argument (host_mem_manager.align_up).
LEMMA AlignUpProperties ==
    ASSUME NEW v \in Nat, NEW a \in Nat \ {0}
    PROVE  /\ AlignUp(v, a) \in Nat
           /\ AlignUp(v, a) >= v
           /\ AlignUp(v, a) < v + a
           /\ AlignUp(v, a) % a = 0
  <1> DEFINE w == v + a - 1
             q == w \div a
  <1>1. w \in Nat  OBVIOUS
  <1>2. q \in Nat /\ w % a \in Nat /\ w % a < a /\ w = (a * q) + (w % a)
    BY <1>1, DivMod
  <1>3. AlignUp(v, a) = q * a  BY DEF AlignUp
  <1>4. (q * a) % a = 0  BY <1>2, MulMod
  <1> HIDE DEF q
  <1>5. q * a \in Nat /\ q * a >= v /\ q * a < v + a  BY <1>2, SMT
  <1> QED  BY <1>3, <1>4, <1>5

\* Multiplying by a positive number reflects the order.
LEMMA MulReflectsOrder ==
    ASSUME NEW x \in Nat, NEW y \in Nat, NEW a \in Nat \ {0}, x * a < y * a
    PROVE  x < y
  <1> SUFFICES ASSUME y <= x PROVE FALSE  OBVIOUS
  <1>1. PICK d \in Nat : x = y + d  BY SMT
  <1>2. x * a = (y * a) + (d * a) /\ d * a \in Nat /\ x * a \in Nat /\ y * a \in Nat
    BY <1>1, SMT
  <1> QED  BY <1>2, SMT

\* The mlock range, two lengths rounded up apart from each other, ends within
\* the last alignment block the owner buffer touches.
THEOREM LockRange ==
    ASSUME rawPtr \in Nat
    PROVE  LockStaysInOwnerBlocks
  <1> DEFINE a == Alignment
             c == CapacityBytes
             P == AlignUp(rawPtr, a)
             L == AlignUp(c, a)
             T == AlignUp(rawPtr + (c + a), a)
  <1>1. a \in Nat \ {0} /\ c \in Nat \ {0}  BY HostMemAssumption
  <1>2. P \in Nat /\ P < rawPtr + a /\ P % a = 0  BY <1>1, AlignUpProperties
  <1>3. L \in Nat /\ L < c + a /\ L % a = 0  BY <1>1, AlignUpProperties
  <1>4. T \in Nat /\ T >= rawPtr + (c + a) /\ T % a = 0
    <2>1. rawPtr + (c + a) \in Nat  BY <1>1
    <2> HIDE DEF c
    <2> QED  BY <1>1, <2>1, AlignUpProperties
  <1> DEFINE p == P \div a
             l == L \div a
             t == T \div a
  <1>5. /\ p \in Nat /\ P = p * a
        /\ l \in Nat /\ L = l * a
        /\ t \in Nat /\ T = t * a
    BY <1>1, <1>2, <1>3, <1>4, DivMod, MultipleQuotient
  <1> HIDE DEF P, L, T, p, l, t
  <1>6. P + L < T + a  BY <1>1, <1>2, <1>3, <1>4
  <1>7. (p + l) * a < (t + 1) * a
    <2>1. (p + l) * a = P + L  BY <1>1, <1>5, SMT
    <2>2. (t + 1) * a = T + a  BY <1>1, <1>5, SMT
    <2> QED  BY <1>6, <2>1, <2>2
  <1>8. p + l < t + 1  BY <1>1, <1>5, <1>7, MulReflectsOrder
  <1>9. p + l <= t  BY <1>5, <1>8
  <1>10. (p + l) * a <= t * a
    <2>1. PICK d \in Nat : t = (p + l) + d  BY <1>5, <1>9, SMT
    <2>2. t * a = ((p + l) * a) + (d * a) /\ d * a \in Nat
      BY <1>1, <1>5, <2>1, SMT
    <2>3. (p + l) * a \in Nat  BY <1>1, <1>5, SMT
    <2> QED  BY <2>2, <2>3
  <1>11. P + L <= T
    <2>1. (p + l) * a = P + L  BY <1>1, <1>5, SMT
    <2> QED  BY <1>5, <1>10, <2>1
  <1> QED
    BY <1>11 DEF LockStaysInOwnerBlocks, PoolBase, LockLength, OwnerBytes,
                 P, L, T

-----------------------------------------------------------------------------
(* The inductive invariant.  BucketsTile alone is inductive with the types; *)
(* the addresses need every offset to be a multiple of the alignment, and   *)
(* the right edge needs used_bytes to stay within the bucket.               *)

Aligned ==
    /\ nextOffset % Alignment = 0
    /\ \A b \in DOMAIN allocations : allocations[b].offset % Alignment = 0

UsedBounded ==
    \A b \in DOMAIN allocations : allocations[b].used <= allocations[b].capacity

HostInv == HostTypeOK /\ BucketsTile /\ Aligned /\ UsedBounded /\ UsedIsRightEdge

\* The constructor establishes every conjunct: there is no bucket yet.
LEMMA HostInitInv == HostInit => HostInv
  <1> SUFFICES ASSUME HostInit PROVE HostInv  OBVIOUS
  <1>1. DOMAIN allocations = {}  BY DEF HostInit
  <1>2. HostTypeOK
    <2>1. nextOffset \in 0 .. CapacityBytes  BY HostMemAssumption DEF HostInit
    <2>2. allocations \in [0 .. nextBucketId - 1 ->
                              [offset : Nat, capacity : Nat \ {0}, used : Nat]]
      BY DEF HostInit
    <2>3. locked \in BOOLEAN  BY HostMemAssumption DEF HostInit
    <2> QED  BY <2>1, <2>2, <2>3 DEF HostInit, HostTypeOK
  <1>3. BucketsTile  BY <1>1 DEF HostInit, BucketsTile
  <1>4. Aligned  BY <1>1, HostMemAssumption DEF HostInit, Aligned
  <1>5. UsedBounded  BY <1>1 DEF UsedBounded
  <1>6. UsedIsRightEdge  BY DEF HostInit, UsedIsRightEdge
  <1> QED  BY <1>2, <1>3, <1>4, <1>5, <1>6 DEF HostInv

\* What the state looks like once a bucket of a request that fits is carved.
LEMMA CarveEffect ==
    ASSUME HostTypeOK, NEW capacity \in Nat \ {0}, NEW used \in Nat,
           HasRoom(capacity), Carve(allocations, capacity, used)
    PROVE  /\ AlignUp(capacity, Alignment) \in Nat \ {0}
           /\ AlignUp(capacity, Alignment) % Alignment = 0
           /\ DOMAIN allocations = 0 .. nextBucketId - 1
           /\ DOMAIN allocations' = 0 .. nextBucketId
           /\ nextBucketId' = nextBucketId + 1
           /\ nextOffset' = nextOffset + AlignUp(capacity, Alignment)
           /\ nextOffset' \in 0 .. CapacityBytes
           /\ allocations'[nextBucketId] =
                  [offset   |-> nextOffset,
                   capacity |-> AlignUp(capacity, Alignment),
                   used     |-> used]
           /\ \A b \in DOMAIN allocations : allocations'[b] = allocations[b]
           /\ allocations' \in [0 .. nextBucketId' - 1 ->
                                    [offset : Nat, capacity : Nat \ {0}, used : Nat]]
  <1> DEFINE c == AlignUp(capacity, Alignment)
             R == [offset : Nat, capacity : Nat \ {0}, used : Nat]
             new == [offset |-> nextOffset, capacity |-> c, used |-> used]
  <1>1. c \in Nat /\ c >= capacity /\ c % Alignment = 0
    BY HostMemAssumption, AlignUpProperties
  <1> HIDE DEF c
  <1>2. c \in Nat \ {0}  BY <1>1
  <1>3. nextBucketId \in Nat /\ nextOffset \in Nat  BY DEF HostTypeOK
  <1>4. allocations \in [0 .. nextBucketId - 1 -> R]  BY DEF HostTypeOK
  <1>5. DOMAIN allocations = 0 .. nextBucketId - 1  BY <1>4
  <1>6. /\ nextOffset' = nextOffset + c
        /\ nextBucketId' = nextBucketId + 1
        /\ allocations' = With(allocations, nextBucketId, new)
    BY DEF Carve, c
  <1>7. nextOffset' \in 0 .. CapacityBytes
    BY <1>2, <1>3, <1>6, HostMemAssumption DEF HasRoom, c
  <1>8. DOMAIN allocations \cup {nextBucketId} = 0 .. nextBucketId
    BY <1>3, <1>5
  <1>9. allocations' = [k \in 0 .. nextBucketId |->
                           IF k = nextBucketId THEN new ELSE allocations[k]]
    BY <1>6, <1>8 DEF With
  <1>10. new \in R  BY <1>2, <1>3
  <1>11. \A b \in DOMAIN allocations : b # nextBucketId /\ b \in 0 .. nextBucketId
    BY <1>3, <1>5
  <1>12. \A b \in DOMAIN allocations : allocations'[b] = allocations[b]
    BY <1>9, <1>11
  <1>13. allocations'[nextBucketId] = new  BY <1>3, <1>9
  <1>14. \A k \in 0 .. nextBucketId : k = nextBucketId \/ k \in DOMAIN allocations
    BY <1>8
  <1>15. allocations' \in [0 .. nextBucketId -> R]
    BY <1>4, <1>5, <1>9, <1>10, <1>14
  <1>16. DOMAIN allocations' = 0 .. nextBucketId  BY <1>9
  <1>17. nextBucketId' - 1 = nextBucketId  BY <1>3, <1>6
  <1> QED
    BY <1>1, <1>2, <1>5, <1>6, <1>7, <1>12, <1>13, <1>15, <1>16, <1>17 DEF c

\* Carving keeps every conjunct that does not read the pool's bytes, for any
\* used_bytes within the bucket: allocate_bucket, and the packing that calls it.
LEMMA CarvePreserves ==
    ASSUME HostTypeOK, BucketsTile, Aligned, UsedBounded,
           NEW capacity \in Nat \ {0}, NEW used \in Nat,
           used <= AlignUp(capacity, Alignment),
           HasRoom(capacity), Carve(allocations, capacity, used)
    PROVE  BucketsTile' /\ Aligned' /\ UsedBounded'
  <1> DEFINE c == AlignUp(capacity, Alignment)
             n == nextBucketId
  <1>1. /\ c \in Nat \ {0} /\ c % Alignment = 0
        /\ DOMAIN allocations = 0 .. n - 1
        /\ DOMAIN allocations' = 0 .. n
        /\ nextBucketId' = n + 1
        /\ nextOffset' = nextOffset + c
        /\ allocations'[n] = [offset |-> nextOffset, capacity |-> c, used |-> used]
        /\ \A b \in DOMAIN allocations : allocations'[b] = allocations[b]
    BY CarveEffect
  <1>2. n \in Nat /\ nextOffset \in Nat  BY DEF HostTypeOK
  <1>3. used <= c  OBVIOUS
  <1> HIDE DEF c
  <1>4. \A b \in DOMAIN allocations' : b = n \/ (b \in DOMAIN allocations /\ b # n)
    BY <1>1, <1>2
  <1>5. \A b \in DOMAIN allocations :
           allocations[b].offset \in Nat /\ allocations[b].capacity \in Nat
    BY DEF HostTypeOK
  <1>6. BucketsTile'
    <2> SUFFICES ASSUME NEW b \in DOMAIN allocations'
                 PROVE  /\ allocations'[b].offset =
                               IF b = 0 THEN 0 ELSE BucketEnd(b - 1)'
                        /\ BucketEnd(b)' <= nextOffset'
                        /\ b = nextBucketId' - 1 => BucketEnd(b)' = nextOffset'
      BY <1>1, <1>2 DEF BucketsTile
    <2>1. b \in Nat  BY <1>1
    <2>2. CASE b = n
      <3>1. /\ allocations'[b].offset = nextOffset
            /\ BucketEnd(b)' = nextOffset + c
        BY <1>1, <2>2 DEF BucketEnd
      <3>2. CASE n = 0
        <4>1. nextOffset = 0  BY <3>2 DEF BucketsTile
        <4> QED  BY <1>1, <1>2, <2>2, <3>1, <3>2, <4>1
      <3>3. CASE n # 0
        <4>1. b - 1 \in DOMAIN allocations  BY <1>1, <1>2, <2>2, <3>3
        <4>2. BucketEnd(b - 1) = nextOffset  BY <2>2, <4>1 DEF BucketsTile
        <4>3. BucketEnd(b - 1)' = BucketEnd(b - 1)  BY <1>1, <4>1 DEF BucketEnd
        <4> QED  BY <1>1, <1>2, <2>2, <3>1, <3>3, <4>2, <4>3
      <3> QED  BY <3>2, <3>3
    <2>3. CASE b \in DOMAIN allocations /\ b # n
      <3>1. BucketEnd(b)' = BucketEnd(b)  BY <1>1, <2>3 DEF BucketEnd
      <3>2. BucketEnd(b) \in Nat  BY <1>5, <2>3 DEF BucketEnd
      <3>3. BucketEnd(b) <= nextOffset  BY <2>3 DEF BucketsTile
      <3>4. b # 0 => b - 1 \in DOMAIN allocations  BY <1>1, <1>2, <2>1, <2>3
      <3>5. b # 0 => BucketEnd(b - 1)' = BucketEnd(b - 1)
        BY <1>1, <3>4 DEF BucketEnd
      <3>6. allocations'[b].offset = IF b = 0 THEN 0 ELSE BucketEnd(b - 1)'
        BY <1>1, <2>3, <3>5 DEF BucketsTile
      <3> QED  BY <1>1, <1>2, <2>3, <3>1, <3>2, <3>3, <3>6
    <2> QED  BY <1>4, <2>2, <2>3
  <1>7. Aligned'
    <2>1. nextOffset' % Alignment = 0
      BY <1>1, <1>2, HostMemAssumption, SumMod DEF Aligned
    <2> QED  BY <1>1, <1>4, <2>1 DEF Aligned
  <1>8. UsedBounded'  BY <1>1, <1>3, <1>4 DEF UsedBounded
  <1> QED  BY <1>6, <1>7, <1>8

\* Allocating, with the used bytes declared or the whole capacity.
LEMMA AllocatePreserves ==
    ASSUME HostInv, NEW capacity \in Nat \ {0}, NEW declared \in BOOLEAN,
           AllocateBucket(capacity, declared)
    PROVE  HostInv'
  <1> USE DEF HostInv
  <1> DEFINE u == IF declared THEN 0 ELSE AlignUp(capacity, Alignment)
  <1>1. HasRoom(capacity) /\ Carve(allocations, capacity, u)  BY DEF AllocateBucket
  <1>2. AlignUp(capacity, Alignment) \in Nat  BY HostMemAssumption, AlignUpProperties
  <1>3. u \in Nat /\ u <= AlignUp(capacity, Alignment)  BY <1>2
  <1> HIDE DEF u
  <1>4. BucketsTile' /\ Aligned' /\ UsedBounded'  BY <1>1, <1>3, CarvePreserves
  <1>5. /\ nextBucketId' = nextBucketId + 1
        /\ nextOffset' \in 0 .. CapacityBytes
        /\ DOMAIN allocations \subseteq DOMAIN allocations'
        /\ \A b \in DOMAIN allocations : allocations'[b] = allocations[b]
        /\ allocations' \in [0 .. nextBucketId' - 1 ->
                                [offset : Nat, capacity : Nat \ {0}, used : Nat]]
    <2>1. 0 .. nextBucketId - 1 \subseteq 0 .. nextBucketId  BY DEF HostTypeOK
    <2> QED  BY <1>1, <1>3, <2>1, CarveEffect
  <1>6. rawPtr' = rawPtr /\ pool' = pool /\ locked' = locked
    BY DEF AllocateBucket
  <1>7. HostTypeOK'  BY <1>5, <1>6 DEF HostTypeOK
  <1>8. UsedIsRightEdge'
    <2> SUFFICES ASSUME NEW i \in DOMAIN pool, pool[i] # NoData
                 PROVE  \E b \in DOMAIN allocations' :
                            /\ allocations'[b].offset <= i
                            /\ i < allocations'[b].offset + allocations'[b].used
                            /\ allocations'[b].used <= allocations'[b].capacity
      BY <1>6 DEF UsedIsRightEdge
    <2>1. PICK b \in DOMAIN allocations :
             /\ allocations[b].offset <= i
             /\ i < allocations[b].offset + allocations[b].used
             /\ allocations[b].used <= allocations[b].capacity
      BY DEF UsedIsRightEdge
    <2>2. b \in DOMAIN allocations' /\ allocations'[b] = allocations[b]  BY <1>5
    <2> QED  BY <2>1, <2>2
  <1> QED  BY <1>4, <1>7, <1>8

\* What a write changes, and what it leaves: only used_bytes of its bucket, and
\* only bytes between its first and its end.
LEMMA WriteEffect ==
    ASSUME HostTypeOK, UsedBounded,
           NEW b \in DOMAIN allocations, NEW at \in Nat, NEW n \in Nat \ {0},
           NEW d \in Data, WriteBytes(b, at, n, d)
    PROVE  /\ allocations' \in [DOMAIN allocations ->
                                   [offset : Nat, capacity : Nat \ {0}, used : Nat]]
           /\ DOMAIN allocations' = DOMAIN allocations
           /\ \A k \in DOMAIN allocations :
                 /\ allocations'[k].offset = allocations[k].offset
                 /\ allocations'[k].capacity = allocations[k].capacity
                 /\ allocations'[k].used >= allocations[k].used
                 /\ allocations'[k].used <= allocations'[k].capacity
           /\ allocations'[b].used >= at + n
           /\ at + n <= allocations[b].capacity
           /\ DOMAIN pool' = DOMAIN pool
           /\ \A i \in DOMAIN pool :
                 \/ pool'[i] = pool[i]
                 \/ /\ pool'[i] = d
                    /\ i \in allocations[b].offset + at ..
                             allocations[b].offset + at + n - 1
  <1> DEFINE R == [offset : Nat, capacity : Nat \ {0}, used : Nat]
             u == IF allocations[b].used >= at + n THEN allocations[b].used
                                                   ELSE at + n
  <1>1. allocations \in [DOMAIN allocations -> R]  BY DEF HostTypeOK
  <1>2. /\ allocations' = [allocations EXCEPT ![b].used = u]
        /\ at + n <= allocations[b].capacity
        /\ pool' = Written(allocations[b].offset + at, n, LAMBDA i : d)
    BY DEF WriteBytes
  <1>3. allocations[b] \in R  BY <1>1
  <1>4. u \in Nat /\ u >= at + n /\ u >= allocations[b].used
    BY <1>3
  <1>5. u <= allocations[b].capacity  BY <1>2 DEF UsedBounded
  <1> HIDE DEF u
  <1>6. allocations' \in [DOMAIN allocations -> R]  BY <1>1, <1>2, <1>4
  <1>7. DOMAIN allocations' = DOMAIN allocations  BY <1>6
  <1>8. allocations'[b].used = u  BY <1>1, <1>2, <1>3
  <1>9. \A k \in DOMAIN allocations :
           /\ allocations'[k].offset = allocations[k].offset
           /\ allocations'[k].capacity = allocations[k].capacity
           /\ k # b => allocations'[k] = allocations[k]
    BY <1>1, <1>2
  <1>10. \A k \in DOMAIN allocations :
            /\ allocations'[k].used >= allocations[k].used
            /\ allocations'[k].used <= allocations'[k].capacity
    <2> TAKE k \in DOMAIN allocations
    <2>1. CASE k = b  BY <1>4, <1>5, <1>8, <1>9, <2>1
    <2>2. CASE k # b
      <3>1. allocations[k].used \in Nat  BY <1>1
      <3> QED  BY <1>9, <2>2, <3>1 DEF UsedBounded
    <2> QED  BY <2>1, <2>2
  <1>11. pool' = [i \in DOMAIN pool |->
                    IF i \in allocations[b].offset + at ..
                             allocations[b].offset + at + n - 1
                    THEN d ELSE pool[i]]
    BY <1>2 DEF Written
  <1> QED  BY <1>2, <1>4, <1>6, <1>7, <1>8, <1>9, <1>10, <1>11

\* A write raises the used edge of its bucket at most, and touches no byte of another.
LEMMA WritePreserves ==
    ASSUME HostInv,
           NEW b \in DOMAIN allocations, NEW at \in Nat, NEW n \in Nat,
           NEW d \in Data, WriteBytes(b, at, n, d)
    PROVE  HostInv'
  <1> USE DEF HostInv
  <1>1. n \in Nat \ {0}  BY DEF WriteBytes
  <1>2. /\ allocations' \in [DOMAIN allocations ->
                                [offset : Nat, capacity : Nat \ {0}, used : Nat]]
        /\ DOMAIN allocations' = DOMAIN allocations
        /\ \A k \in DOMAIN allocations :
              /\ allocations'[k].offset = allocations[k].offset
              /\ allocations'[k].capacity = allocations[k].capacity
              /\ allocations'[k].used >= allocations[k].used
              /\ allocations'[k].used <= allocations'[k].capacity
        /\ allocations'[b].used >= at + n
        /\ DOMAIN pool' = DOMAIN pool
        /\ \A i \in DOMAIN pool :
              \/ pool'[i] = pool[i]
              \/ /\ pool'[i] = d
                 /\ i \in allocations[b].offset + at ..
                          allocations[b].offset + at + n - 1
    BY <1>1, WriteEffect
  <1>3. /\ rawPtr' = rawPtr /\ nextOffset' = nextOffset
        /\ nextBucketId' = nextBucketId /\ locked' = locked
    BY DEF WriteBytes
  <1>4. \A k \in DOMAIN allocations : allocations[k].offset \in Nat
    BY DEF HostTypeOK
  <1>5. HostTypeOK'
    <2>1. DOMAIN allocations = 0 .. nextBucketId - 1  BY DEF HostTypeOK
    <2>2. allocations' \in [0 .. nextBucketId - 1 ->
                               [offset : Nat, capacity : Nat \ {0}, used : Nat]]
      BY <1>2, <2>1
    <2>3. pool' \in [0 .. CapacityBytes - 1 -> Data \cup {NoData}]
      <3>1. pool' = [i \in DOMAIN pool' |-> pool'[i]]
        BY DEF WriteBytes, Written
      <3>2. DOMAIN pool' = 0 .. CapacityBytes - 1  BY <1>2 DEF HostTypeOK
      <3>3. \A i \in 0 .. CapacityBytes - 1 : pool'[i] \in Data \cup {NoData}
        BY <1>2 DEF HostTypeOK
      <3> QED  BY <3>1, <3>2, <3>3
    <2> QED  BY <1>3, <2>2, <2>3 DEF HostTypeOK
  <1>6. \A k \in DOMAIN allocations : BucketEnd(k)' = BucketEnd(k)
    BY <1>2 DEF BucketEnd
  <1>7. BucketsTile'
    <2>1. \A k \in DOMAIN allocations : k # 0 => k - 1 \in DOMAIN allocations
      BY DEF HostTypeOK
    <2> QED  BY <1>2, <1>3, <1>6, <2>1 DEF BucketsTile
  <1>8. Aligned'  BY <1>2, <1>3 DEF Aligned
  <1>9. UsedBounded'  BY <1>2 DEF UsedBounded
  <1>10. UsedIsRightEdge'
    <2> SUFFICES ASSUME NEW i \in DOMAIN pool, pool'[i] # NoData
                 PROVE  \E k \in DOMAIN allocations :
                            /\ allocations'[k].offset <= i
                            /\ i < allocations'[k].offset + allocations'[k].used
                            /\ allocations'[k].used <= allocations'[k].capacity
      BY <1>2 DEF UsedIsRightEdge
    <2>1. \A k \in DOMAIN allocations :
             allocations[k].used \in Nat /\ allocations'[k].used \in Nat
      BY <1>2 DEF HostTypeOK
    <2>2. i \in Nat  BY DEF HostTypeOK
    <2>3. CASE pool'[i] = pool[i]
      <3>1. PICK k \in DOMAIN allocations :
               /\ allocations[k].offset <= i
               /\ i < allocations[k].offset + allocations[k].used
        BY <2>3 DEF UsedIsRightEdge
      <3> QED  BY <1>2, <1>4, <2>1, <2>2, <3>1
    <2>4. CASE i \in allocations[b].offset + at ..
                     allocations[b].offset + at + n - 1
      <3>1. allocations'[b].offset <= i  BY <1>2, <1>4, <2>4
      <3>2. i < allocations'[b].offset + allocations'[b].used
        BY <1>2, <1>4, <2>1, <2>4
      <3> QED  BY <1>2, <3>1, <3>2
    <2> QED  BY <1>2, <2>3, <2>4
  <1> QED  BY <1>5, <1>7, <1>8, <1>9, <1>10

\* No step of the pool, nor a step that leaves it alone, breaks the invariant.
LEMMA HostNextInv == HostInv /\ [HostNext]_hostVars => HostInv'
  <1> SUFFICES ASSUME HostInv, [HostNext]_hostVars PROVE HostInv'  OBVIOUS
  <1>1. ASSUME NEW capacity \in 1 .. CapacityBytes, NEW declared \in BOOLEAN,
               AllocateBucket(capacity, declared)
        PROVE  HostInv'
    <2>1. capacity \in Nat \ {0}  OBVIOUS
    <2> QED  BY <1>1, <2>1, AllocatePreserves
  <1>2. ASSUME NEW b \in DOMAIN allocations,
               NEW at \in 0 .. CapacityBytes, NEW n \in 0 .. CapacityBytes,
               NEW d \in Data, WriteBytes(b, at, n, d)
        PROVE  HostInv'
    <2>1. at \in Nat /\ n \in Nat  OBVIOUS
    <2> QED  BY <1>2, <2>1, WritePreserves
  <1>3. CASE Close
    BY <1>3 DEF Close, HostInv, HostTypeOK, BucketsTile, BucketEnd, Aligned,
                UsedBounded, UsedIsRightEdge
  <1>4. CASE UNCHANGED hostVars
    BY <1>4 DEF hostVars, HostInv, HostTypeOK, BucketsTile, BucketEnd, Aligned,
                UsedBounded, UsedIsRightEdge
  <1> QED  BY <1>1, <1>2, <1>3, <1>4 DEF HostNext

-----------------------------------------------------------------------------
\* The inductive invariant holds in every state of a pool of host_mem_manager.py.
THEOREM InductiveInvariant == HostSpec => []HostInv
  BY HostInitInv, HostNextInv, PTL DEF HostSpec

\* Every variable keeps its type, the frontier never passes the capacity.
THEOREM TypeCorrect == HostSpec => []HostTypeOK
  <1>1. HostInv => HostTypeOK  BY DEF HostInv
  <1> QED  BY <1>1, InductiveInvariant, PTL

\* Buckets tile the used part of the pool.
THEOREM Tiling == HostSpec => []BucketsTile
  <1>1. HostInv => BucketsTile  BY DEF HostInv
  <1> QED  BY <1>1, InductiveInvariant, PTL

\* Every byte that was written lies below its bucket's used_bytes.
THEOREM RightEdge == HostSpec => []UsedIsRightEdge
  <1>1. HostInv => UsedIsRightEdge  BY DEF HostInv
  <1> QED  BY <1>1, InductiveInvariant, PTL

\* Every bucket is aligned in absolute terms and lies in the owner buffer,
\* whatever address the allocator returned.
THEOREM Registrable == HostSpec => []BucketsRegistrable
  <1>1. HostInv => BucketsRegistrable
    <2> SUFFICES ASSUME HostInv, NEW b \in DOMAIN allocations
                 PROVE  /\ BasePtr(b) % Alignment = 0
                        /\ BasePtr(b) >= rawPtr
                        /\ PoolBase + BucketEnd(b) <= rawPtr + OwnerBytes
      BY DEF BucketsRegistrable
    <2>1. rawPtr \in Nat  BY HostMemAssumption DEF HostInv, HostTypeOK
    <2>2. /\ PoolBase \in Nat /\ PoolBase % Alignment = 0
          /\ PoolBase >= rawPtr /\ PoolBase < rawPtr + Alignment
      BY <2>1, HostMemAssumption, AlignUpProperties DEF PoolBase
    <2>3. /\ allocations[b].offset \in Nat
          /\ allocations[b].capacity \in Nat
          /\ allocations[b].offset % Alignment = 0
      BY DEF HostInv, HostTypeOK, Aligned
    <2>4. BasePtr(b) % Alignment = 0
      BY <2>2, <2>3, HostMemAssumption, SumMod DEF BasePtr
    <2>5. BasePtr(b) >= rawPtr  BY <2>1, <2>2, <2>3 DEF BasePtr
    <2>6. BucketEnd(b) <= CapacityBytes
      <3>1. BucketEnd(b) <= nextOffset  BY DEF HostInv, BucketsTile
      <3>2. nextOffset \in Nat /\ nextOffset <= CapacityBytes
        BY HostMemAssumption DEF HostInv, HostTypeOK
      <3> QED  BY <2>3, <3>1, <3>2, HostMemAssumption DEF BucketEnd
    <2>7. PoolBase + BucketEnd(b) <= rawPtr + OwnerBytes
      BY <2>1, <2>2, <2>3, <2>6, HostMemAssumption DEF OwnerBytes, BucketEnd
    <2> QED  BY <2>4, <2>5, <2>7
  <1> QED  BY <1>1, InductiveInvariant, PTL

\* The mlock range stays within the blocks of the owner buffer.
THEOREM LockSafe == HostSpec => []LockStaysInOwnerBlocks
  <1>1. HostInv => LockStaysInOwnerBlocks
    <2> SUFFICES ASSUME HostInv PROVE LockStaysInOwnerBlocks  OBVIOUS
    <2>1. rawPtr \in Nat  BY HostMemAssumption DEF HostInv, HostTypeOK
    <2> QED  BY <2>1, LockRange
  <1> QED  BY <1>1, InductiveInvariant, PTL

\* One write reaches bytes of one bucket only; carving reaches none.
THEOREM Isolation == HostSpec => WriteIsolation
  <1>1. HostInv /\ [HostNext]_hostVars => [WriteStaysInOneBucket]_hostVars
    <2> SUFFICES ASSUME HostInv, HostNext PROVE WriteStaysInOneBucket
      BY DEF hostVars
    <2>1. ASSUME NEW b \in DOMAIN allocations,
                 NEW at \in 0 .. CapacityBytes, NEW n \in 0 .. CapacityBytes,
                 NEW d \in Data, WriteBytes(b, at, n, d)
          PROVE  WriteStaysInOneBucket
      <3>1. n \in Nat \ {0} /\ at \in Nat  BY <2>1 DEF WriteBytes
      <3>2. /\ at + n <= allocations[b].capacity
            /\ \A i \in DOMAIN pool :
                  \/ pool'[i] = pool[i]
                  \/ i \in allocations[b].offset + at ..
                           allocations[b].offset + at + n - 1
        BY <2>1, <3>1, WriteEffect DEF HostInv
      <3>3. allocations[b].offset \in Nat /\ allocations[b].capacity \in Nat
        BY DEF HostInv, HostTypeOK
      <3>4. \A i \in DOMAIN pool :
               pool'[i] # pool[i] =>
                  allocations[b].offset <= i /\ i < BucketEnd(b)
        BY <3>1, <3>2, <3>3 DEF BucketEnd
      <3> QED  BY <3>4 DEF WriteStaysInOneBucket
    <2>2. CASE pool' = pool
      BY <2>2 DEF WriteStaysInOneBucket
    <2> QED  BY <2>1, <2>2 DEF HostNext, AllocateBucket, Close
  <1> QED  BY <1>1, InductiveInvariant, PTL DEF HostSpec, WriteIsolation

\* A bucket that exists keeps its place and capacity and never unwrites.
THEOREM Forever == HostSpec => AllocationsAreForever
  <1>1. HostInv /\ [HostNext]_hostVars => [BucketsStay]_hostVars
    <2> SUFFICES ASSUME HostInv, HostNext PROVE BucketsStay
      BY DEF hostVars
    <2>1. \A b \in DOMAIN allocations : allocations[b].used \in Nat
      BY DEF HostInv, HostTypeOK
    <2>2. ASSUME NEW capacity \in 1 .. CapacityBytes, NEW declared \in BOOLEAN,
                 AllocateBucket(capacity, declared)
          PROVE  BucketsStay
      <3> DEFINE u == IF declared THEN 0 ELSE AlignUp(capacity, Alignment)
      <3>1. HasRoom(capacity) /\ Carve(allocations, capacity, u)
        BY <2>2 DEF AllocateBucket
      <3>2. u \in Nat  BY HostMemAssumption, AlignUpProperties
      <3> HIDE DEF u
      <3>0. capacity \in Nat \ {0}  OBVIOUS
      <3>3. /\ \A b \in DOMAIN allocations : allocations'[b] = allocations[b]
            /\ DOMAIN allocations = 0 .. nextBucketId - 1
            /\ DOMAIN allocations' = 0 .. nextBucketId
        BY <3>0, <3>1, <3>2, CarveEffect DEF HostInv
      <3>4. \A b \in DOMAIN allocations : b \in DOMAIN allocations'
        BY <3>3 DEF HostInv, HostTypeOK
      <3> QED  BY <2>1, <3>3, <3>4 DEF BucketsStay
    <2>3. ASSUME NEW b \in DOMAIN allocations,
                 NEW at \in 0 .. CapacityBytes, NEW n \in 0 .. CapacityBytes,
                 NEW d \in Data, WriteBytes(b, at, n, d)
          PROVE  BucketsStay
      <3>1. n \in Nat \ {0} /\ at \in Nat  BY <2>3 DEF WriteBytes
      <3> QED  BY <2>3, <3>1, WriteEffect DEF BucketsStay, HostInv
    <2>4. CASE Close  BY <2>1, <2>4 DEF Close, BucketsStay
    <2> QED  BY <2>2, <2>3, <2>4 DEF HostNext
  <1> QED  BY <1>1, InductiveInvariant, PTL DEF HostSpec, AllocationsAreForever
=============================================================================
