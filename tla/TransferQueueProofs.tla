-------------------------- MODULE TransferQueueProofs --------------------------
(***************************************************************************)
(* The queue of the async_flow recipe keeps its invariants for any number  *)
(* of shards, workers, rows and groups, and any shares.  The inductive     *)
(* invariant is built up in layers, each of which rests on those before    *)
(* it: the shape of the state (WorkInv), puts that are under way (PutInv), *)
(* what the shards store (StoredInv), the train ranks (TrainInv), and the  *)
(* forward workers with what was delivered (QueueInv).  After a lemma per  *)
(* layer on the steps that can change what it speaks of, the lemma that it *)
(* is kept has a step for each of these only.  The steps of a deletion are *)
(* taken in two: the one that takes the rows off the manager (Deletes) and *)
(* those that empty the groups afterwards, or fail (Leaves).               *)
(***************************************************************************)
EXTENDS TransferQueue, Sums

-----------------------------------------------------------------------------
(* Data: the first elements of a set, rows and groups.                     *)

\* The greater of zero and a number.
LEMMA AtLeastZero ==
    ASSUME NEW n \in Int
    PROVE  Max({0, n}) = IF n > 0 THEN n ELSE 0
  BY DEF Max

\* A worker gets at most as many rows as it asks for, and some when there are any.
LEMMA FirstRows ==
    ASSUME NEW n \in Nat \ {0}, NEW rows \in SUBSET Rows
    PROVE  /\ First(n, rows) \subseteq rows
           /\ IsFiniteSet(First(n, rows))
           /\ Cardinality(First(n, rows)) <= n
           /\ rows # {} => First(n, rows) # {}
  <1> DEFINE first == First(n, rows)
  <1>1. first \subseteq rows  BY DEF First
  <1>2. Rows \subseteq Nat /\ IsFiniteSet(Rows)
    <2>1. MaxGroups * NSamples - 1 \in Int  BY QueueAssumption
    <2> QED  BY <2>1, FS_Interval DEF Rows
  <1>3. \A r \in SUBSET Rows : IsFiniteSet(r) /\ Cardinality(r) \in Nat  BY <1>2, FS_Subset, FS_CardinalityType
  <1> \A i \in rows : i \in Int  BY <1>2
  <1>4. Cardinality(first) <= n
    <2>1. CASE first = {}
      <3>1. Cardinality(first) = 0  BY <2>1, FS_EmptySet
      <3> QED  BY <3>1
    <2>2. CASE first # {}
      <3>1. PICK m \in first : \A x \in first : x <= m
        <4> HIDE DEF first
        <4>1. first \in SUBSET Int /\ IsFiniteSet(first)  BY <1>1, <1>2, <1>3
        <4> QED  BY <4>1, <2>2, GreatestElement
      <3> DEFINE below == {j \in rows : j < m}
      <3>2. Cardinality(below) < n  BY <3>1 DEF First
      <3>3. first \ {m} \subseteq below  BY <3>1, <1>1
      <3>4. Cardinality(first \ {m}) <= Cardinality(below)
        <4>1. IsFiniteSet(below)  BY <1>3
        <4> HIDE DEF below, first
        <4> QED  BY <4>1, <3>3, FS_Subset
      <3>5. Cardinality(first \ {m}) = Cardinality(first) - 1
        <4> HIDE DEF first
        <4>1. IsFiniteSet(first)  BY <1>1, <1>3
        <4> QED  BY <4>1, <3>1, FS_RemoveElement
      <3>6. Cardinality(first) \in Nat /\ Cardinality(below) \in Nat  BY <1>1, <1>3
      <3> HIDE DEF first, below
      <3> QED  BY <3>2, <3>4, <3>5, <3>6
    <2> QED  BY <2>1, <2>2
  <1>5. ASSUME rows # {}  PROVE first # {}
    <2>1. PICK m \in rows : \A x \in rows : m <= x
      <3>1. rows \in SUBSET Int /\ IsFiniteSet(rows)  BY <1>2, <1>3
      <3> QED  BY <3>1, <1>5, LeastElement
    <2>2. {j \in rows : j < m} = {}  BY <2>1
    <2>3. Cardinality({j \in rows : j < m}) < n  BY <2>2, FS_EmptySet
    <2> QED  BY <2>3 DEF First
  <1> QED  BY <1>1, <1>3, <1>4, <1>5

\* The group a row belongs to.
GroupOf(i) == i \div NSamples

\* Each row is of one group, and each group has rows.
LEMMA RowGroups ==
    /\ \A i \in Rows : GroupOf(i) \in Groups /\ i \in RowsOf(GroupOf(i))
    /\ \A g \in Groups : \A i \in RowsOf(g) : i \in Rows /\ GroupOf(i) = g
    /\ \A g \in Groups : g * NSamples \in RowsOf(g)
  <1>1. NSamples \in Nat \ {0} /\ MaxGroups \in Nat \ {0}  BY QueueAssumption
  <1>2. ASSUME NEW i \in Nat
        PROVE  /\ GroupOf(i) \in Nat
               /\ GroupOf(i) * NSamples <= i
               /\ i <= GroupOf(i) * NSamples + NSamples - 1
    <2>1. i = NSamples * (i \div NSamples) + (i % NSamples)  BY <1>1
    <2>2. i % NSamples \in 0 .. (NSamples - 1)  BY <1>1
    <2>3. i \div NSamples \in Nat  BY <1>1
    <2> QED  BY <2>1, <2>2, <2>3, <1>1 DEF GroupOf
  <1>3. ASSUME NEW i \in Nat, NEW g \in Nat, g * NSamples <= i, i <= g * NSamples + NSamples - 1
        PROVE  GroupOf(i) = g
    <2> DEFINE h == GroupOf(i)
    <2>1. h \in Nat /\ h * NSamples <= i /\ i <= h * NSamples + NSamples - 1  BY <1>2
    <2> HIDE DEF h
    <2>2. ~ (h < g)
      <3> SUFFICES ASSUME h + 1 <= g PROVE FALSE  BY <2>1
      <3>1. (h + 1) * NSamples <= g * NSamples  BY <1>1, <2>1
      <3>2. (h + 1) * NSamples = h * NSamples + NSamples  BY <1>1, <2>1
      <3>3. h * NSamples \in Nat /\ g * NSamples \in Nat  BY <1>1, <2>1
      <3> QED  BY <3>1, <3>2, <3>3, <2>1, <1>3, <1>1
    <2>3. ~ (g < h)
      <3> SUFFICES ASSUME g + 1 <= h PROVE FALSE  BY <2>1
      <3>1. (g + 1) * NSamples <= h * NSamples  BY <1>1, <2>1
      <3>2. (g + 1) * NSamples = g * NSamples + NSamples  BY <1>1, <2>1
      <3>3. h * NSamples \in Nat /\ g * NSamples \in Nat  BY <1>1, <2>1
      <3> QED  BY <3>1, <3>2, <3>3, <2>1, <1>3, <1>1
    <2> QED  BY <2>1, <2>2, <2>3 DEF h
  <1>4. ASSUME NEW i \in Rows  PROVE GroupOf(i) \in Groups /\ i \in RowsOf(GroupOf(i))
    <2>1. i \in Nat /\ i < MaxGroups * NSamples  BY <1>1 DEF Rows
    <2> DEFINE h == GroupOf(i)
    <2>2. h \in Nat /\ h * NSamples <= i /\ i <= h * NSamples + NSamples - 1  BY <1>2, <2>1
    <2> HIDE DEF h
    <2>3. h < MaxGroups
      <3> SUFFICES ASSUME MaxGroups <= h PROVE FALSE  BY <1>1, <2>2
      <3>1. MaxGroups * NSamples <= h * NSamples  BY <1>1, <2>2
      <3>2. MaxGroups * NSamples \in Nat /\ h * NSamples \in Nat  BY <1>1, <2>2
      <3> QED  BY <3>1, <3>2, <2>1, <2>2
    <2>4. h * NSamples \in Nat  BY <1>1, <2>2
    <2> QED  BY <1>1, <2>1, <2>2, <2>3, <2>4 DEF h, Groups, RowsOf
  <1>5. ASSUME NEW g \in Groups
        PROVE  g * NSamples \in RowsOf(g) /\ \A i \in RowsOf(g) : i \in Rows /\ GroupOf(i) = g
    <2>1. g \in Nat /\ g + 1 <= MaxGroups  BY <1>1 DEF Groups
    <2>2. (g + 1) * NSamples <= MaxGroups * NSamples  BY <1>1, <2>1
    <2>3. (g + 1) * NSamples = g * NSamples + NSamples  BY <1>1, <2>1
    <2>4. g * NSamples \in Nat /\ MaxGroups * NSamples \in Nat  BY <1>1, <2>1
    <2>5. ASSUME NEW i \in RowsOf(g)  PROVE i \in Rows /\ GroupOf(i) = g
      <3>1. i \in Nat /\ g * NSamples <= i /\ i <= g * NSamples + NSamples - 1  BY <2>4, <1>1 DEF RowsOf
      <3>2. i \in Rows  BY <3>1, <2>2, <2>3, <2>4, <1>1 DEF Rows
      <3> QED  BY <3>1, <3>2, <2>1, <1>3
    <2>6. g * NSamples \in RowsOf(g)  BY <2>4, <1>1 DEF RowsOf
    <2> QED  BY <2>5, <2>6
  <1> QED  BY <1>4, <1>5

-----------------------------------------------------------------------------
(* Allocation.                                                             *)

\* The average that get_allocation_for_new_groups gives a shard.
Target(total, s) == total \div NumShards + (IF s < total % NumShards THEN 1 ELSE 0)

\* There are finitely many shards, one at least.
LEMMA ShardFacts ==
    /\ NumShards \in Nat \ {0}
    /\ IsFiniteSet(Shards)
    /\ \A s \in Shards : s \in Nat
    /\ \A s \in Nat : IsFiniteSet(0..(s - 1))
    /\ \A s \in Shards : 0..(s - 1) \in SUBSET Shards
  <1>1. NumShards \in Nat \ {0}  BY QueueAssumption
  <1>2. \A n \in Int : IsFiniteSet(0..n)  BY FS_Interval
  <1> QED  BY <1>1, <1>2 DEF Shards

\* The averages make up the total.
LEMMA TargetsSum ==
    ASSUME NEW total \in Nat
    PROVE  SumFunctionOnSet([s \in Shards |-> Target(total, s)], Shards) = total
  <1> DEFINE q == total \div NumShards
             r == total % NumShards
             f == [s \in Shards |-> Target(total, s)]
             Sum(n) == SumFunctionOnSet(f, 0..(n - 1))
             Formula(n) == n * q + (IF n < r THEN n ELSE r)
             Bad == {n \in 0..NumShards : Sum(n) # Formula(n)}
  <1>1. q \in Nat /\ r \in 0..(NumShards - 1) /\ total = NumShards * q + r  BY ShardFacts
  <1>2. \A s \in Shards : f[s] = q + (IF s < r THEN 1 ELSE 0)  BY DEF Target
  <1> HIDE DEF q, r, f
  <1>3. Bad = {}
    <2> SUFFICES ASSUME Bad # {} PROVE FALSE  OBVIOUS
    <2>1. PICK n \in Bad : \A m \in Bad : n <= m
      <3>1. Bad \in SUBSET Nat  OBVIOUS
      <3> HIDE DEF Bad
      <3> QED  BY <3>1, LeastNat
    <2>2. CASE n = 0
      <3>1. 0..(0 - 1) = {}  OBVIOUS
      <3>2. Sum(0) = 0  BY <3>1, SumEmpty
      <3>3. Formula(0) = 0  BY <1>1
      <3> QED  BY <3>2, <3>3, <2>1, <2>2
    <2>3. CASE n # 0
      <3> DEFINE k == n - 1
      <3>1. k \in Nat /\ k \in Shards /\ k \in 0..NumShards /\ n = k + 1  BY <2>1, <2>3, ShardFacts DEF Shards
      <3> HIDE DEF k
      <3>2. Sum(k) = Formula(k)
        <4>1. k \notin Bad  BY <3>1, <2>1
        <4> QED  BY <4>1, <3>1
      <3>3. Sum(n) = f[k] + Sum(k)
        <4>1. 0..(n - 1) = (0..(k - 1)) \cup {k} /\ k \notin 0..(k - 1)  BY <3>1
        <4>2. IsFiniteSet(0..(k - 1))  BY <3>1, ShardFacts
        <4>3. \A s \in (0..(k - 1)) \cup {k} : f[s] \in Int
          <5>1. (0..(k - 1)) \cup {k} \subseteq Shards  BY <3>1, ShardFacts DEF Shards
          <5> QED  BY <5>1, <1>1, <1>2
        <4> QED  BY <4>1, <4>2, <4>3, SumAdd
      <3>4. f[k] = q + (IF k < r THEN 1 ELSE 0)  BY <3>1, <1>2
      <3>5. (k + 1) * q = k * q + q /\ k * q \in Nat  BY <3>1, <1>1
      <3>6. Formula(n) = f[k] + Formula(k)  BY <3>1, <3>4, <3>5, <1>1
      <3> QED  BY <3>2, <3>3, <3>6, <2>1
    <2> QED  BY <2>2, <2>3
  <1>4. NumShards \in 0..NumShards  BY ShardFacts
  <1>5. Sum(NumShards) = Formula(NumShards)  BY <1>3, <1>4
  <1>6. Formula(NumShards) = total  BY <1>1, ShardFacts
  <1> QED  BY <1>5, <1>6 DEF Shards, f

\* What one more row asks of the shards is no less than nothing, and something of one.
LEMMA NeededFacts ==
    ASSUME NEW holds \in [Shards -> Nat]
    PROVE  /\ \A s \in Shards : Needed(holds, s) \in Nat
           /\ \E s \in Shards : Needed(holds, s) > 0
  <1> DEFINE total == SumFunctionOnSet(holds, Shards) + 1
             f == [s \in Shards |-> Target(total, s)]
  <1>1. total \in Nat  BY SumNat, ShardFacts
  <1>2. \A s \in Shards : Needed(holds, s) = Max({0, Target(total, s) - holds[s]})
    BY DEF Needed, Target, SumFunction
  <1> HIDE DEF total
  <1>3. \A s \in Shards : Target(total, s) \in Nat
    <2>1. total \div NumShards \in Nat  BY <1>1, ShardFacts
    <2> QED  BY <2>1 DEF Target
  <1>4. \A s \in Shards : Needed(holds, s) =
            IF Target(total, s) - holds[s] > 0 THEN Target(total, s) - holds[s] ELSE 0
    <2> TAKE s \in Shards
    <2>1. Target(total, s) - holds[s] \in Int  BY <1>3
    <2> QED  BY <2>1, <1>2, AtLeastZero
  <1>5. \E s \in Shards : Needed(holds, s) > 0
    <2> SUFFICES ASSUME \A s \in Shards : ~ (Needed(holds, s) > 0) PROVE FALSE  OBVIOUS
    <2>1. \A s \in Shards : f[s] \in Int /\ holds[s] \in Int /\ f[s] <= holds[s]
      <3> TAKE s \in Shards
      <3> QED  BY <1>3, <1>4
    <2>2. SumFunctionOnSet(f, Shards) <= SumFunctionOnSet(holds, Shards)
      <3> HIDE DEF f
      <3> QED  BY <2>1, SumMonotone, ShardFacts
    <2>3. SumFunctionOnSet(f, Shards) = total  BY <1>1, TargetsSum
    <2>4. SumFunctionOnSet(holds, Shards) \in Nat  BY SumNat, ShardFacts
    <2> QED  BY <2>2, <2>3, <2>4 DEF total
  <1>6. \A s \in Shards : Needed(holds, s) \in Nat
    <2> TAKE s \in Shards
    <2> QED  BY <1>3, <1>4
  <1> QED  BY <1>5, <1>6

\* The new groups begin after every group that was put, a shard gets the next one, and
\* no two shards get the same.
LEMMA NewGroupsRight ==
    ASSUME nextGroup \in Nat, \A s \in Shards : IsFiniteSet(groupIds[s])
    PROVE  /\ \A s \in Shards : IsFiniteSet(NewGroups(s))
           /\ \A s \in Shards : \A g \in NewGroups(s) : g \in Nat /\ nextGroup <= g
           /\ \E s \in Shards : nextGroup \in NewGroups(s)
           /\ \A s, u \in Shards : NewGroups(s) \cap NewGroups(u) # {} => s = u
  <1> DEFINE holds == [t \in Shards |-> Cardinality(groupIds[t])]
             needed == [t \in Shards |-> Needed(holds, t)]
             Before(s) == SumFunctionOnSet(needed, 0..(s - 1))
  <1>1. holds \in [Shards -> Nat]  BY FS_CardinalityType
  <1>2. \A s \in Shards : NewGroups(s) = (nextGroup + Before(s))..(nextGroup + Before(s) + needed[s] - 1)
    BY DEF NewGroups, FirstNewGroup
  <1>3. (\A s \in Shards : Needed(holds, s) \in Nat) /\ \E s \in Shards : Needed(holds, s) > 0
    <2> HIDE DEF holds
    <2> QED  BY <1>1, NeededFacts
  <1>4. (\A s \in Shards : needed[s] \in Nat) /\ \E s \in Shards : needed[s] > 0  BY <1>3
  <1> HIDE DEF holds, needed
  <1>5. \A s \in Shards : Before(s) \in Nat
    <2> TAKE s \in Shards
    <2>1. IsFiniteSet(0..(s - 1)) /\ \A x \in 0..(s - 1) : needed[x] \in Nat  BY <1>4, ShardFacts
    <2> QED  BY <2>1, SumNat
  <1>6. PICK s \in Shards : needed[s] > 0 /\ \A u \in Shards : needed[u] > 0 => s <= u
    <2> DEFINE Some == {s \in Shards : needed[s] > 0}
    <2>1. Some \in SUBSET Nat /\ Some # {}  BY <1>4, ShardFacts
    <2> HIDE DEF Some
    <2>2. PICK s \in Some : \A u \in Some : s <= u  BY <2>1, LeastNat
    <2> QED  BY <2>2 DEF Some
  <1>7. nextGroup \in NewGroups(s)
    <2>1. \A x \in 0..(s - 1) : needed[x] = 0
      <3> TAKE x \in 0..(s - 1)
      <3>1. x \in Shards /\ x < s  BY ShardFacts
      <3> QED  BY <3>1, <1>4, <1>6, ShardFacts
    <2>2. Before(s) = 0
      <3>1. IsFiniteSet(0..(s - 1))  BY ShardFacts
      <3> QED  BY <3>1, <2>1, SumZero
    <2> QED  BY <2>2, <1>2, <1>4, <1>6
  <1>8. ASSUME NEW t \in Shards, NEW u \in Shards, t < u
        PROVE  Before(t) + needed[t] <= Before(u)
    <2> DEFINE T == 0..(t - 1)
               U == 0..(u - 1)
    <2>1. t \in Nat /\ u \in Nat /\ U \in SUBSET Shards /\ IsFiniteSet(U)  BY ShardFacts
    <2>2. t \notin T /\ T \cup {t} \in SUBSET U  BY <2>1, <1>8
    <2>3. SumFunctionOnSet(needed, T \cup {t}) = needed[t] + SumFunctionOnSet(needed, T)
      <3>1. IsFiniteSet(T)  BY <2>1, ShardFacts
      <3>2. \A x \in T \cup {t} : needed[x] \in Int  BY <2>1, <2>2, <1>4
      <3> HIDE DEF T
      <3> QED  BY <3>1, <3>2, <2>2, SumAdd
    <2>4. SumFunctionOnSet(needed, U) =
              SumFunctionOnSet(needed, T \cup {t}) + SumFunctionOnSet(needed, U \ (T \cup {t}))
      <3>1. \A x \in U : needed[x] \in Int  BY <2>1, <1>4
      <3> HIDE DEF T, U
      <3> QED  BY <3>1, <2>1, <2>2, SumSplit
    <2>5. SumFunctionOnSet(needed, U \ (T \cup {t})) \in Nat
      <3>1. IsFiniteSet(U \ (T \cup {t})) /\ \A x \in U \ (T \cup {t}) : needed[x] \in Nat
        BY <2>1, <1>4, FS_Difference
      <3> HIDE DEF T, U
      <3> QED  BY <3>1, SumNat
    <2>6. Before(t) \in Nat /\ Before(u) \in Nat /\ needed[t] \in Nat  BY <1>4, <1>5
    <2>7. Before(u) = (needed[t] + Before(t)) + SumFunctionOnSet(needed, U \ (T \cup {t}))  BY <2>3, <2>4
    <2> QED  BY <2>5, <2>6, <2>7
  <1>9. ASSUME NEW t \in Shards, NEW u \in Shards, NEW g \in NewGroups(t) \cap NewGroups(u)
        PROVE  t = u
    <2>1. Before(t) \in Nat /\ Before(u) \in Nat /\ needed[t] \in Nat /\ needed[u] \in Nat  BY <1>4, <1>5
    <2>2. nextGroup + Before(t) <= g /\ g < nextGroup + Before(t) + needed[t]  BY <2>1, <1>2
    <2>3. nextGroup + Before(u) <= g /\ g < nextGroup + Before(u) + needed[u]  BY <2>1, <1>2
    <2>4. g \in Int  BY <1>2, <2>1
    <2>5. ~ (t < u)  BY <1>8, <2>1, <2>2, <2>3, <2>4
    <2>6. ~ (u < t)  BY <1>8, <2>1, <2>2, <2>3, <2>4
    <2> QED  BY <2>5, <2>6, ShardFacts
  <1>10. \A t \in Shards : IsFiniteSet(NewGroups(t)) /\ \A g \in NewGroups(t) : g \in Nat /\ nextGroup <= g
    <2> TAKE t \in Shards
    <2>1. Before(t) \in Nat /\ needed[t] \in Nat  BY <1>4, <1>5
    <2>2. nextGroup + Before(t) \in Int /\ nextGroup + Before(t) + needed[t] - 1 \in Int  BY <2>1
    <2>3. IsFiniteSet((nextGroup + Before(t))..(nextGroup + Before(t) + needed[t] - 1))  BY <2>2, FS_Interval
    <2> QED  BY <2>1, <2>3, <1>2
  <1> QED  BY <1>7, <1>9, <1>10

-----------------------------------------------------------------------------
(* The shape of the variables, and where a worker with requests stands.    *)

Labels == {"query", "count", "counted", "sample", "mark", "route", "fetch", "process",
           "store", "unready", "unconsume", "unmap", "prune", "ungroup",
           "listing", "forget", "failed"}
Stages == {"fetch", "store", "report", "prune", "ungroup"}
Deletion == {"unready", "unconsume", "unmap", "prune", "ungroup", "listing", "forget", "failed"}
Request == [shard : Shards \cup {Nowhere}, rows : SUBSET Rows, stage : Stages]

ManagerShape ==
    /\ shardOf \in [Rows -> Shards \cup {Nowhere}]
    /\ groupIds \in [Shards -> SUBSET Nat]
    /\ \A s \in Shards : IsFiniteSet(groupIds[s])
    /\ nextGroup \in 0..MaxGroups
    /\ put \in [Groups -> {"unput", "numbering", "allocated", "stored", "reported"}]
    /\ ready \in [Columns -> SUBSET Rows]
    /\ consumed \in [Consumers -> SUBSET Rows]
    /\ table \in [Shards -> [Columns -> SUBSET Rows]]

WorkerShape ==
    /\ pc \in [Workers -> Labels]
    /\ snapshot \in [Workers -> SUBSET Rows]
    /\ count \in [Workers -> Nat]
    /\ batch \in [Workers -> SUBSET Rows]
    /\ jobs \in [Workers -> SUBSET Request]

HistoryShape ==
    /\ received \cup again \subseteq Consumers \X Rows
    /\ lost \subseteq SUBSET Rows
    /\ raced \subseteq Rows

Shape == ManagerShape /\ WorkerShape /\ HistoryShape

\* Only train ranks delete and only forward workers store; one worker of a consumer is
\* between the two reads of a call.
OwnSteps ==
    /\ \A f \in FwdWorkers : pc[f] \notin Deletion
    /\ \A t \in TrainRanks : pc[t] # "store"

OneReads ==
    \A w, v \in Workers :
        ConsumerOf(w) = ConsumerOf(v) /\ pc[w] \in {"count", "mark"} /\ pc[v] \in {"count", "mark"} => w = v

\* A request belongs to its worker's step, and to no other request's rows.
JobsFit ==
    \A w \in Workers : \A j \in jobs[w] :
        /\ j.rows \subseteq batch[w]
        /\ j.stage = "fetch" => pc[w] = "fetch"
        /\ j.stage \in {"store", "report"} => pc[w] = "store"
        /\ j.stage = "prune" => pc[w] = "prune"
        /\ j.stage = "ungroup" => pc[w] \in {"prune", "ungroup", "listing", "forget"}
        /\ \A k \in jobs[w] : j # k => j.rows \cap k.rows = {}

WorkInv == Shape /\ OwnSteps /\ OneReads /\ JobsFit

\* A worker is of one kind, with one name and its input columns.
LEMMA WorkerFacts ==
    /\ \A f \in FwdWorkers : f \in Workers /\ f \notin TrainRanks /\ ConsumerOf(f) = "fwd"
    /\ \A t \in TrainRanks : t \in Workers /\ t \notin FwdWorkers /\ ConsumerOf(t) = "train"
    /\ \A w \in Workers : /\ ConsumerOf(w) \in Consumers
                          /\ w \in FwdWorkers \/ w \in TrainRanks
                          /\ Share[w] \in Nat \ {0}
    /\ \A c \in Consumers : InputColumns(c) \subseteq Columns
    /\ "rollout" \in Columns /\ "logprob" \in Columns
    /\ "fwd" \in Consumers /\ "train" \in Consumers
    /\ InputColumns("fwd") = {"rollout"} /\ InputColumns("train") = {"rollout", "logprob"}
    /\ "rollout" \in InputColumns("train") /\ "logprob" \in InputColumns("train")
  BY QueueAssumption DEF Workers, ConsumerOf, Consumers, Columns, InputColumns

\* There are finitely many rows.
LEMMA RowsFinite == IsFiniteSet(Rows) /\ \A r \in SUBSET Rows : IsFiniteSet(r) /\ Cardinality(r) \in Nat
  <1>1. MaxGroups * NSamples - 1 \in Int  BY QueueAssumption
  <1>2. IsFiniteSet(Rows)  BY <1>1, FS_Interval DEF Rows
  <1> QED  BY <1>2, FS_Subset, FS_CardinalityType

\* The queue begins in this shape.
LEMMA InitWork == QueueInit => WorkInv
  <1> SUFFICES ASSUME QueueInit PROVE WorkInv  OBVIOUS
  <1> USE QueueAssumption DEF QueueInit
  <1>1. ManagerShape  BY FS_EmptySet DEF ManagerShape
  <1>2. WorkerShape  BY DEF WorkerShape, Labels
  <1>3. HistoryShape  BY DEF HistoryShape
  <1>4. OwnSteps /\ OneReads /\ JobsFit  BY WorkerFacts DEF OwnSteps, OneReads, JobsFit, Deletion
  <1> QED  BY <1>1, <1>2, <1>3, <1>4 DEF WorkInv, Shape

\* The rows of a group are rows.
LEMMA RowsOfAreRows == \A g \in Groups : RowsOf(g) \in SUBSET Rows
  BY RowGroups

\* The requests for rows are requests.
LEMMA RequestsAreRequests ==
    ASSUME shardOf \in [Rows -> Shards \cup {Nowhere}],
           NEW rows \in SUBSET Rows, NEW stage \in Stages
    PROVE  RequestsFor(rows, stage) \in SUBSET Request
  BY DEF RequestsFor, Request

\* The requests for rows share them out, each shard's to its own.
LEMMA RequestsApart ==
    ASSUME NEW rows, NEW stage, NEW j \in RequestsFor(rows, stage)
    PROVE  /\ j.rows \subseteq rows
           /\ j.stage = stage
           /\ j.shard \in {shardOf[i] : i \in rows}
           /\ \A i \in j.rows : shardOf[i] = j.shard
           /\ \A k \in RequestsFor(rows, stage) : j # k => j.rows \cap k.rows = {}
  BY DEF RequestsFor

\* What a worker chooses: usable rows, no more than its share, and some when enough are.
LEMMA MarkChoice ==
    ASSUME Shape, NEW w \in Workers,
           NEW chosen, chosen = IF Cardinality(Usable(w)) < Share[w] THEN {} ELSE First(Share[w], Usable(w))
    PROVE  /\ Usable(w) \in SUBSET Rows
           /\ chosen \in SUBSET Usable(w)
           /\ Cardinality(chosen) <= Share[w]
           /\ Cardinality(Usable(w)) >= Share[w] => chosen # {}
  <1>1. Usable(w) \in SUBSET Rows  BY DEF Shape, WorkerShape, Usable
  <1>2. Share[w] \in Nat \ {0}  BY WorkerFacts
  <1>3. /\ First(Share[w], Usable(w)) \subseteq Usable(w)
        /\ Cardinality(First(Share[w], Usable(w))) <= Share[w]
        /\ Usable(w) # {} => First(Share[w], Usable(w)) # {}
    BY <1>1, <1>2, FirstRows
  <1>4. Cardinality({}) = 0  BY FS_EmptySet
  <1>5. Cardinality(Usable(w)) \in Nat  BY <1>1, RowsFinite
  <1> QED  BY <1>1, <1>2, <1>3, <1>4, <1>5

\* A deletion takes its rows back from the consumers, unless it is refused before that;
\* after it its rank leaves the groups of the rows, and forgets their uuids, or fails.
Deletes(w) == Unready(w) /\ Routed(batch[w])
Leaves(w) ==
    \/ Unready(w) /\ ~ Routed(batch[w])
    \/ \E j \in jobs[w], g \in Groups : Ungroup(w, j, g)
    \/ Listed(w) \/ Forget(w)

\* The steps of a worker, with those of a deletion by what they change.
WorkerSteps(w) ==
    \/ QueryUsable(w) \/ CountUsable(w) \/ Sample(w) \/ Mark(w)
    \/ RouteGet(w) \/ RoutePut(w)
    \/ \E j \in jobs[w] : Fetch(w, j) \/ Store(w, j) \/ Report(w, j) \/ Prune(w, j)
    \/ Deletes(w) \/ Unconsume(w) \/ Unmap(w) \/ Leaves(w)

\* Those are all of them.
LEMMA WorkerCases == \A w : WorkerNext(w) <=> WorkerSteps(w)
  <1> TAKE w
  <1>1. Unready(w) => Deletes(w) \/ (Unready(w) /\ ~ Routed(batch[w]))  BY DEF Deletes
  <1>2. Deletes(w) => Unready(w)  BY DEF Deletes
  <1> QED  BY <1>1, <1>2 DEF WorkerNext, WorkerSteps, Leaves

\* A deletion, in what it does when it is not refused.
LEMMA DeletesDoes ==
    ASSUME NEW w, Deletes(w)
    PROVE  /\ PruneStep(w, "unready")
           /\ ready' = [col \in Columns |-> ready[col] \ batch[w]]
           /\ raced' = raced \cup {i \in batch[w] : Sampling(i)}
           /\ UNCHANGED <<shardOf, groupIds, nextGroup, consumed, put, table,
                          snapshot, count, batch, jobs, received, again, lost>>
  BY DEF Deletes, Unready

\* A rank that leaves its groups changes nothing else that others see but the uuids.
LEMMA LeavesKeep ==
    ASSUME NEW w, Leaves(w)
    PROVE  /\ UNCHANGED <<shardOf, nextGroup, ready, consumed, put, table, snapshot, count, historyVars>>
           /\ pc[w] \in {"unready", "ungroup", "listing", "forget"}
  <1>1. CASE Unready(w) /\ ~ Routed(batch[w])  BY <1>1 DEF Unready, historyVars
  <1>2. ASSUME NEW j \in jobs[w], NEW g \in Groups, Ungroup(w, j, g)
        PROVE  /\ UNCHANGED <<shardOf, nextGroup, ready, consumed, put, table, snapshot, count, historyVars>>
               /\ pc[w] = "ungroup"
    BY <1>2 DEF Ungroup
  <1>3. CASE Listed(w)  BY <1>3 DEF Listed, managerVars
  <1>4. CASE Forget(w)  BY <1>4 DEF Forget, managerVars
  <1> QED  BY <1>1, <1>2, <1>3, <1>4 DEF Leaves

\* The shards' groups get fewer.
LEMMA LeavesGroups ==
    ASSUME ManagerShape, NEW w, Leaves(w)
    PROVE  groupIds' \in [Shards -> SUBSET Nat] /\ \A s \in Shards : groupIds'[s] \subseteq groupIds[s]
  <1> USE DEF ManagerShape
  <1>1. CASE Unready(w) /\ ~ Routed(batch[w])  BY <1>1 DEF Unready
  <1>2. ASSUME NEW j \in jobs[w], NEW g \in Groups, Ungroup(w, j, g)
        PROVE  groupIds' \in [Shards -> SUBSET Nat] /\ \A s \in Shards : groupIds'[s] \subseteq groupIds[s]
    <2>1. groupIds' = groupIds \/ groupIds' = [groupIds EXCEPT ![j.shard] = @ \ {g}]  BY <1>2 DEF Ungroup
    <2> QED  BY <2>1
  <1>3. CASE Listed(w)  BY <1>3 DEF Listed, managerVars
  <1>4. CASE Forget(w)  BY <1>4 DEF Forget, managerVars
  <1> QED  BY <1>1, <1>2, <1>3, <1>4 DEF Leaves

\* What a request has left of another.
LeftOf(k, j) == k.shard = j.shard /\ k.stage = j.stage /\ k.rows \subseteq j.rows

\* Its own requests get fewer rows; it keeps its batch until it is done, or fails.
LeavesAs(w, to, rest) ==
    /\ pc' = [pc EXCEPT ![w] = to]
    /\ batch' = [batch EXCEPT ![w] = IF to \in {"query", "failed"} THEN {} ELSE @]
    /\ jobs' = [jobs EXCEPT ![w] = rest]
    /\ to \in {"query", "failed"} => rest = {}
    /\ \A k \in rest : k \in Request /\ \E j \in jobs[w] : LeftOf(k, j)
    /\ (\A j, k \in jobs[w] : j # k => j.rows \cap k.rows = {}) =>
           \A j, k \in rest : j # k => j.rows \cap k.rows = {}

\* Whatever a rank does when it leaves its groups, or fails at it, is such a step.
LEMMA LeavesMove ==
    ASSUME WorkerShape, NEW w \in Workers, Leaves(w)
    PROVE  \E to \in {"ungroup", "listing", "forget", "query", "failed"}, rest \in SUBSET Request :
               LeavesAs(w, to, rest)
  <1>0. /\ pc \in [Workers -> Labels] /\ batch \in [Workers -> SUBSET Rows]
        /\ jobs \in [Workers -> SUBSET Request] /\ jobs[w] \in SUBSET Request
    BY DEF WorkerShape
  <1>1. ASSUME Fails(w)  PROVE LeavesAs(w, "failed", {})
    BY <1>1 DEF Fails, LeavesAs
  <1>2. ASSUME UNCHANGED jobs, NEW to \in {"ungroup", "listing", "forget"},
               pc' = [pc EXCEPT ![w] = to], UNCHANGED batch
        PROVE  LeavesAs(w, to, jobs[w])
    BY <1>0, <1>2 DEF LeavesAs, LeftOf
  <1>3. ASSUME UNCHANGED jobs, NextGroup(w, jobs[w])
        PROVE  LeavesAs(w, IF jobs[w] = {} THEN "query" ELSE "ungroup", jobs[w])
    BY <1>0, <1>3 DEF NextGroup, LeavesAs, LeftOf
  <1>4. CASE Unready(w) /\ ~ Routed(batch[w])
    <2>1. Fails(w)  BY <1>4 DEF Unready
    <2> QED  BY <2>1, <1>1
  <1>5. ASSUME NEW j \in jobs[w], NEW g \in Groups, Ungroup(w, j, g)
        PROVE  \E to \in {"ungroup", "listing", "forget", "query", "failed"}, rest \in SUBSET Request :
                   LeavesAs(w, to, rest)
    <2> DEFINE cut == [j EXCEPT !.rows = @ \ RowsOf(g)]
               rest == {k \in (jobs[w] \ {j}) \cup {cut} : k.rows # {}}
    <2>1. j \in Request /\ cut \in Request /\ LeftOf(cut, j) /\ cut.rows \subseteq j.rows
      BY <1>0 DEF Request, LeftOf
    <2>2. \/ NextGroup(w, rest)
          \/ pc' = [pc EXCEPT ![w] = "listing"] /\ UNCHANGED batch
      BY <1>5 DEF Ungroup
    <2>3. jobs' = [jobs EXCEPT ![w] = rest]  BY <1>5 DEF Ungroup
    <2> HIDE DEF cut
    <2>4. rest \in SUBSET Request /\ \A k \in rest : \E i \in jobs[w] : LeftOf(k, i)
      BY <2>1, <1>0 DEF LeftOf
    <2>5. ASSUME \A i, k \in jobs[w] : i # k => i.rows \cap k.rows = {}
          PROVE  \A i, k \in rest : i # k => i.rows \cap k.rows = {}
      BY <2>1, <2>5
    <2> HIDE DEF rest
    <2>6. CASE NextGroup(w, rest)
      <3>1. LeavesAs(w, IF rest = {} THEN "query" ELSE "ungroup", rest)
        BY <2>3, <2>4, <2>5, <2>6 DEF LeavesAs, NextGroup
      <3> QED  BY <3>1, <2>4
    <2>7. CASE pc' = [pc EXCEPT ![w] = "listing"] /\ UNCHANGED batch
      <3>1. LeavesAs(w, "listing", rest)  BY <2>3, <2>4, <2>5, <2>7, <1>0 DEF LeavesAs
      <3> QED  BY <3>1, <2>4
    <2> QED  BY <2>2, <2>6, <2>7
  <1>6. CASE Listed(w)
    <2>1. \/ Fails(w)
          \/ NextGroup(w, jobs[w]) /\ UNCHANGED jobs
          \/ pc' = [pc EXCEPT ![w] = "forget"] /\ UNCHANGED <<batch, jobs>>
      BY <1>6 DEF Listed
    <2> QED  BY <2>1, <1>0, <1>1, <1>2, <1>3
  <1>7. CASE Forget(w)
    <2>1. pc[w] = "forget" /\ \/ Fails(w)
                              \/ NextGroup(w, jobs[w]) /\ UNCHANGED jobs
                              \/ UNCHANGED <<pc, batch, jobs>>
      BY <1>7 DEF Forget
    <2>2. pc = [pc EXCEPT ![w] = pc[w]]  BY <1>0
    <2> QED  BY <2>1, <2>2, <1>0, <1>1, <1>2, <1>3
  <1> QED  BY <1>4, <1>5, <1>6, <1>7 DEF Leaves

\* Every step keeps the shape.
LEMMA ShapeStep == Shape /\ [QueueNext]_queueVars => Shape'
  <1> SUFFICES ASSUME Shape, [QueueNext]_queueVars PROVE Shape'  OBVIOUS
  <1> USE DEF Shape
  <1>1. CASE Allocate
    <2> USE DEF Allocate
    <2>1. ManagerShape'
      <3>1. /\ \A s \in Shards : IsFiniteSet(NewGroups(s))
            /\ \A s \in Shards : \A g \in NewGroups(s) : g \in Nat
        <4>1. nextGroup \in Nat /\ \A s \in Shards : IsFiniteSet(groupIds[s])  BY QueueAssumption DEF ManagerShape
        <4> QED  BY <4>1, NewGroupsRight
      <3>2. shardOf' \in [Rows -> Shards \cup {Nowhere}]  BY <1>1 DEF ManagerShape
      <3>3. groupIds' = [s \in Shards |-> groupIds[s] \cup NewGroups(s)]  BY <1>1
      <3>4. groupIds' \in [Shards -> SUBSET Nat]  BY <3>1, <3>3 DEF ManagerShape
      <3>5. \A s \in Shards : IsFiniteSet(groupIds'[s])
        <4> TAKE s \in Shards
        <4>1. IsFiniteSet(groupIds[s] \cup NewGroups(s))  BY <3>1, FS_Union DEF ManagerShape
        <4> QED  BY <4>1, <3>3
      <3>6. nextGroup' \in 0..MaxGroups  BY <1>1, QueueAssumption DEF ManagerShape
      <3>7. put' \in [Groups -> {"unput", "numbering", "allocated", "stored", "reported"}]  BY <1>1 DEF ManagerShape
      <3>8. UNCHANGED <<ready, consumed, table>>  BY <1>1
      <3> QED  BY <3>2, <3>4, <3>5, <3>6, <3>7, <3>8 DEF ManagerShape
    <2> QED  BY <2>1, <1>1 DEF WorkerShape, HistoryShape, workerVars, historyVars
  <1>2. CASE \E g \in Groups : Number(g) \/ PutStored(g) \/ PutReported(g)
    <2>1. PICK g \in Groups : Number(g) \/ PutStored(g) \/ PutReported(g)  BY <1>2
    <2>2. RowsOf(g) \in SUBSET Rows  BY RowsOfAreRows
    <2>3. ManagerShape'
      <3>1. CASE Number(g)
        <4>1. g + 1 \in 0..MaxGroups  BY QueueAssumption DEF Groups
        <4>2. nextGroup' \in 0..MaxGroups  BY <3>1, <4>1 DEF Number, ManagerShape
        <4>3. put' \in [Groups -> {"unput", "numbering", "allocated", "stored", "reported"}]
          BY <3>1 DEF Number, ManagerShape
        <4> QED  BY <3>1, <4>2, <4>3 DEF Number, ManagerShape
      <3>2. CASE PutStored(g)
        <4>1. table' \in [Shards -> [Columns -> SUBSET Rows]]
          <5> DEFINE s == shardOf[g * NSamples]
          <5>1. table' = [table EXCEPT ![s]["rollout"] = @ \cup RowsOf(g)]  BY <3>2 DEF PutStored
          <5>2. table \in [Shards -> [Columns -> SUBSET Rows]]  BY DEF ManagerShape
          <5> HIDE DEF s
          <5> QED  BY <2>2, <5>1, <5>2
        <4>2. put' \in [Groups -> {"unput", "numbering", "allocated", "stored", "reported"}]
          BY <3>2 DEF PutStored, ManagerShape
        <4> QED  BY <3>2, <4>1, <4>2 DEF PutStored, ManagerShape, managerVars
      <3>3. CASE PutReported(g)
        BY <2>2, <3>3, SMTT(30) DEF PutReported, ManagerShape, Columns
      <3> QED  BY <2>1, <3>1, <3>2, <3>3
    <2> QED  BY <2>1, <2>3 DEF Number, PutStored, PutReported, WorkerShape, HistoryShape, workerVars, historyVars
  <1>3. ASSUME NEW w \in Workers, QueryUsable(w) \/ Sample(w)  PROVE Shape'
    <2>1. PICK from, to \in Labels : ReadReady(w, from, to)  BY <1>3 DEF QueryUsable, Sample, Labels
    <2>2. WorkerShape'  BY <2>1 DEF ReadReady, WorkerShape
    <2> QED  BY <2>1, <2>2 DEF ReadReady, ManagerShape, HistoryShape, managerVars, historyVars
  <1>4. ASSUME NEW w \in Workers, CountUsable(w)  PROVE Shape'
    <2>1. Usable(w) \in SUBSET Rows  BY DEF WorkerShape, Usable
    <2>2. Cardinality(Usable(w)) \in Nat  BY <2>1, RowsFinite
    <2> QED  BY <1>4, <2>2 DEF CountUsable, ManagerShape, WorkerShape, HistoryShape, managerVars, historyVars, Labels
  <1>5. ASSUME NEW team, AllReduce(team)  PROVE Shape'
    <2>1. pc' \in [Workers -> Labels] /\ count' \in [Workers -> Nat]
      BY <1>5 DEF AllReduce, WorkerShape, Labels
    <2>2. UNCHANGED <<managerVars, put, table, snapshot, batch, jobs, historyVars>>  BY <1>5 DEF AllReduce
    <2>3. ManagerShape'  BY <2>2 DEF ManagerShape, managerVars
    <2>4. WorkerShape'  BY <2>1, <2>2 DEF WorkerShape
    <2> QED  BY <2>2, <2>3, <2>4 DEF HistoryShape, historyVars
  <1>6. ASSUME NEW w \in Workers, Mark(w)  PROVE Shape'
    <2> DEFINE chosen == IF Cardinality(Usable(w)) < Share[w] THEN {} ELSE First(Share[w], Usable(w))
    <2>1. chosen \in SUBSET Rows
      <3> HIDE DEF Shape
      <3> QED  BY MarkChoice
    <2> HIDE DEF chosen
    <2>2. /\ pc' = [pc EXCEPT ![w] = IF chosen = {} THEN "query" ELSE "route"]
          /\ consumed' = [consumed EXCEPT ![ConsumerOf(w)] = @ \cup chosen]
          /\ batch' = [batch EXCEPT ![w] = chosen]
          /\ snapshot' = [snapshot EXCEPT ![w] = {}]
          /\ UNCHANGED <<shardOf, groupIds, nextGroup, ready, put, table, count, jobs, historyVars>>
      BY <1>6 DEF Mark, chosen
    <2>3. ManagerShape'  BY <2>1, <2>2, WorkerFacts DEF ManagerShape
    <2>4. WorkerShape'  BY <2>1, <2>2 DEF WorkerShape, Labels
    <2> QED  BY <2>2, <2>3, <2>4 DEF HistoryShape, historyVars
  <1>7. ASSUME NEW w \in Workers, RouteGet(w) \/ RoutePut(w)  PROVE Shape'
    <2>1. PICK from, to \in Labels, stage \in Stages : Route(w, from, to, stage)
      BY <1>7 DEF RouteGet, RoutePut, Labels, Stages
    <2>2. RequestsFor(batch[w], stage) \in SUBSET Request
      BY RequestsAreRequests DEF ManagerShape, WorkerShape
    <2>3. WorkerShape'  BY <2>1, <2>2 DEF Route, WorkerShape, Labels
    <2>4. HistoryShape'  BY <2>1 DEF Route, HistoryShape, WorkerShape
    <2> QED  BY <2>1, <2>3, <2>4 DEF Route, ManagerShape, managerVars
  <1>8. ASSUME NEW w \in Workers, NEW j \in jobs[w], Fetch(w, j)  PROVE Shape'
    <2>1. j \in Request  BY DEF WorkerShape
    <2>2. WorkerShape'  BY <1>8 DEF Fetch, WorkerShape, Labels
    <2>3. HistoryShape'  BY <1>8, <2>1, WorkerFacts DEF Fetch, HistoryShape, Request
    <2> QED  BY <1>8, <2>2, <2>3 DEF Fetch, ManagerShape, managerVars
  <1>9. ASSUME NEW w \in Workers, NEW j \in jobs[w], Store(w, j) \/ Report(w, j)  PROVE Shape'
    <2>1. j \in Request /\ [j EXCEPT !.stage = "report"] \in Request  BY DEF WorkerShape, Request, Stages
    <2>2. WorkerShape'  BY <1>9, <2>1 DEF Store, Report, WorkerShape, Labels
    <2>3. ManagerShape'
      <3>1. CASE Store(w, j)
        <4>1. table' \in [Shards -> [Columns -> SUBSET Rows]]
          <5>1. /\ table' = [table EXCEPT ![j.shard]["logprob"] = @ \cup j.rows]
                /\ j.rows \in SUBSET Rows
                /\ table \in [Shards -> [Columns -> SUBSET Rows]]
            BY <3>1, <2>1 DEF Store, ManagerShape, Request
          <5> HIDE <2>1 DEF Shape
          <5>2. \A s \in Shards : [table[s] EXCEPT !["logprob"] = @ \cup j.rows] \in [Columns -> SUBSET Rows]
            BY <5>1, WorkerFacts
          <5> QED  BY <5>1, <5>2
        <4> QED  BY <3>1, <4>1 DEF Store, ManagerShape, managerVars
      <3>2. CASE Report(w, j)
        <4>1. ready' \in [Columns -> SUBSET Rows]
          BY <3>2, <2>1 DEF Report, ManagerShape, Request, Columns
        <4> QED  BY <3>2, <4>1 DEF Report, ManagerShape
      <3> QED  BY <1>9, <3>1, <3>2
    <2> QED  BY <1>9, <2>2, <2>3 DEF Store, Report, HistoryShape, historyVars
  <1>10. CASE Barrier
    BY <1>10 DEF Barrier, PruneOrder, ManagerShape, WorkerShape, HistoryShape, managerVars, historyVars, Labels
  <1>11. ASSUME NEW w \in Workers, Deletes(w) \/ Unconsume(w) \/ Unmap(w)  PROVE Shape'
    <2>1. RequestsFor(batch[w], "prune") \in SUBSET Request
      BY RequestsAreRequests DEF ManagerShape, WorkerShape, Stages
    <2>2. CASE Deletes(w)
      <3>1. pc' \in [Workers -> Labels]
        BY <2>2, DeletesDoes DEF PruneStep, PruneOrder, WorkerShape, Labels
      <3>2. ManagerShape'  BY <2>2, DeletesDoes DEF ManagerShape
      <3>3. WorkerShape'  BY <2>2, <3>1, DeletesDoes DEF WorkerShape
      <3>4. HistoryShape'  BY <2>2, DeletesDoes DEF HistoryShape, WorkerShape
      <3> QED  BY <3>2, <3>3, <3>4
    <2>3. CASE Unconsume(w) \/ Unmap(w)
      <3>1. pc' \in [Workers -> Labels]
        BY <2>3 DEF Unconsume, Unmap, PruneStep, PruneOrder, WorkerShape, Labels
      <3>2. WorkerShape'  BY <2>1, <2>3, <3>1 DEF Unconsume, Unmap, WorkerShape
      <3>3. ManagerShape'  BY <2>3 DEF Unconsume, Unmap, ManagerShape
      <3>4. HistoryShape'  BY <2>3 DEF Unconsume, Unmap, HistoryShape, historyVars
      <3> QED  BY <3>2, <3>3, <3>4
    <2> QED  BY <1>11, <2>2, <2>3
  <1>12. ASSUME NEW w \in Workers, NEW j \in jobs[w], Prune(w, j)  PROVE Shape'
    <2>1. j \in Request /\ [j EXCEPT !.stage = "ungroup"] \in Request  BY DEF WorkerShape, Request, Stages
    <2>2. WorkerShape'  BY <1>12, <2>1 DEF Prune, WorkerShape, Labels
    <2>3. table' \in [Shards -> [Columns -> SUBSET Rows]]
      <3>1. table' = [table EXCEPT ![j.shard] = [col \in Columns |-> @[col] \ j.rows]]  BY <1>12 DEF Prune
      <3>2. CASE j.shard \in Shards
        <4>1. [col \in Columns |-> table[j.shard][col] \ j.rows] \in [Columns -> SUBSET Rows]  BY <3>2 DEF ManagerShape
        <4> QED  BY <3>1, <4>1 DEF ManagerShape
      <3>3. CASE j.shard \notin Shards  BY <3>1, <3>3 DEF ManagerShape
      <3> QED  BY <3>2, <3>3
    <2>5. ManagerShape'  BY <1>12, <2>3 DEF Prune, ManagerShape, managerVars
    <2> QED  BY <1>12, <2>2, <2>5 DEF Prune, HistoryShape, historyVars
  <1>13. ASSUME NEW w \in Workers, Leaves(w)  PROVE Shape'
    <2>1. PICK to \in {"ungroup", "listing", "forget", "query", "failed"}, rest \in SUBSET Request :
              LeavesAs(w, to, rest)
      BY <1>13, LeavesMove
    <2>2. UNCHANGED <<shardOf, nextGroup, ready, consumed, put, table, snapshot, count, historyVars>>
      BY <1>13, LeavesKeep
    <2>3. WorkerShape'  BY <2>1, <2>2 DEF LeavesAs, WorkerShape, Labels
    <2>4. groupIds' \in [Shards -> SUBSET Nat] /\ \A s \in Shards : IsFiniteSet(groupIds'[s])
      BY <1>13, LeavesGroups, FS_Subset DEF ManagerShape
    <2>5. ManagerShape'  BY <2>2, <2>4 DEF ManagerShape
    <2> QED  BY <2>2, <2>3, <2>5 DEF HistoryShape, historyVars
  <1>14. CASE UNCHANGED queueVars
    BY <1>14 DEF queueVars, managerVars, workerVars, historyVars, ManagerShape, WorkerShape, HistoryShape
  <1> HIDE DEF Shape
  <1> QED  BY <1>1, <1>2, <1>3, <1>4, <1>5, <1>6, <1>7, <1>8, <1>9, <1>10, <1>11, <1>12, <1>13, <1>14, WorkerCases
           DEF QueueNext, WorkerSteps

\* Every step keeps the workers in it.
LEMMA WorkStep == WorkInv /\ [QueueNext]_queueVars => WorkInv'
  <1> SUFFICES ASSUME WorkInv, [QueueNext]_queueVars PROVE WorkInv'  OBVIOUS
  <1>0. Shape'  BY ShapeStep DEF WorkInv
  <1> SUFFICES OwnSteps' /\ OneReads' /\ JobsFit'  BY <1>0 DEF WorkInv
  <1> /\ pc \in [Workers -> Labels]
      /\ jobs \in [Workers -> SUBSET Request]
      /\ batch \in [Workers -> SUBSET Rows]
      /\ OwnSteps /\ OneReads /\ JobsFit
    BY DEF WorkInv, Shape, WorkerShape
  <1> USE WorkerFacts DEF Labels
  <1>1. CASE Allocate \/ \E g \in Groups : Number(g) \/ PutStored(g) \/ PutReported(g)
    <2>1. UNCHANGED <<pc, jobs, batch>>  BY <1>1 DEF Allocate, Number, PutStored, PutReported, workerVars
    <2> QED  BY <2>1 DEF OwnSteps, OneReads, JobsFit
  <1>2. CASE UNCHANGED queueVars
    <2>1. UNCHANGED <<pc, jobs, batch>>  BY <1>2 DEF queueVars, workerVars
    <2> QED  BY <2>1 DEF OwnSteps, OneReads, JobsFit
  <1>3. ASSUME NEW w \in Workers, QueryUsable(w) \/ Sample(w)  PROVE OwnSteps' /\ OneReads' /\ JobsFit'
    <2>1. PICK from \in {"query", "sample"}, to \in {"count", "mark"} : ReadReady(w, from, to)
      BY <1>3 DEF QueryUsable, Sample
    <2> USE <2>1 DEF ReadReady
    <2>2. OwnSteps'  BY DEF OwnSteps, Deletion
    <2>3. OneReads'  BY DEF OneReads, LockFree
    <2>4. JobsFit'  BY DEF JobsFit
    <2> QED  BY <2>2, <2>3, <2>4
  <1>4. ASSUME NEW w \in Workers, CountUsable(w)  PROVE OwnSteps' /\ OneReads' /\ JobsFit'
    <2> USE <1>4 DEF CountUsable
    <2>2. OwnSteps'  BY DEF OwnSteps, Deletion
    <2>3. OneReads'  BY DEF OneReads
    <2>4. JobsFit'  BY DEF JobsFit
    <2> QED  BY <2>2, <2>3, <2>4
  <1>5. ASSUME NEW team \in SUBSET Workers, AllReduce(team)  PROVE OwnSteps' /\ OneReads' /\ JobsFit'
    <2> DEFINE next == IF EnoughForAll(team) THEN "sample" ELSE "query"
    <2>1. /\ \A w \in team : pc[w] = "counted"
          /\ pc' = [w \in Workers |-> IF w \notin team THEN pc[w] ELSE next]
          /\ UNCHANGED <<jobs, batch>>
      BY <1>5 DEF AllReduce
    <2>2. next \in {"sample", "query"}  OBVIOUS
    <2> HIDE DEF next
    <2>3. OwnSteps'  BY <2>1, <2>2 DEF OwnSteps, Deletion
    <2>4. OneReads'  BY <2>1, <2>2 DEF OneReads
    <2>5. JobsFit'  BY <2>1, <2>2 DEF JobsFit
    <2> QED  BY <2>3, <2>4, <2>5
  <1>6. ASSUME NEW w \in Workers, Mark(w)  PROVE OwnSteps' /\ OneReads' /\ JobsFit'
    <2>0. PICK to \in {"query", "route"} :
              /\ pc[w] = "mark" /\ pc' = [pc EXCEPT ![w] = to]
              /\ \E chosen : batch' = [batch EXCEPT ![w] = chosen]
              /\ jobs' = jobs
      BY <1>6 DEF Mark
    <2>1. PICK chosen :
              /\ pc[w] = "mark" /\ pc' = [pc EXCEPT ![w] = to]
              /\ batch' = [batch EXCEPT ![w] = chosen] /\ jobs' = jobs
      BY <2>0
    <2>2. OwnSteps'  BY <2>1 DEF OwnSteps, Deletion
    <2>3. OneReads'  BY <2>1 DEF OneReads
    <2>4. jobs[w] = {}  BY <2>1 DEF JobsFit, Request, Stages
    <2>5. JobsFit'  BY <2>1, <2>4 DEF JobsFit
    <2> QED  BY <2>2, <2>3, <2>5
  <1>7. ASSUME NEW w \in Workers, RouteGet(w) \/ RoutePut(w)  PROVE OwnSteps' /\ OneReads' /\ JobsFit'
    <2>1. PICK from \in {"route", "process"}, to \in {"fetch", "store"}, stage \in {"fetch", "store"} :
              Route(w, from, to, stage) /\ to = stage /\ (to = "store" => w \in FwdWorkers)
      BY <1>7 DEF RouteGet, RoutePut
    <2>2. jobs[w] = {}  BY <2>1 DEF Route, JobsFit, Request, Stages
    <2> USE <2>1 DEF Route
    <2>3. OwnSteps'  BY DEF OwnSteps, Deletion
    <2>4. OneReads'  BY DEF OneReads
    <2>5. JobsFit'
      <3>1. CASE ~Routed(batch[w])  BY <3>1, <2>2 DEF JobsFit
      <3>2. CASE Routed(batch[w])
        <4>1. jobs' = [jobs EXCEPT ![w] = RequestsFor(batch[w], stage)] /\ batch' = batch /\ pc' = [pc EXCEPT ![w] = to]
          BY <3>2
        <4>2. \A j, k \in RequestsFor(batch[w], stage) :
                  j.rows \subseteq batch[w] /\ j.stage = stage /\ (j # k => j.rows \cap k.rows = {})
          BY RequestsApart
        <4> HIDE <2>1
        <4>3. from # "fetch" /\ stage = to /\ stage \in {"fetch", "store"}  BY <2>1
        <4> QED  BY <4>1, <4>2, <4>3, <2>2 DEF JobsFit
      <3> QED  BY <3>1, <3>2
    <2> QED  BY <2>3, <2>4, <2>5
  <1>8. ASSUME NEW w \in Workers, NEW j \in jobs[w], Fetch(w, j)  PROVE OwnSteps' /\ OneReads' /\ JobsFit'
    <2>1. pc[w] = "fetch" /\ \A k \in jobs[w] : k.stage = "fetch"
      BY <1>8 DEF Fetch, JobsFit, Request, Stages
    <2>2. PICK to \in {"fetch", "query", "process"} :
              /\ pc' = [pc EXCEPT ![w] = to] /\ (jobs[w] # {j} => to = "fetch")
              /\ \E got : batch' = [batch EXCEPT ![w] = got] /\ batch[w] \ j.rows \subseteq got
              /\ jobs' = [jobs EXCEPT ![w] = @ \ {j}]
      BY <1>8 DEF Fetch
    <2>3. OwnSteps'  BY <2>1, <2>2 DEF OwnSteps, Deletion
    <2>4. OneReads'  BY <2>1, <2>2 DEF OneReads
    <2>5. JobsFit'  BY <2>1, <2>2 DEF JobsFit
    <2> QED  BY <2>3, <2>4, <2>5
  <1>9. ASSUME NEW w \in Workers, NEW j \in jobs[w], Store(w, j)  PROVE OwnSteps' /\ OneReads' /\ JobsFit'
    <2> DEFINE k == [j EXCEPT !.stage = "report"]
    <2>1. j \in Request /\ k \in Request /\ k.rows = j.rows /\ k.stage = "report"  BY DEF Request, Stages
    <2>2. pc[w] = "store"  BY <1>9 DEF Store, JobsFit
    <2>3. jobs' = [jobs EXCEPT ![w] = (@ \ {j}) \cup {k}] /\ UNCHANGED <<pc, batch>>  BY <1>9 DEF Store
    <2> HIDE DEF k
    <2>4. JobsFit'  BY <2>1, <2>2, <2>3 DEF JobsFit
    <2> QED  BY <2>3, <2>4 DEF OwnSteps, OneReads
  <1>10. ASSUME NEW w \in Workers, NEW j \in jobs[w], Report(w, j)  PROVE OwnSteps' /\ OneReads' /\ JobsFit'
    <2>1. pc[w] = "store" /\ w \in FwdWorkers  BY <1>10 DEF Report, JobsFit, OwnSteps
    <2>2. PICK to \in {"store", "query"} :
              /\ pc' = [pc EXCEPT ![w] = to]
              /\ \E left : /\ jobs[w] # {j} => to = "store" /\ left = batch[w]
                           /\ batch' = [batch EXCEPT ![w] = left]
              /\ jobs' = [jobs EXCEPT ![w] = @ \ {j}]
      BY <1>10 DEF Report
    <2>3. OwnSteps'  BY <2>1, <2>2 DEF OwnSteps, Deletion
    <2>4. OneReads'  BY <2>1, <2>2 DEF OneReads
    <2>5. JobsFit'  BY <2>1, <2>2 DEF JobsFit
    <2> QED  BY <2>3, <2>4, <2>5
  <1>11. CASE Barrier
    <2> USE <1>11 DEF Barrier, PruneOrder
    <2>1. OwnSteps'  BY DEF OwnSteps, Deletion
    <2>2. OneReads'  BY DEF OneReads
    <2>3. JobsFit'  BY DEF JobsFit
    <2> QED  BY <2>1, <2>2, <2>3
  <1>12. ASSUME NEW w \in Workers, Deletes(w) \/ Unconsume(w) \/ Unmap(w)
         PROVE OwnSteps' /\ OneReads' /\ JobsFit'
    <2>1. PICK from \in {"unready", "unconsume", "unmap"}, to \in {"unconsume", "unmap", "prune"} :
              pc[w] = from /\ pc' = [pc EXCEPT ![w] = to] /\ (~Unmap(w) => to # "prune") /\ (Unmap(w) => to = "prune")
      BY <1>12, DeletesDoes DEF Unconsume, Unmap, PruneStep, PruneOrder
    <2>2. batch' = batch  BY <1>12, DeletesDoes DEF Unconsume, Unmap
    <2>3. w \notin FwdWorkers  BY <2>1 DEF OwnSteps, Deletion
    <2>4. jobs[w] = {}  BY <2>1 DEF JobsFit, Request, Stages
    <2>5. OwnSteps'  BY <2>1, <2>3 DEF OwnSteps, Deletion
    <2>6. OneReads'  BY <2>1 DEF OneReads
    <2>7. JobsFit'
      <3>1. CASE Unmap(w)
        <4>1. \A j, k \in RequestsFor(batch[w], "prune") :
                  j.rows \subseteq batch[w] /\ j.stage = "prune" /\ (j # k => j.rows \cap k.rows = {})
          BY RequestsApart
        <4>2. jobs' = [jobs EXCEPT ![w] = RequestsFor(batch[w], "prune")]  BY <3>1 DEF Unmap
        <4>3. pc' = [pc EXCEPT ![w] = "prune"]  BY <3>1, <2>1
        <4> QED  BY <4>1, <4>2, <4>3, <2>2, <2>4 DEF JobsFit
      <3>2. CASE ~Unmap(w)
        <4>1. jobs' = jobs  BY <3>2, <1>12, DeletesDoes DEF Unconsume
        <4> QED  BY <4>1, <2>1, <2>2, <2>4 DEF JobsFit
      <3> QED  BY <3>1, <3>2
    <2> QED  BY <2>5, <2>6, <2>7
  <1>13. ASSUME NEW w \in Workers, NEW j \in jobs[w], Prune(w, j)  PROVE OwnSteps' /\ OneReads' /\ JobsFit'
    <2> DEFINE k == [j EXCEPT !.stage = "ungroup"]
               rest == (jobs[w] \ {j}) \cup {k}
    <2>1. j \in Request /\ k \in Request /\ k.rows = j.rows /\ k.stage = "ungroup"  BY DEF Request, Stages
    <2>2. pc[w] = "prune" /\ w \notin FwdWorkers  BY <1>13 DEF Prune, JobsFit, OwnSteps, Deletion
    <2> DEFINE to == IF \E i \in rest : i.stage = "prune" THEN "prune" ELSE "ungroup"
    <2>3. jobs' = [jobs EXCEPT ![w] = rest] /\ pc' = [pc EXCEPT ![w] = to] /\ batch' = batch
      BY <1>13 DEF Prune
    <2>4. to \in {"prune", "ungroup"} /\ \A i \in rest : i.stage = "prune" => to = "prune"  OBVIOUS
    <2>5. \A i \in jobs[w] : i.stage \in {"prune", "ungroup"}  BY <2>2 DEF JobsFit, Request, Stages
    <2> HIDE DEF k, to
    <2>6. OwnSteps'  BY <2>2, <2>3, <2>4 DEF OwnSteps, Deletion
    <2>7. OneReads'  BY <2>2, <2>3, <2>4 DEF OneReads
    <2>8. \A i \in rest : /\ i.rows \subseteq batch[w] /\ i.stage \in {"prune", "ungroup"}
                          /\ \A e \in rest : i # e => i.rows \cap e.rows = {}
      BY <2>1, <2>5 DEF JobsFit
    <2> HIDE DEF rest
    <2>9. JobsFit'  BY <2>3, <2>4, <2>8 DEF JobsFit
    <2> QED  BY <2>6, <2>7, <2>9
  <1>14. ASSUME NEW w \in Workers, Leaves(w)  PROVE OwnSteps' /\ OneReads' /\ JobsFit'
    <2>1. PICK to \in {"ungroup", "listing", "forget", "query", "failed"}, rest \in SUBSET Request :
              LeavesAs(w, to, rest)
      BY <1>14, LeavesMove DEF WorkInv, Shape
    <2>2. pc[w] \in {"unready", "ungroup", "listing", "forget"}  BY <1>14, LeavesKeep
    <2>3. w \notin FwdWorkers  BY <2>2 DEF OwnSteps, Deletion
    <2>4. pc' = [pc EXCEPT ![w] = to]  BY <2>1 DEF LeavesAs
    <2>5. OwnSteps'  BY <2>3, <2>4 DEF OwnSteps, Deletion
    <2>6. OneReads'  BY <2>4 DEF OneReads
    <2>7. JobsFit'
      <3>1. ASSUME NEW v \in Workers, v # w, NEW j \in jobs'[v]
            PROVE  j \in jobs[v] /\ pc'[v] = pc[v] /\ batch'[v] = batch[v] /\ jobs'[v] = jobs[v]
        BY <2>1, <3>1 DEF LeavesAs
      <3>2. ASSUME NEW k \in jobs'[w]
            PROVE  /\ k.rows \subseteq batch'[w]
                   /\ k.stage = "ungroup" /\ pc'[w] \in {"ungroup", "listing", "forget"}
                   /\ \A j \in jobs'[w] : j # k => j.rows \cap k.rows = {}
        <4>1. jobs'[w] = rest /\ pc'[w] = to  BY <2>1 DEF LeavesAs
        <4>2. to \in {"ungroup", "listing", "forget"} /\ batch'[w] = batch[w]
          BY <2>1, <4>1, <3>2 DEF LeavesAs
        <4>3. k \in Request /\ \E j \in jobs[w] : LeftOf(k, j)  BY <2>1, <4>1, <3>2 DEF LeavesAs
        <4>4. PICK j \in jobs[w] : LeftOf(k, j)  BY <4>3
        <4>5. j.rows \subseteq batch[w] /\ j.stage = "ungroup"  BY <2>2 DEF JobsFit, Request, Stages
        <4>6. \A i, l \in jobs[w] : i # l => i.rows \cap l.rows = {}  BY DEF JobsFit
        <4>7. \A i, l \in rest : i # l => i.rows \cap l.rows = {}  BY <2>1, <4>6 DEF LeavesAs
        <4> QED  BY <4>1, <4>2, <4>4, <4>5, <4>7, <3>2 DEF LeftOf
      <3> QED  BY <3>1, <3>2 DEF JobsFit
    <2> QED  BY <2>5, <2>6, <2>7
  <1> QED
    <2>1. FwdWorkers \in SUBSET Workers /\ TrainRanks \in SUBSET Workers  OBVIOUS
    <2> HIDE WorkerFacts DEF Labels
    <2> QED  BY <2>1, <1>1, <1>2, <1>3, <1>4, <1>5, <1>6, <1>7, <1>8, <1>9, <1>10, <1>11, <1>12, <1>13, <1>14, WorkerCases
             DEF QueueNext, WorkerSteps

-----------------------------------------------------------------------------
(* A row that no shard has reported yet is nowhere but at its shard.       *)

\* Nobody offers the row, has it or has had it.
Untouched(i) ==
    /\ \A col \in Columns : i \notin ready[col]
    /\ \A c \in Consumers : i \notin consumed[c] /\ <<c, i>> \notin received
    /\ \A w \in Workers : i \notin batch[w] /\ i \notin snapshot[w]

\* A group counts once its rows are numbered; from its allocation on all of them are at
\* the shard that was chosen for them, and until its put is reported they are untouched.
PutFits(g) ==
    /\ nextGroup <= g <=> put[g] \in {"unput", "numbering"}
    /\ put[g] = "numbering" => g = nextGroup
    /\ put[g] # "reported" => \A i \in RowsOf(g) : Untouched(i)
    /\ put[g] \in {"numbering", "allocated", "stored"} =>
           \E s \in Shards :
               /\ \A i \in RowsOf(g) : shardOf[i] = s
               /\ put[g] = "stored" => RowsOf(g) \subseteq table[s]["rollout"]

PutInv == WorkInv /\ \A g \in Groups : PutFits(g)

\* No put is under way at first.
LEMMA InitPut == QueueInit => PutInv
  <1> SUFFICES ASSUME QueueInit PROVE \A g \in Groups : PutFits(g)  BY InitWork DEF PutInv
  <1> TAKE g \in Groups
  <1>1. ASSUME NEW i \in RowsOf(g)  PROVE Untouched(i)  BY DEF QueueInit, Untouched
  <1>2. put[g] = "unput" /\ nextGroup <= g  BY QueueAssumption DEF QueueInit, Groups
  <1> QED  BY <1>1, <1>2 DEF PutFits

\* Only the report of a put touches its rows.
LEMMA UntouchedStep ==
    ASSUME WorkInv, [QueueNext]_queueVars, NEW i \in Rows, Untouched(i),
           \A g \in Groups : PutReported(g) => i \notin RowsOf(g)
    PROVE  Untouched(i)'
  <1> /\ pc \in [Workers -> Labels]
      /\ jobs \in [Workers -> SUBSET Request]
      /\ batch \in [Workers -> SUBSET Rows]
      /\ snapshot \in [Workers -> SUBSET Rows]
      /\ ready \in [Columns -> SUBSET Rows]
      /\ consumed \in [Consumers -> SUBSET Rows]
      /\ \A w \in Workers : \A j \in jobs[w] : i \notin j.rows
    BY DEF WorkInv, Shape, WorkerShape, ManagerShape, JobsFit, Untouched
  <1> USE DEF Untouched
  <1>1. CASE Allocate \/ \E g \in Groups : Number(g) \/ PutStored(g)
    BY <1>1 DEF Allocate, Number, PutStored, workerVars, historyVars, managerVars
  <1>2. ASSUME NEW g \in Groups, PutReported(g)  PROVE Untouched(i)'
    BY <1>2 DEF PutReported, workerVars, historyVars, Columns
  <1>3. CASE UNCHANGED queueVars
    BY <1>3 DEF queueVars, managerVars, workerVars, historyVars
  <1>4. ASSUME NEW w \in Workers, QueryUsable(w) \/ Sample(w)  PROVE Untouched(i)'
    <2>1. PICK from, to : ReadReady(w, from, to)  BY <1>4 DEF QueryUsable, Sample
    <2>2. \E col \in InputColumns(ConsumerOf(w)) : i \notin ready[col]  BY WorkerFacts
    <2>3. \A v \in Workers : i \notin snapshot'[v]  BY <2>1, <2>2 DEF ReadReady
    <2> QED  BY <2>1, <2>3 DEF ReadReady, managerVars, historyVars
  <1>5. ASSUME NEW w \in Workers, CountUsable(w)  PROVE Untouched(i)'
    BY <1>5 DEF CountUsable, managerVars, historyVars
  <1>6. ASSUME NEW team, AllReduce(team)  PROVE Untouched(i)'
    BY <1>6 DEF AllReduce, managerVars, historyVars
  <1>7. ASSUME NEW w \in Workers, Mark(w)  PROVE Untouched(i)'
    <2> DEFINE chosen == IF Cardinality(Usable(w)) < Share[w] THEN {} ELSE First(Share[w], Usable(w))
    <2>1. i \notin chosen
      <3>1. Shape  BY DEF WorkInv
      <3>2. chosen \in SUBSET Usable(w)  BY <3>1, MarkChoice
      <3> HIDE DEF chosen
      <3> QED  BY <3>2 DEF Usable
    <2> HIDE DEF chosen
    <2>2. /\ consumed' = [consumed EXCEPT ![ConsumerOf(w)] = @ \cup chosen]
          /\ batch' = [batch EXCEPT ![w] = chosen]
          /\ snapshot' = [snapshot EXCEPT ![w] = {}]
          /\ UNCHANGED <<ready, received>>
      BY <1>7 DEF Mark, chosen, historyVars
    <2> QED  BY <2>1, <2>2
  <1>8. ASSUME NEW w \in Workers, RouteGet(w) \/ RoutePut(w)  PROVE Untouched(i)'
    BY <1>8 DEF RouteGet, RoutePut, Route, managerVars
  <1>9. ASSUME NEW w \in Workers, NEW j \in jobs[w], Fetch(w, j)  PROVE Untouched(i)'
    BY <1>9 DEF Fetch, managerVars
  <1>10. ASSUME NEW w \in Workers, NEW j \in jobs[w], Store(w, j) \/ Report(w, j) \/ Prune(w, j)
         PROVE Untouched(i)'
    BY <1>10 DEF Store, Report, Prune, managerVars, historyVars
  <1>11. CASE Barrier
    BY <1>11 DEF Barrier, managerVars, historyVars
  <1>12. ASSUME NEW w \in Workers, Deletes(w) \/ Unconsume(w) \/ Unmap(w)
         PROVE Untouched(i)'
    BY <1>12, DeletesDoes DEF Unconsume, Unmap, historyVars
  <1>13. ASSUME NEW w \in Workers, Leaves(w)  PROVE Untouched(i)'
    <2>1. PICK to \in {"ungroup", "listing", "forget", "query", "failed"}, rest \in SUBSET Request :
              LeavesAs(w, to, rest)
      BY <1>13, LeavesMove DEF WorkInv, Shape
    <2>2. \A v \in Workers : i \notin batch'[v]  BY <2>1 DEF LeavesAs
    <2> QED  BY <1>13, <2>2, LeavesKeep DEF historyVars
  <1> HIDE DEF Untouched
  <1> QED  BY <1>1, <1>2, <1>3, <1>4, <1>5, <1>6, <1>7, <1>8, <1>9, <1>10, <1>11, <1>12, <1>13, WorkerCases
           DEF QueueNext, WorkerSteps

\* Nothing but a put, or deleting a row, takes a row's shard or what the agent loop put.
LEMMA KeptUnlessDeleted ==
    ASSUME WorkInv, [QueueNext]_queueVars, ~ Allocate,
           NEW i \in Rows, \A w \in Workers : i \notin batch[w]
    PROVE  /\ shardOf'[i] = shardOf[i]
           /\ \A s \in Shards : \A col \in Columns : i \in table[s][col] => i \in table'[s][col]
  <1> /\ table \in [Shards -> [Columns -> SUBSET Rows]]
      /\ shardOf \in [Rows -> Shards \cup {Nowhere}]
      /\ \A w \in Workers : \A j \in jobs[w] : i \notin j.rows
    BY DEF WorkInv, Shape, ManagerShape, JobsFit
  <1> DEFINE Kept == /\ shardOf'[i] = shardOf[i]
                     /\ \A s \in Shards : \A col \in Columns : i \in table[s][col] => i \in table'[s][col]
  <1>1. ASSUME NEW g \in Groups, Number(g) \/ PutStored(g) \/ PutReported(g)  PROVE Kept
    BY <1>1 DEF Number, PutStored, PutReported, managerVars
  <1>2. CASE UNCHANGED queueVars
    BY <1>2 DEF queueVars, managerVars
  <1>3. ASSUME NEW w \in Workers,
               \/ QueryUsable(w) \/ CountUsable(w) \/ Sample(w) \/ Mark(w) \/ RouteGet(w) \/ RoutePut(w)
               \/ \E j \in jobs[w] : Fetch(w, j) \/ Report(w, j)
               \/ Deletes(w) \/ Unconsume(w) \/ Leaves(w)
        PROVE  Kept
    <2>1. CASE Deletes(w) \/ Leaves(w)
      <3>1. UNCHANGED <<shardOf, table>>  BY <2>1, DeletesDoes, LeavesKeep
      <3> QED  BY <3>1
    <2>2. CASE ~ Deletes(w) /\ ~ Leaves(w)
      <3>1. UNCHANGED <<shardOf, table>>
        BY <1>3, <2>2 DEF QueryUsable, CountUsable, Sample, ReadReady, Mark, RouteGet, RoutePut, Route,
                          Fetch, Report, Unconsume, managerVars
      <3> QED  BY <3>1
    <2> QED  BY <2>1, <2>2
  <1>4. ASSUME NEW team, AllReduce(team)  PROVE Kept
    BY <1>4 DEF AllReduce, managerVars
  <1>7. CASE Barrier
    BY <1>7 DEF Barrier, managerVars
  <1>5. ASSUME NEW w \in Workers, NEW j \in jobs[w], Store(w, j) \/ Prune(w, j)  PROVE Kept
    BY <1>5 DEF Store, Prune, managerVars
  <1>6. ASSUME NEW w \in Workers, Unmap(w)  PROVE Kept
    BY <1>6 DEF Unmap
  <1>8. ASSUME NEW w \in Workers, WorkerNext(w)  PROVE Kept
    BY <1>3, <1>5, <1>6, <1>8, WorkerCases DEF WorkerSteps
  <1>9. QueueNext \/ UNCHANGED queueVars  OBVIOUS
  <1> QED  BY <1>9, <1>1, <1>2, <1>4, <1>7, <1>8 DEF QueueNext

\* Only the steps of a put move it on.
LEMMA PutsKeep ==
    ASSUME [QueueNext]_queueVars, ~ Allocate
    PROVE  \/ UNCHANGED <<put, nextGroup>>
           \/ \E g \in Groups : Number(g) \/ PutStored(g) \/ PutReported(g)
  <1>2. CASE UNCHANGED queueVars
    BY <1>2 DEF queueVars, managerVars
  <1>3. ASSUME NEW w \in Workers, WorkerNext(w)  PROVE UNCHANGED <<put, nextGroup>>
    <2>1. CASE QueryUsable(w) \/ CountUsable(w) \/ Sample(w) \/ Mark(w) \/ RouteGet(w) \/ RoutePut(w)
      BY <2>1 DEF QueryUsable, CountUsable, Sample, ReadReady, Mark, RouteGet, RoutePut, Route, managerVars
    <2>2. ASSUME NEW j \in jobs[w], Fetch(w, j) \/ Store(w, j) \/ Report(w, j) \/ Prune(w, j)
          PROVE  UNCHANGED <<put, nextGroup>>
      BY <2>2 DEF Fetch, Store, Report, Prune, managerVars
    <2>3. CASE Deletes(w) \/ Unconsume(w) \/ Unmap(w) \/ Leaves(w)
      BY <2>3, DeletesDoes, LeavesKeep DEF Unconsume, Unmap
    <2> QED  BY <1>3, <2>1, <2>2, <2>3, WorkerCases DEF WorkerSteps
  <1>4. ASSUME NEW team, AllReduce(team)  PROVE UNCHANGED <<put, nextGroup>>
    BY <1>4 DEF AllReduce, managerVars
  <1>5. CASE Barrier
    BY <1>5 DEF Barrier, managerVars
  <1> QED  BY <1>2, <1>3, <1>4, <1>5 DEF QueueNext

\* Every step keeps what is known of the puts.
LEMMA PutStep == PutInv /\ [QueueNext]_queueVars => PutInv'
  <1> SUFFICES ASSUME PutInv, [QueueNext]_queueVars, NEW g \in Groups PROVE PutFits(g)'
    BY WorkStep DEF PutInv
  <1> WorkInv /\ PutFits(g)  BY DEF PutInv
  <1>0. /\ put \in [Groups -> {"unput", "numbering", "allocated", "stored", "reported"}]
        /\ nextGroup \in 0..MaxGroups
        /\ shardOf \in [Rows -> Shards \cup {Nowhere}]
        /\ table \in [Shards -> [Columns -> SUBSET Rows]]
        /\ \A s \in Shards : IsFiniteSet(groupIds[s])
        /\ Groups \subseteq Nat /\ MaxGroups \in Nat
    BY QueueAssumption DEF WorkInv, Shape, ManagerShape, Groups
  <1>1. \A i \in RowsOf(g) : i \in Rows /\ GroupOf(i) = g  BY RowGroups
  <1>2. CASE Allocate
    <2>1. /\ put' = [put EXCEPT ![nextGroup] = "numbering"] /\ put[nextGroup] = "unput"
          /\ nextGroup < MaxGroups
          /\ UNCHANGED <<nextGroup, table>>
      BY <1>2 DEF Allocate
    <2>2. /\ nextGroup' <= g <=> put'[g] \in {"unput", "numbering"}
          /\ put'[g] = "numbering" => g = nextGroup'
      BY <2>1, <1>0 DEF PutFits
    <2>3. put'[g] # "reported" => put[g] # "reported"  BY <2>1, <1>0 DEF PutFits
    <2>4. ASSUME NEW i \in RowsOf(g), put'[g] # "reported"  PROVE Untouched(i)'
      <3>1. Untouched(i)  BY <2>3, <2>4 DEF PutFits
      <3>2. \A h \in Groups : ~ PutReported(h)  BY <2>1, <1>0 DEF PutReported
      <3> QED  BY <3>1, <3>2, <1>1, UntouchedStep
    <2>5. ASSUME put'[g] \in {"numbering", "allocated", "stored"}
          PROVE  \E s \in Shards :
                     /\ \A i \in RowsOf(g) : shardOf'[i] = s
                     /\ put'[g] = "stored" => RowsOf(g) \subseteq table'[s]["rollout"]
      <3>1. \A i \in Rows : shardOf'[i] =
                IF \E s \in Shards : GroupOf(i) \in NewGroups(s)
                THEN CHOOSE s \in Shards : GroupOf(i) \in NewGroups(s)
                ELSE shardOf[i]
        BY <1>2 DEF Allocate, GroupOf
      <3>2. /\ \A s \in Shards : \A h \in NewGroups(s) : h \in Nat /\ nextGroup <= h
            /\ \E s \in Shards : nextGroup \in NewGroups(s)
        <4>1. nextGroup \in Nat  BY <1>0
        <4> QED  BY <4>1, <1>0, NewGroupsRight
      <3>3. CASE g = nextGroup
        <4>1. \E s \in Shards : g \in NewGroups(s)  BY <3>2, <3>3
        <4> DEFINE s == CHOOSE s \in Shards : g \in NewGroups(s)
        <4>2. s \in Shards  BY <4>1
        <4>3. \A i \in RowsOf(g) : shardOf'[i] = s  BY <3>1, <4>1, <1>1
        <4>4. put'[g] = "numbering"  BY <2>1, <3>3, <1>0
        <4> HIDE DEF s
        <4> QED  BY <4>2, <4>3, <4>4
      <3>4. CASE g # nextGroup
        <4>1. put'[g] = put[g]  BY <2>1, <3>4, <1>0
        <4>2. g < nextGroup  BY <4>1, <3>4, <2>5, <1>0 DEF PutFits
        <4>3. \A s \in Shards : g \notin NewGroups(s)  BY <3>2, <4>2, <1>0
        <4>4. \A i \in RowsOf(g) : shardOf'[i] = shardOf[i]  BY <3>1, <4>3, <1>1
        <4> QED  BY <4>1, <4>4, <2>1, <2>5 DEF PutFits
      <3> QED  BY <3>3, <3>4
    <2> QED  BY <2>2, <2>4, <2>5 DEF PutFits
  <1>3. CASE ~ Allocate
    <2>1. /\ nextGroup' <= g <=> put'[g] \in {"unput", "numbering"}
          /\ put'[g] = "numbering" => g = nextGroup'
      <3>1. CASE UNCHANGED <<put, nextGroup>>  BY <3>1 DEF PutFits
      <3>2. ASSUME NEW h \in Groups, Number(h)
            PROVE  /\ nextGroup' <= g <=> put'[g] \in {"unput", "numbering"}
                   /\ put'[g] = "numbering" => g = nextGroup'
        <4>1. h = nextGroup /\ put[h] = "numbering"  BY <3>2 DEF Number, PutInv, PutFits
        <4>2. \/ put' = [put EXCEPT ![h] = "allocated"] /\ nextGroup' = h + 1
              \/ put' = [put EXCEPT ![h] = "unput"] /\ nextGroup' = nextGroup
          BY <3>2 DEF Number
        <4>3. h = g \/ put'[g] = put[g]  BY <4>2, <1>0
        <4>4. h = g => put'[g] \in {"allocated", "unput"} /\ (put'[g] = "unput" => nextGroup' = nextGroup)
                       /\ (put'[g] = "allocated" => nextGroup' = g + 1)
          BY <4>2, <1>0
        <4> QED  BY <4>1, <4>2, <4>3, <4>4, <1>0 DEF PutFits
      <3>3. ASSUME NEW h \in Groups, PutStored(h) \/ PutReported(h)
            PROVE  /\ nextGroup' <= g <=> put'[g] \in {"unput", "numbering"}
                   /\ put'[g] = "numbering" => g = nextGroup'
        <4>1. nextGroup' = nextGroup /\ put[h] \in {"allocated", "stored"}
          BY <3>3 DEF PutStored, PutReported, managerVars
        <4>2. \E x \in {"stored", "reported"} : put' = [put EXCEPT ![h] = x]
          BY <3>3 DEF PutStored, PutReported
        <4> QED  BY <4>1, <4>2, <1>0 DEF PutFits
      <3> QED  BY <1>3, <3>1, <3>2, <3>3, PutsKeep
    <2>2. UNCHANGED <<put, nextGroup>> \/ \E h \in Groups : Number(h) \/ PutStored(h) \/ PutReported(h)
      BY <1>3, PutsKeep
    <2>3. CASE ~ PutStored(g) /\ ~ PutReported(g)
      <3>1. \/ put'[g] = put[g]
            \/ put[g] = "numbering" /\ put'[g] \in {"unput", "allocated"}
        BY <2>2, <2>3, <1>0 DEF Number, PutStored, PutReported
      <3>2. ASSUME NEW i \in RowsOf(g), put[g] # "reported"
            PROVE  Untouched(i)' /\ \A w \in Workers : i \notin batch[w]
        <4>1. Untouched(i)  BY <3>2 DEF PutFits
        <4>2. \A h \in Groups : PutReported(h) => i \notin RowsOf(h)  BY <2>3, <1>1, RowGroups
        <4> QED  BY <4>1, <4>2, <1>1, UntouchedStep DEF Untouched
      <3>3. ASSUME NEW i \in RowsOf(g), put[g] # "reported"
            PROVE  /\ shardOf'[i] = shardOf[i]
                   /\ \A s \in Shards : i \in table[s]["rollout"] => i \in table'[s]["rollout"]
        BY <3>2, <3>3, <1>1, <1>3, KeptUnlessDeleted, WorkerFacts
      <3> QED  BY <2>1, <3>1, <3>2, <3>3 DEF PutFits
    <2>4. CASE PutStored(g)
      <3>1. put[g] = "allocated" /\ put' = [put EXCEPT ![g] = "stored"]  BY <2>4 DEF PutStored
      <3>2. PICK s \in Shards : \A i \in RowsOf(g) : shardOf[i] = s  BY <3>1 DEF PutFits
      <3>3. table' = [table EXCEPT ![s]["rollout"] = @ \cup RowsOf(g)] /\ shardOf' = shardOf
        BY <2>4, <3>2, RowGroups DEF PutStored, managerVars
      <3>4. RowsOf(g) \subseteq table'[s]["rollout"]  BY <3>3, <1>0, WorkerFacts
      <3>5. \A i \in RowsOf(g) : Untouched(i)'
        BY <2>4, <3>1 DEF PutStored, managerVars, workerVars, historyVars, PutFits, Untouched
      <3>6. put'[g] = "stored"  BY <3>1, <1>0
      <3> QED  BY <2>1, <3>1, <3>2, <3>3, <3>4, <3>5, <3>6 DEF PutFits
    <2>5. CASE PutReported(g)
      <3>1. put[g] = "stored" /\ put'[g] = "reported"  BY <2>5, <1>0 DEF PutReported
      <3> QED  BY <2>1, <3>1 DEF PutFits
    <2> QED  BY <2>3, <2>4, <2>5
  <1> QED  BY <1>2, <1>3

-----------------------------------------------------------------------------
(* What is ready is stored.                                                *)

\* A request goes to the shard its rows still have; what is being deleted has none.
JobFits(j) ==
    \A i \in j.rows :
        /\ shardOf[i] \in {j.shard, Nowhere}
        /\ j.stage \in {"prune", "ungroup"} => shardOf[i] = Nowhere
        /\ j.stage = "report" /\ shardOf[i] # Nowhere => i \in table[j.shard]["logprob"]

StoredInv == PutInv /\ ReadyIsStored /\ \A w \in Workers : \A j \in jobs[w] : JobFits(j)

\* Nothing is stored at first.
LEMMA InitStored == QueueInit => StoredInv
  <1> SUFFICES ASSUME QueueInit PROVE ReadyIsStored /\ \A w \in Workers : \A j \in jobs[w] : JobFits(j)
    BY InitPut DEF StoredInv
  <1> QED  BY DEF QueueInit, ReadyIsStored

\* A row that somebody has seen keeps its shard until it is deleted.
LEMMA ShardStays ==
    ASSUME PutInv, [QueueNext]_queueVars, NEW i \in Rows, ~ Untouched(i)
    PROVE  shardOf'[i] \in {shardOf[i], Nowhere}
  <1>1. shardOf \in [Rows -> Shards \cup {Nowhere}]  BY DEF PutInv, WorkInv, Shape, ManagerShape
  <1>2. GroupOf(i) \in Groups /\ i \in RowsOf(GroupOf(i))  BY RowGroups
  <1>3. CASE Allocate
    <2>1. put[GroupOf(i)] = "reported"  BY <1>2 DEF PutInv, PutFits
    <2>2. ~ (nextGroup <= GroupOf(i))  BY <2>1, <1>2 DEF PutInv, PutFits
    <2>3. \A s \in Shards : GroupOf(i) \notin NewGroups(s)
      <3>1. nextGroup \in Nat /\ \A s \in Shards : IsFiniteSet(groupIds[s])
        BY QueueAssumption DEF PutInv, WorkInv, Shape, ManagerShape
      <3> QED  BY <3>1, <2>2, NewGroupsRight
    <2>4. shardOf'[i] = shardOf[i]  BY <1>3, <2>3 DEF Allocate, GroupOf
    <2> QED  BY <2>4
  <1>4. ASSUME NEW w \in Workers, WorkerNext(w)  PROVE shardOf'[i] \in {shardOf[i], Nowhere}
    <2>1. CASE QueryUsable(w) \/ CountUsable(w) \/ Sample(w) \/ Mark(w) \/ RouteGet(w) \/ RoutePut(w)
      BY <2>1 DEF QueryUsable, CountUsable, Sample, ReadReady, Mark, RouteGet, RoutePut, Route, managerVars
    <2>2. ASSUME NEW j \in jobs[w], Fetch(w, j) \/ Store(w, j) \/ Report(w, j) \/ Prune(w, j)
          PROVE  shardOf'[i] \in {shardOf[i], Nowhere}
      BY <2>2 DEF Fetch, Store, Report, Prune, managerVars
    <2>3. CASE Deletes(w) \/ Unconsume(w) \/ Unmap(w) \/ Leaves(w)
      BY <2>3, <1>1, DeletesDoes, LeavesKeep DEF Unconsume, Unmap
    <2> QED  BY <1>4, <2>1, <2>2, <2>3, WorkerCases DEF WorkerSteps
  <1>5. ASSUME NEW g \in Groups, Number(g) \/ PutStored(g) \/ PutReported(g)  PROVE shardOf' = shardOf
    BY <1>5 DEF Number, PutStored, PutReported, managerVars
  <1>6. ASSUME NEW team, AllReduce(team)  PROVE shardOf' = shardOf
    BY <1>6 DEF AllReduce, managerVars
  <1>7. CASE Barrier
    BY <1>7 DEF Barrier, managerVars
  <1>8. CASE UNCHANGED queueVars
    BY <1>8 DEF queueVars, managerVars
  <1> QED  BY <1>3, <1>4, <1>5, <1>6, <1>7, <1>8 DEF QueueNext

\* A table loses only rows that have no shard any more.
LEMMA TableStays ==
    ASSUME StoredInv, [QueueNext]_queueVars, NEW i \in Rows, shardOf[i] # Nowhere,
           NEW s \in Shards, NEW col \in Columns, i \in table[s][col]
    PROVE  i \in table'[s][col]
  <1>1. table \in [Shards -> [Columns -> SUBSET Rows]]
    BY DEF StoredInv, PutInv, WorkInv, Shape, ManagerShape
  <1>2. ASSUME NEW w \in Workers, WorkerNext(w)  PROVE i \in table'[s][col]
    <2>1. CASE QueryUsable(w) \/ CountUsable(w) \/ Sample(w) \/ Mark(w) \/ RouteGet(w) \/ RoutePut(w)
      BY <2>1 DEF QueryUsable, CountUsable, Sample, ReadReady, Mark, RouteGet, RoutePut, Route, managerVars
    <2>2. ASSUME NEW j \in jobs[w], Fetch(w, j) \/ Store(w, j) \/ Report(w, j)
          PROVE  i \in table'[s][col]
      BY <2>2, <1>1 DEF Fetch, Store, Report, managerVars
    <2>3. ASSUME NEW j \in jobs[w], Prune(w, j)  PROVE i \in table'[s][col]
      <3>1. i \notin j.rows  BY <2>3 DEF StoredInv, JobFits, Prune
      <3> QED  BY <3>1, <2>3, <1>1 DEF Prune
    <2>4. CASE Deletes(w) \/ Unconsume(w) \/ Unmap(w) \/ Leaves(w)
      BY <2>4, DeletesDoes, LeavesKeep DEF Unconsume, Unmap
    <2> QED  BY <1>2, <2>1, <2>2, <2>3, <2>4, WorkerCases DEF WorkerSteps
  <1>3. ASSUME NEW g \in Groups, Number(g) \/ PutStored(g) \/ PutReported(g)  PROVE i \in table'[s][col]
    BY <1>1, <1>3 DEF Number, PutStored, PutReported, managerVars
  <1>4. CASE Allocate
    BY <1>4 DEF Allocate
  <1>5. ASSUME NEW team, AllReduce(team)  PROVE table' = table
    BY <1>5 DEF AllReduce
  <1>6. CASE Barrier
    BY <1>6 DEF Barrier
  <1>7. CASE UNCHANGED queueVars
    BY <1>7 DEF queueVars
  <1> QED  BY <1>2, <1>3, <1>4, <1>5, <1>6, <1>7 DEF QueueNext

\* Where a request comes from.
LEMMA JobsCome ==
    ASSUME WorkInv, [QueueNext]_queueVars, NEW v \in Workers, NEW k \in jobs'[v], k \notin jobs[v]
    PROVE  \/ /\ \E stage \in {"fetch", "store"} : k \in RequestsFor(batch[v], stage)
              /\ RouteGet(v) \/ RoutePut(v)
           \/ k \in RequestsFor(batch[v], "prune") /\ Unmap(v)
           \/ \E j \in jobs[v] : k = [j EXCEPT !.stage = "report"] /\ Store(v, j)
           \/ \E j \in jobs[v] : k = [j EXCEPT !.stage = "ungroup"] /\ Prune(v, j)
           \/ \E j \in jobs[v] : LeftOf(k, j) /\ Leaves(v)
  <1>1. jobs \in [Workers -> SUBSET Request]  BY DEF WorkInv, Shape, WorkerShape
  <1>2. ~ UNCHANGED jobs  OBVIOUS
  <1>3. PICK w \in Workers : WorkerNext(w)
    <2>1. ASSUME NEW g \in Groups, Number(g) \/ PutStored(g) \/ PutReported(g)  PROVE UNCHANGED jobs
      BY <2>1 DEF Number, PutStored, PutReported, workerVars
    <2>2. ASSUME NEW team, AllReduce(team)  PROVE UNCHANGED jobs
      BY <2>2 DEF AllReduce
    <2>3. Allocate \/ Barrier \/ UNCHANGED queueVars => UNCHANGED jobs
      BY DEF Allocate, Barrier, queueVars, workerVars
    <2> QED  BY <1>2, <2>1, <2>2, <2>3 DEF QueueNext
  <1>4. CASE QueryUsable(w) \/ CountUsable(w) \/ Sample(w) \/ Mark(w) \/ Deletes(w) \/ Unconsume(w)
    BY <1>2, <1>4, DeletesDoes, LeavesKeep DEF QueryUsable, CountUsable, Sample, ReadReady, Mark, Unconsume
  <1>5. CASE RouteGet(w) \/ RoutePut(w)
    BY <1>1, <1>5 DEF RouteGet, RoutePut, Route
  <1>6. ASSUME NEW j \in jobs[w], Fetch(w, j) \/ Report(w, j)  PROVE FALSE
    BY <1>1, <1>6 DEF Fetch, Report
  <1>7. ASSUME NEW j \in jobs[w], Store(w, j)
        PROVE  v = w /\ k = [j EXCEPT !.stage = "report"]
    BY <1>1, <1>7 DEF Store
  <1>8. ASSUME NEW j \in jobs[w], Prune(w, j)
        PROVE  v = w /\ k = [j EXCEPT !.stage = "ungroup"]
    BY <1>1, <1>8 DEF Prune
  <1>9. CASE Unmap(w)
    BY <1>1, <1>9 DEF Unmap
  <1>10. CASE Leaves(w)
    <2>1. PICK to \in {"ungroup", "listing", "forget", "query", "failed"}, rest \in SUBSET Request :
              LeavesAs(w, to, rest)
      BY <1>10, LeavesMove DEF WorkInv, Shape
    <2>2. v = w /\ k \in rest  BY <2>1, <1>1 DEF LeavesAs
    <2>3. \E j \in jobs[w] : LeftOf(k, j)  BY <2>1, <2>2 DEF LeavesAs
    <2> QED  BY <2>2, <2>3, <1>10
  <1> QED  BY <1>3, <1>4, <1>5, <1>6, <1>7, <1>8, <1>9, <1>10, WorkerCases DEF WorkerSteps

\* Where a ready row comes from.
LEMMA ReadyComes ==
    ASSUME WorkInv, [QueueNext]_queueVars, NEW col \in Columns, NEW i \in ready'[col], i \notin ready[col]
    PROVE  \/ col = "rollout" /\ \E g \in Groups : PutReported(g) /\ i \in RowsOf(g)
           \/ col = "logprob" /\ \E w \in Workers : \E j \in jobs[w] : Report(w, j) /\ i \in j.rows
  <1>1. ready \in [Columns -> SUBSET Rows]  BY DEF WorkInv, Shape, ManagerShape
  <1>2. ~ UNCHANGED ready  OBVIOUS
  <1>3. ASSUME NEW g \in Groups, Number(g) \/ PutStored(g) \/ PutReported(g)
        PROVE  col = "rollout" /\ PutReported(g) /\ i \in RowsOf(g)
    BY <1>1, <1>2, <1>3 DEF Number, PutStored, PutReported, managerVars
  <1>4. ASSUME NEW w \in Workers, WorkerNext(w)
        PROVE  col = "logprob" /\ \E j \in jobs[w] : Report(w, j) /\ i \in j.rows
    <2>1. CASE QueryUsable(w) \/ CountUsable(w) \/ Sample(w) \/ Mark(w) \/ RouteGet(w) \/ RoutePut(w)
      BY <1>2, <2>1 DEF QueryUsable, CountUsable, Sample, ReadReady, Mark, RouteGet, RoutePut, Route, managerVars
    <2>2. ASSUME NEW j \in jobs[w], Fetch(w, j) \/ Store(w, j) \/ Prune(w, j)  PROVE FALSE
      BY <1>2, <2>2 DEF Fetch, Store, Prune, managerVars
    <2>3. ASSUME NEW j \in jobs[w], Report(w, j)  PROVE col = "logprob" /\ i \in j.rows
      BY <1>1, <2>3 DEF Report
    <2>4. CASE Deletes(w) \/ Unconsume(w) \/ Unmap(w) \/ Leaves(w)
      BY <1>1, <1>2, <2>4, DeletesDoes, LeavesKeep DEF Unconsume, Unmap
    <2> QED  BY <1>4, <2>1, <2>2, <2>3, <2>4, WorkerCases DEF WorkerSteps
  <1>5. ASSUME NEW team, AllReduce(team)  PROVE UNCHANGED ready
    BY <1>5 DEF AllReduce, managerVars
  <1>6. Allocate \/ Barrier \/ UNCHANGED queueVars => UNCHANGED ready
    BY DEF Allocate, Barrier, queueVars, managerVars
  <1> QED  BY <1>2, <1>3, <1>4, <1>5, <1>6 DEF QueueNext

\* Every step keeps what is known of the stored rows.
LEMMA StoredStep == StoredInv /\ [QueueNext]_queueVars => StoredInv'
  <1> SUFFICES ASSUME StoredInv, [QueueNext]_queueVars PROVE StoredInv'  OBVIOUS
  <1> PutInv /\ WorkInv /\ ReadyIsStored  BY DEF StoredInv, PutInv
  <1>0. PutInv'  BY PutStep
  <1>1. /\ shardOf \in [Rows -> Shards \cup {Nowhere}]
        /\ table \in [Shards -> [Columns -> SUBSET Rows]]
        /\ ready \in [Columns -> SUBSET Rows]
        /\ batch \in [Workers -> SUBSET Rows]
        /\ jobs \in [Workers -> SUBSET Request]
        /\ shardOf' \in [Rows -> Shards \cup {Nowhere}]
        /\ Nowhere \notin Shards
    BY <1>0, ShardFacts DEF PutInv, WorkInv, Shape, ManagerShape, WorkerShape, Nowhere
  <1>2. \A w \in Workers : \A i \in batch[w] : i \in Rows /\ ~ Untouched(i)  BY <1>1 DEF Untouched
  <1>3. \A w \in Workers : \A j \in jobs[w] : j \in Request /\ j.rows \subseteq batch[w] /\ JobFits(j)
    BY <1>1 DEF StoredInv, WorkInv, JobsFit
  <1>4. ASSUME NEW w \in Workers, NEW k \in jobs'[w]  PROVE JobFits(k)'
    <2>1. CASE k \in jobs[w]
      <3> SUFFICES ASSUME NEW i \in k.rows
                   PROVE  /\ shardOf'[i] \in {k.shard, Nowhere}
                          /\ k.stage \in {"prune", "ungroup"} => shardOf'[i] = Nowhere
                          /\ k.stage = "report" /\ shardOf'[i] # Nowhere => i \in table'[k.shard]["logprob"]
        BY DEF JobFits
      <3>1. i \in Rows /\ ~ Untouched(i)  BY <2>1, <1>2, <1>3
      <3>2. shardOf'[i] \in {shardOf[i], Nowhere}  BY <3>1, ShardStays
      <3>3. JobFits(k)  BY <2>1, <1>3
      <3>4. ASSUME k.stage = "report", shardOf'[i] # Nowhere  PROVE i \in table'[k.shard]["logprob"]
        <4>1. shardOf[i] # Nowhere /\ k.shard \in Shards  BY <1>1, <3>1, <3>2, <3>3, <3>4 DEF JobFits
        <4>2. i \in table[k.shard]["logprob"]  BY <4>1, <3>3, <3>4 DEF JobFits
        <4> QED  BY <4>1, <4>2, <3>1, TableStays, WorkerFacts
      <3> QED  BY <3>2, <3>3, <3>4 DEF JobFits
    <2>2. CASE k \notin jobs[w]
      <3>1. ASSUME NEW stage \in {"fetch", "store"}, k \in RequestsFor(batch[w], stage), RouteGet(w) \/ RoutePut(w)
            PROVE  JobFits(k)'
        <4>1. shardOf' = shardOf  BY <3>1 DEF RouteGet, RoutePut, Route, managerVars
        <4>2. k.stage = stage /\ \A i \in k.rows : shardOf[i] = k.shard  BY <3>1, RequestsApart
        <4> QED  BY <4>1, <4>2 DEF JobFits
      <3>2. ASSUME k \in RequestsFor(batch[w], "prune"), Unmap(w)  PROVE JobFits(k)'
        <4>1. k.stage = "prune" /\ k.rows \subseteq batch[w]  BY <3>2, RequestsApart
        <4>2. \A i \in k.rows : shardOf'[i] = Nowhere  BY <4>1, <3>2, <1>1 DEF Unmap
        <4> QED  BY <4>1, <4>2 DEF JobFits
      <3>3. ASSUME NEW j \in jobs[w], k = [j EXCEPT !.stage = "report"], Store(w, j)  PROVE JobFits(k)'
        <4>1. j \in Request /\ JobFits(j)  BY <1>3
        <4>2. k.stage = "report" /\ k.rows = j.rows /\ k.shard = j.shard  BY <4>1, <3>3 DEF Request
        <4>3. shardOf' = shardOf /\ table' = [table EXCEPT ![j.shard]["logprob"] = @ \cup j.rows]
          BY <3>3 DEF Store, managerVars
        <4>4. ASSUME NEW i \in j.rows, shardOf[i] # Nowhere  PROVE i \in table'[j.shard]["logprob"]
          <5>1. j.shard \in Shards  BY <4>1, <4>4, <1>1, <1>2, <1>3 DEF JobFits
          <5> QED  BY <5>1, <4>3, <1>1, WorkerFacts
        <4> QED  BY <4>1, <4>2, <4>3, <4>4 DEF JobFits
      <3>4. ASSUME NEW j \in jobs[w], k = [j EXCEPT !.stage = "ungroup"], Prune(w, j)  PROVE JobFits(k)'
        <4>1. j \in Request /\ JobFits(j)  BY <1>3
        <4>2. k.stage = "ungroup" /\ k.rows = j.rows  BY <4>1, <3>4 DEF Request
        <4>3. shardOf' = shardOf /\ j.stage = "prune"  BY <3>4 DEF Prune, managerVars
        <4> QED  BY <4>1, <4>2, <4>3 DEF JobFits
      <3>5. ASSUME NEW j \in jobs[w], LeftOf(k, j), Leaves(w)  PROVE JobFits(k)'
        <4>1. shardOf' = shardOf /\ table' = table  BY <3>5, LeavesKeep
        <4> QED  BY <4>1, <3>5, <1>3 DEF JobFits, LeftOf
      <3> QED  BY <2>2, <3>1, <3>2, <3>3, <3>4, <3>5, JobsCome
    <2> QED  BY <2>1, <2>2
  <1>5. ASSUME NEW col \in Columns, NEW i \in ready'[col], shardOf'[i] # Nowhere
        PROVE  i \in table'[shardOf'[i]][col]
    <2>1. CASE i \in ready[col]
      <3>1. i \in Rows /\ ~ Untouched(i)  BY <2>1, <1>1 DEF Untouched
      <3>2. shardOf'[i] = shardOf[i]  BY <3>1, <1>5, ShardStays
      <3>3. i \in table[shardOf[i]][col] /\ shardOf[i] \in Shards  BY <2>1, <3>1, <3>2, <1>1, <1>5 DEF ReadyIsStored
      <3> QED  BY <3>1, <3>2, <3>3, <1>5, TableStays
    <2>2. ASSUME NEW g \in Groups, PutReported(g), i \in RowsOf(g), col = "rollout"
          PROVE  i \in table'[shardOf'[i]][col]
      <3>1. put[g] = "stored" /\ UNCHANGED <<shardOf, table>>  BY <2>2 DEF PutReported
      <3> QED  BY <3>1, <2>2 DEF PutInv, PutFits
    <2>3. ASSUME NEW w \in Workers, NEW j \in jobs[w], Report(w, j), i \in j.rows, col = "logprob"
          PROVE  i \in table'[shardOf'[i]][col]
      <3>1. j.stage = "report" /\ UNCHANGED <<shardOf, table>>  BY <2>3 DEF Report
      <3> QED  BY <3>1, <2>3, <1>3, <1>5 DEF JobFits
    <2> QED  BY <2>1, <2>2, <2>3, ReadyComes
  <1> QED  BY <1>0, <1>4, <1>5 DEF StoredInv, ReadyIsStored

-----------------------------------------------------------------------------
(* Who changes what.                                                       *)

\* A worker moves by a step of its own or by one of its whole team.
LEMMA OthersStay ==
    ASSUME WorkInv, [QueueNext]_queueVars, NEW w \in Workers, ~ WorkerNext(w)
    PROVE  /\ snapshot'[w] = snapshot[w] /\ batch'[w] = batch[w] /\ jobs'[w] = jobs[w]
           /\ \/ pc'[w] = pc[w] /\ count'[w] = count[w]
              \/ AllReduce(Team(w))
              \/ Barrier /\ w \in TrainRanks
  <1> /\ pc \in [Workers -> Labels]
      /\ jobs \in [Workers -> SUBSET Request]
      /\ batch \in [Workers -> SUBSET Rows]
      /\ snapshot \in [Workers -> SUBSET Rows]
      /\ count \in [Workers -> Nat]
    BY DEF WorkInv, Shape, WorkerShape
  <1> DEFINE Same == /\ snapshot'[w] = snapshot[w] /\ batch'[w] = batch[w] /\ jobs'[w] = jobs[w]
                     /\ pc'[w] = pc[w] /\ count'[w] = count[w]
  <1>1. ASSUME NEW g \in Groups, Number(g) \/ PutStored(g) \/ PutReported(g)  PROVE Same
    BY <1>1 DEF Number, PutStored, PutReported, workerVars
  <1>2. Allocate \/ UNCHANGED queueVars => Same
    BY DEF Allocate, queueVars, workerVars
  <1>3. ASSUME NEW v \in Workers, WorkerNext(v), v # w  PROVE Same
    <2>1. CASE QueryUsable(v) \/ CountUsable(v) \/ Sample(v) \/ Mark(v)
      BY <1>3, <2>1 DEF QueryUsable, CountUsable, Sample, ReadReady, Mark
    <2>2. CASE RouteGet(v) \/ RoutePut(v)
      BY <1>3, <2>2 DEF RouteGet, RoutePut, Route
    <2>3. ASSUME NEW j \in jobs[v], Fetch(v, j) \/ Store(v, j) \/ Report(v, j) \/ Prune(v, j)
          PROVE  Same
      BY <1>3, <2>3 DEF Fetch, Store, Report, Prune
    <2>4. CASE Deletes(v) \/ Unconsume(v) \/ Unmap(v)
      BY <1>3, <2>4, DeletesDoes DEF Unconsume, Unmap, PruneStep
    <2>5. CASE Leaves(v)
      <3>1. PICK to \in {"ungroup", "listing", "forget", "query", "failed"}, rest \in SUBSET Request :
                LeavesAs(v, to, rest)
        BY <2>5, LeavesMove DEF WorkInv, Shape
      <3>2. UNCHANGED <<snapshot, count>>  BY <2>5, LeavesKeep
      <3> QED  BY <1>3, <3>1, <3>2 DEF LeavesAs
    <2> QED  BY <1>3, <2>1, <2>2, <2>3, <2>4, <2>5, WorkerCases DEF WorkerSteps
  <1>4. ASSUME NEW team \in {FwdWorkers, TrainRanks}, AllReduce(team)
        PROVE  /\ snapshot'[w] = snapshot[w] /\ batch'[w] = batch[w] /\ jobs'[w] = jobs[w]
               /\ \/ pc'[w] = pc[w] /\ count'[w] = count[w]
                  \/ AllReduce(Team(w))
    BY <1>4, WorkerFacts DEF AllReduce, Team
  <1>5. CASE Barrier
    BY <1>5 DEF Barrier
  <1> HIDE DEF Same
  <1>6. Allocate \/ (\E g \in Groups : Number(g) \/ PutStored(g) \/ PutReported(g)) \/ UNCHANGED queueVars => Same
    BY <1>1, <1>2
  <1> QED  BY <1>6, <1>3, <1>4, <1>5 DEF QueueNext, Same

\* Rows become unready, and unconsumed, when a rank deletes them.
LEMMA ReadyGoes ==
    ASSUME WorkInv, [QueueNext]_queueVars, NEW col \in Columns, NEW i \in ready[col], i \notin ready'[col]
    PROVE  \E t \in TrainRanks : Deletes(t) /\ i \in batch[t]
  <1>1. ready \in [Columns -> SUBSET Rows] /\ OwnSteps  BY DEF WorkInv, Shape, ManagerShape
  <1>2. ASSUME NEW g \in Groups, Number(g) \/ PutStored(g) \/ PutReported(g)  PROVE FALSE
    BY <1>1, <1>2 DEF Number, PutStored, PutReported, managerVars
  <1>3. ASSUME NEW w \in Workers, WorkerNext(w)  PROVE Deletes(w) /\ i \in batch[w] /\ w \in TrainRanks
    <2>1. CASE QueryUsable(w) \/ CountUsable(w) \/ Sample(w) \/ Mark(w) \/ RouteGet(w) \/ RoutePut(w)
      BY <2>1 DEF QueryUsable, CountUsable, Sample, ReadReady, Mark, RouteGet, RoutePut, Route, managerVars
    <2>2. ASSUME NEW j \in jobs[w], Fetch(w, j) \/ Store(w, j) \/ Report(w, j) \/ Prune(w, j)  PROVE FALSE
      BY <1>1, <2>2 DEF Fetch, Store, Report, Prune, managerVars
    <2>3. CASE Unconsume(w) \/ Unmap(w) \/ Leaves(w)
      BY <2>3, LeavesKeep DEF Unconsume, Unmap
    <2>4. CASE Deletes(w)
      <3>1. pc[w] = "unready"  BY <2>4, DeletesDoes, LeavesKeep DEF PruneStep
      <3>2. w \in TrainRanks  BY <3>1, <1>1, WorkerFacts DEF OwnSteps, Deletion
      <3> QED  BY <3>2, <2>4, <1>1, DeletesDoes, LeavesKeep
    <2> QED  BY <1>3, <2>1, <2>2, <2>3, <2>4, WorkerCases DEF WorkerSteps
  <1>4. ASSUME NEW team, AllReduce(team)  PROVE FALSE
    BY <1>4 DEF AllReduce, managerVars
  <1>5. ~ Allocate /\ ~ Barrier /\ ~ UNCHANGED queueVars
    BY DEF Allocate, Barrier, queueVars, managerVars
  <1> QED  BY <1>2, <1>3, <1>4, <1>5 DEF QueueNext

\* A row is forgotten as consumed only by a train rank that deletes it.
LEMMA ConsumedGoes ==
    ASSUME WorkInv, [QueueNext]_queueVars, NEW c \in Consumers, NEW i \in consumed[c], i \notin consumed'[c]
    PROVE  \E t \in TrainRanks : Unconsume(t) /\ i \in batch[t]
  <1>1. consumed \in [Consumers -> SUBSET Rows] /\ OwnSteps  BY DEF WorkInv, Shape, ManagerShape
  <1>2. ASSUME NEW g \in Groups, Number(g) \/ PutStored(g) \/ PutReported(g)  PROVE FALSE
    BY <1>1, <1>2 DEF Number, PutStored, PutReported, managerVars
  <1>3. ASSUME NEW w \in Workers, WorkerNext(w)  PROVE Unconsume(w) /\ i \in batch[w] /\ w \in TrainRanks
    <2>1. CASE QueryUsable(w) \/ CountUsable(w) \/ Sample(w) \/ RouteGet(w) \/ RoutePut(w)
      BY <2>1 DEF QueryUsable, CountUsable, Sample, ReadReady, RouteGet, RoutePut, Route, managerVars
    <2>2. CASE Mark(w)
      BY <1>1, <2>2 DEF Mark
    <2>3. ASSUME NEW j \in jobs[w], Fetch(w, j) \/ Store(w, j) \/ Report(w, j) \/ Prune(w, j)  PROVE FALSE
      BY <1>1, <2>3 DEF Fetch, Store, Report, Prune, managerVars
    <2>4. CASE Deletes(w) \/ Unmap(w) \/ Leaves(w)
      BY <2>4, DeletesDoes, LeavesKeep DEF Unmap
    <2>5. CASE Unconsume(w)
      <3>1. pc[w] = "unconsume"  BY <2>5 DEF Unconsume, PruneStep
      <3>2. w \in TrainRanks  BY <3>1, <1>1, WorkerFacts DEF OwnSteps, Deletion
      <3> QED  BY <3>2, <2>5, <1>1 DEF Unconsume
    <2> QED  BY <1>3, <2>1, <2>2, <2>3, <2>4, <2>5, WorkerCases DEF WorkerSteps
  <1>4. ASSUME NEW team, AllReduce(team)  PROVE FALSE
    BY <1>4 DEF AllReduce, managerVars
  <1>5. ~ Allocate /\ ~ Barrier /\ ~ UNCHANGED queueVars
    BY DEF Allocate, Barrier, queueVars, managerVars
  <1> QED  BY <1>2, <1>3, <1>4, <1>5 DEF QueueNext

\* Rows become consumed when they are dealt.
LEMMA ConsumedComes ==
    ASSUME WorkInv, [QueueNext]_queueVars, NEW c \in Consumers, NEW i \in consumed'[c], i \notin consumed[c]
    PROVE  \E w \in Workers : ConsumerOf(w) = c /\ Mark(w) /\ i \in batch'[w]
  <1>1. /\ consumed \in [Consumers -> SUBSET Rows]
        /\ batch \in [Workers -> SUBSET Rows]
    BY DEF WorkInv, Shape, ManagerShape, WorkerShape
  <1>2. ASSUME NEW g \in Groups, Number(g) \/ PutStored(g) \/ PutReported(g)  PROVE FALSE
    BY <1>1, <1>2 DEF Number, PutStored, PutReported, managerVars
  <1>3. ASSUME NEW w \in Workers, WorkerNext(w)  PROVE ConsumerOf(w) = c /\ Mark(w) /\ i \in batch'[w]
    <2>1. CASE QueryUsable(w) \/ CountUsable(w) \/ Sample(w) \/ RouteGet(w) \/ RoutePut(w)
      BY <2>1 DEF QueryUsable, CountUsable, Sample, ReadReady, RouteGet, RoutePut, Route, managerVars
    <2>2. CASE Mark(w)
      BY <1>1, <2>2 DEF Mark
    <2>3. ASSUME NEW j \in jobs[w], Fetch(w, j) \/ Store(w, j) \/ Report(w, j) \/ Prune(w, j)  PROVE FALSE
      BY <1>1, <2>3 DEF Fetch, Store, Report, Prune, managerVars
    <2>4. CASE Deletes(w) \/ Unconsume(w) \/ Unmap(w) \/ Leaves(w)
      BY <1>1, <2>4, DeletesDoes, LeavesKeep DEF Unconsume, Unmap
    <2> QED  BY <1>3, <2>1, <2>2, <2>3, <2>4, WorkerCases DEF WorkerSteps
  <1>4. ASSUME NEW team, AllReduce(team)  PROVE FALSE
    BY <1>4 DEF AllReduce, managerVars
  <1>5. ~ Allocate /\ ~ Barrier /\ ~ UNCHANGED queueVars
    BY DEF Allocate, Barrier, queueVars, managerVars
  <1> QED  BY <1>2, <1>3, <1>4, <1>5 DEF QueueNext

\* A row that somebody has seen loses its shard when a rank deletes it.
LEMMA ShardGoes ==
    ASSUME PutInv, [QueueNext]_queueVars, NEW i \in Rows, ~ Untouched(i), shardOf'[i] # shardOf[i]
    PROVE  \E t \in TrainRanks : Unmap(t) /\ i \in batch[t]
  <1>1. shardOf'[i] = Nowhere  BY ShardStays
  <1>2. WorkInv /\ OwnSteps /\ shardOf \in [Rows -> Shards \cup {Nowhere}]
    BY DEF PutInv, WorkInv, Shape, ManagerShape
  <1>3. ~ Allocate
    <2> SUFFICES ASSUME Allocate PROVE FALSE  OBVIOUS
    <2>1. shardOf'[i] \in Shards \/ shardOf'[i] = shardOf[i]  BY DEF Allocate
    <2> QED  BY <2>1, <1>1, ShardFacts DEF Nowhere
  <1>4. \E t \in Workers : Unmap(t) /\ i \in batch[t]
    <2>1. ASSUME NEW w \in Workers, WorkerNext(w)  PROVE Unmap(w) /\ i \in batch[w]
      <3>1. CASE QueryUsable(w) \/ CountUsable(w) \/ Sample(w) \/ Mark(w) \/ RouteGet(w) \/ RoutePut(w)
        BY <3>1 DEF QueryUsable, CountUsable, Sample, ReadReady, Mark, RouteGet, RoutePut, Route, managerVars
      <3>2. ASSUME NEW j \in jobs[w], Fetch(w, j) \/ Store(w, j) \/ Report(w, j) \/ Prune(w, j)  PROVE FALSE
        BY <3>2 DEF Fetch, Store, Report, Prune, managerVars
      <3>3. CASE Deletes(w) \/ Unconsume(w) \/ Leaves(w)
        BY <3>3, DeletesDoes, LeavesKeep DEF Unconsume
      <3>4. CASE Unmap(w)
        BY <3>4, <1>2 DEF Unmap
      <3> QED  BY <2>1, <3>1, <3>2, <3>3, <3>4, WorkerCases DEF WorkerSteps
    <2>2. ASSUME NEW g \in Groups, Number(g) \/ PutStored(g) \/ PutReported(g)  PROVE FALSE
      BY <2>2 DEF Number, PutStored, PutReported, managerVars
    <2>3. ASSUME NEW team, AllReduce(team)  PROVE FALSE
      BY <2>3 DEF AllReduce, managerVars
    <2>4. ~ Barrier /\ ~ UNCHANGED queueVars
      BY DEF Barrier, queueVars, managerVars
    <2> QED  BY <1>3, <2>1, <2>2, <2>3, <2>4 DEF QueueNext
  <1>5. \A t \in Workers : Unmap(t) => t \in TrainRanks
    BY <1>2, WorkerFacts DEF Unmap, PruneStep, OwnSteps, Deletion
  <1> QED  BY <1>4, <1>5

-----------------------------------------------------------------------------
(* The train ranks: what a rank has, and that all of them get a share.     *)

ReadyBoth == ready["rollout"] \cap ready["logprob"]
Left == ReadyBoth \ consumed["train"]

Gathering == {"sample", "mark", "route", "fetch", "process"}
Polling == {"query", "count", "counted"}
Keeping == {"route", "fetch", "process", "unready"}
Holding == Keeping \cup {"unconsume", "unmap"}

TrainHas(t, i) == i \in batch[t] /\ pc[t] \in Holding

\* A train rank has rows that are ready and consumed until it deletes them, in that
\* order, and that have a shard until it takes that away.
HasFits(t) ==
    /\ \A i \in batch[t] : pc[t] \in Holding =>
           /\ shardOf[i] \in Shards
           /\ pc[t] \in Keeping => i \in ReadyBoth /\ i \in consumed["train"]
           /\ pc[t] \notin Keeping => i \notin ready["rollout"]
    /\ pc[t] \in {"route", "fetch"} => batch[t] # {}
    /\ pc[t] = "fetch" => jobs[t] # {}

\* What was put and not deleted has a shard.
AliveMapped == \A i \in ready["rollout"] : shardOf[i] \in Shards

HasInv ==
    /\ AliveMapped
    /\ \A t \in TrainRanks : HasFits(t)
    /\ \A t, u \in TrainRanks : \A i \in Rows : TrainHas(t, i) /\ TrainHas(u, i) => t = u

\* The ranks gather their batches together, and look for them or delete them together.
Phase ==
    \/ \A t \in TrainRanks : pc[t] \in Gathering
    \/ \A t \in TrainRanks : pc[t] \in Polling \cup Deletion

\* While they gather, what is left is enough for those that have not got their share,
\* also in the snapshot of the one that is sampling.
ToTake == {t \in TrainRanks : pc[t] \in {"sample", "mark"}}

TakeInv ==
    (\E t \in TrainRanks : pc[t] \in Gathering) =>
        /\ SharesOf(ToTake) <= Cardinality(Left)
        /\ \A t \in TrainRanks : pc[t] = "mark" =>
              /\ snapshot[t] \subseteq ReadyBoth
              /\ SharesOf(ToTake) <= Cardinality(Usable(t))

\* While they look, one of them at least does not count deleted rows.
CountsRight(t) ==
    \/ pc[t] = "query"
    \/ pc[t] = "count" /\ snapshot[t] \subseteq ReadyBoth
    \/ pc[t] = "counted" /\ count[t] <= Cardinality(Left)

PollInv ==
    TrainRanks # {} /\ (\A t \in TrainRanks : pc[t] \in Polling) => \E t \in TrainRanks : CountsRight(t)

TrainInv == StoredInv /\ HasInv /\ Phase /\ TakeInv /\ PollInv

\* No rank has rows at first.
LEMMA InitTrain == QueueInit => TrainInv
  <1> SUFFICES ASSUME QueueInit PROVE HasInv /\ Phase /\ TakeInv /\ PollInv  BY InitStored DEF TrainInv
  <1> USE WorkerFacts DEF QueueInit
  <1>1. \A t \in TrainRanks : pc[t] = "query" /\ batch[t] = {}  OBVIOUS
  <1>2. HasInv  BY DEF HasInv, AliveMapped, HasFits, TrainHas
  <1>3. Phase /\ TakeInv  BY <1>1 DEF Phase, TakeInv, Polling, Gathering
  <1>4. PollInv  BY <1>1 DEF PollInv, CountsRight
  <1> QED  BY <1>2, <1>3, <1>4

\* The data of a train rank's request is there.
LEMMA TrainFinds ==
    ASSUME StoredInv, HasInv, NEW t \in TrainRanks, NEW j \in jobs[t], j.stage = "fetch"
    PROVE  /\ \A col \in InputColumns(ConsumerOf(t)) : j.rows \subseteq table[j.shard][col]
           /\ pc[t] = "fetch" /\ batch[t] # {}
  <1>1. t \in Workers /\ ConsumerOf(t) = "train"  BY WorkerFacts
  <1>2. pc[t] = "fetch" /\ j.rows \subseteq batch[t] /\ JobFits(j)
    BY <1>1 DEF StoredInv, PutInv, WorkInv, JobsFit
  <1>3. ASSUME NEW i \in j.rows, NEW col \in Columns  PROVE i \in table[j.shard][col]
    <2>1. shardOf[i] \in Shards /\ i \in ready[col]
      BY <1>2 DEF HasInv, HasFits, Holding, Keeping, ReadyBoth, Columns
    <2>2. shardOf[i] # Nowhere  BY <2>1, ShardFacts DEF Nowhere
    <2>3. shardOf[i] = j.shard  BY <1>2, <2>2 DEF JobFits
    <2> QED  BY <2>1, <2>2, <2>3 DEF StoredInv, ReadyIsStored
  <1>4. batch[t] # {}  BY <1>2 DEF HasInv, HasFits
  <1> QED  BY <1>1, <1>2, <1>3, <1>4, WorkerFacts

\* The rows that a rank holds have a shard.
LEMMA TrainRouted ==
    ASSUME HasInv, NEW t \in TrainRanks, pc[t] \in Holding
    PROVE  Routed(batch[t])
  BY ShardFacts DEF Routed, HasInv, HasFits, Nowhere

\* A rank that samples gets rows.
LEMMA TrainTakes ==
    ASSUME WorkInv, TakeInv, NEW t \in TrainRanks, Mark(t)
    PROVE  /\ batch'[t] # {}
           /\ batch'[t] \in SUBSET Usable(t)
           /\ Cardinality(batch'[t]) <= Share[t]
           /\ snapshot[t] \subseteq ReadyBoth
           /\ pc'[t] = "route" /\ pc[t] = "mark"
           /\ consumed'["train"] = consumed["train"] \cup batch'[t]
  <1> DEFINE chosen == IF Cardinality(Usable(t)) < Share[t] THEN {} ELSE First(Share[t], Usable(t))
  <1>1. t \in Workers /\ ConsumerOf(t) = "train" /\ Share[t] \in Nat  BY WorkerFacts
  <1>2. /\ Usable(t) \in SUBSET Rows
        /\ chosen \in SUBSET Usable(t)
        /\ Cardinality(chosen) <= Share[t]
        /\ Cardinality(Usable(t)) >= Share[t] => chosen # {}
    BY <1>1, MarkChoice DEF WorkInv
  <1> HIDE DEF chosen
  <1>3. /\ pc[t] = "mark" /\ pc' = [pc EXCEPT ![t] = IF chosen = {} THEN "query" ELSE "route"]
        /\ consumed' = [consumed EXCEPT !["train"] = @ \cup chosen]
        /\ batch' = [batch EXCEPT ![t] = chosen]
    BY <1>1 DEF Mark, chosen
  <1>4. /\ pc \in [Workers -> Labels] /\ batch \in [Workers -> SUBSET Rows]
        /\ consumed \in [Consumers -> SUBSET Rows]
    BY DEF WorkInv, Shape, WorkerShape, ManagerShape
  <1>5. snapshot[t] \subseteq ReadyBoth /\ SharesOf(ToTake) <= Cardinality(Usable(t))
    BY <1>3 DEF TakeInv, Gathering
  <1>6. IsFiniteSet(ToTake) /\ t \in ToTake /\ ToTake \in SUBSET TrainRanks
    <2>1. ToTake \in SUBSET Workers  BY WorkerFacts DEF ToTake
    <2>2. IsFiniteSet(ToTake)  BY <2>1, FS_Subset, QueueAssumption
    <2> QED  BY <2>2, <1>3 DEF ToTake
  <1>7. Share[t] <= SharesOf(ToTake)
    <2>1. \A u \in ToTake : Share[u] \in Nat /\ Share[u] \in Int  BY <1>6, WorkerFacts
    <2>2. SharesOf(ToTake) = Share[t] + SumFunctionOnSet(Share, ToTake \ {t})
      BY <1>6, <2>1, SumRemove DEF SharesOf
    <2>3. SumFunctionOnSet(Share, ToTake \ {t}) \in Nat
      <3>1. IsFiniteSet(ToTake \ {t})  BY <1>6, FS_Difference
      <3> QED  BY <3>1, <2>1, SumNat
    <2> QED  BY <1>1, <2>2, <2>3
  <1>8. SharesOf(ToTake) \in Nat
    <2>1. \A u \in ToTake : Share[u] \in Nat  BY <1>6, WorkerFacts
    <2> QED  BY <2>1, <1>6, SumNat DEF SharesOf
  <1>9. Cardinality(Usable(t)) \in Nat  BY <1>2, RowsFinite
  <1>10. chosen # {}  BY <1>1, <1>2, <1>5, <1>7, <1>8, <1>9
  <1> QED  BY <1>1, <1>2, <1>3, <1>4, <1>5, <1>10, WorkerFacts

\* The steps of a deletion, in order.
LEMMA PruneMoves ==
    ASSUME pc \in [Workers -> Labels], NEW w \in Workers
    PROVE  /\ Deletes(w) => pc[w] = "unready" /\ pc'[w] = "unconsume" /\ batch' = batch
           /\ Unconsume(w) => pc[w] = "unconsume" /\ pc'[w] = "unmap" /\ batch' = batch
           /\ Unmap(w) => pc[w] = "unmap" /\ pc'[w] = "prune" /\ batch' = batch
  <1>1. Deletes(w) => pc[w] = "unready" /\ pc'[w] = "unconsume"  BY DeletesDoes DEF PruneStep, PruneOrder
  <1>2. Unconsume(w) => pc[w] = "unconsume" /\ pc'[w] = "unmap"  BY DEF Unconsume, PruneStep, PruneOrder
  <1>3. Unmap(w) => pc[w] = "unmap" /\ pc'[w] = "prune"  BY DEF Unmap, PruneStep, PruneOrder
  <1>4. Deletes(w) \/ Unconsume(w) \/ Unmap(w) => batch' = batch  BY DeletesDoes DEF Unconsume, Unmap
  <1> QED  BY <1>1, <1>2, <1>3, <1>4

\* The steps of a train rank.
LEMMA TrainMoves ==
    ASSUME StoredInv, HasInv, NEW t \in TrainRanks, WorkerNext(t)
    PROVE  \/ Mark(t)
           \/ /\ pc[t] \in {"ungroup", "listing", "forget"}
              /\ pc'[t] \in {"ungroup", "listing", "forget", "query", "failed"}
           \/ /\ batch'[t] = batch[t]
              /\ \/ pc[t] = "query" /\ pc'[t] = "count" /\ snapshot'[t] = ReadyBoth
                 \/ pc[t] = "sample" /\ pc'[t] = "mark" /\ snapshot'[t] = ReadyBoth
                 \/ pc[t] = "count" /\ pc'[t] = "counted" /\ count'[t] = Cardinality(Usable(t))
                 \/ pc[t] = "route" /\ pc'[t] = "fetch" /\ jobs'[t] # {}
                 \/ pc[t] = "fetch" /\ pc'[t] = "fetch" /\ jobs'[t] # {}
                 \/ pc[t] = "fetch" /\ pc'[t] = "process"
                 \/ Deletes(t) /\ pc[t] = "unready" /\ pc'[t] = "unconsume"
                 \/ Unconsume(t) /\ pc[t] = "unconsume" /\ pc'[t] = "unmap"
                 \/ Unmap(t) /\ pc[t] = "unmap" /\ pc'[t] = "prune"
                 \/ pc[t] = "prune" /\ pc'[t] \in {"prune", "ungroup"}
  <1>0. /\ pc \in [Workers -> Labels]
        /\ jobs \in [Workers -> SUBSET Request]
        /\ batch \in [Workers -> SUBSET Rows]
        /\ snapshot \in [Workers -> SUBSET Rows]
        /\ count \in [Workers -> Nat]
        /\ ready \in [Columns -> SUBSET Rows]
        /\ WorkInv /\ JobsFit /\ OwnSteps
    BY DEF StoredInv, PutInv, WorkInv, Shape, WorkerShape, ManagerShape
  <1>1. t \in Workers /\ t \notin FwdWorkers /\ ConsumerOf(t) = "train"  BY WorkerFacts
  <1>2. ASSUME NEW from, NEW to, ReadReady(t, from, to)
        PROVE  pc[t] = from /\ pc'[t] = to /\ batch'[t] = batch[t] /\ snapshot'[t] = ReadyBoth
    <2>1. {i \in Rows : \A col \in InputColumns("train") : i \in ready[col]} = ReadyBoth
      BY <1>0, WorkerFacts DEF ReadyBoth
    <2> QED  BY <2>1, <1>0, <1>1, <1>2 DEF ReadReady
  <1>3. CASE QueryUsable(t) \/ Sample(t)
    BY <1>2, <1>3 DEF QueryUsable, Sample
  <1>4. CASE CountUsable(t)
    BY <1>0, <1>1, <1>4 DEF CountUsable
  <1>5. CASE RouteGet(t)
    <2>1. pc[t] = "route"  BY <1>5 DEF RouteGet, Route
    <2>2. Routed(batch[t]) /\ batch[t] # {}
      BY <2>1, TrainRouted DEF HasInv, HasFits, Holding, Keeping
    <2>3. RequestsFor(batch[t], "fetch") # {}  BY <2>2 DEF RequestsFor
    <2> QED  BY <2>1, <2>2, <2>3, <1>5, <1>0, <1>1 DEF RouteGet, Route
  <1>6. ASSUME NEW j \in jobs[t], Fetch(t, j)
        PROVE  /\ batch'[t] = batch[t] /\ pc[t] = "fetch"
               /\ \/ pc'[t] = "fetch" /\ jobs'[t] # {}
                  \/ pc'[t] = "process"
    <2>1. j.stage = "fetch"  BY <1>6 DEF Fetch
    <2>2. /\ \A col \in InputColumns(ConsumerOf(t)) : j.rows \subseteq table[j.shard][col]
          /\ pc[t] = "fetch" /\ batch[t] # {}
      BY <2>1, TrainFinds
    <2>3. /\ batch' = [batch EXCEPT ![t] = batch[t]]
          /\ pc' = [pc EXCEPT ![t] = IF jobs[t] # {j} THEN "fetch" ELSE "process"]
          /\ jobs' = [jobs EXCEPT ![t] = @ \ {j}]
      BY <2>2, <1>6 DEF Fetch
    <2> QED  BY <2>2, <2>3, <1>0, <1>1
  <1>7. ASSUME NEW j \in jobs[t], Store(t, j) \/ Report(t, j)  PROVE FALSE
    BY <1>0, <1>1, <1>7 DEF Store, Report, JobsFit, OwnSteps
  <1>8. ASSUME NEW j \in jobs[t], Prune(t, j)
        PROVE  batch'[t] = batch[t] /\ pc[t] = "prune" /\ pc'[t] \in {"prune", "ungroup"}
    BY <1>0, <1>1, <1>8 DEF Prune, JobsFit
  <1>9. CASE Deletes(t)
    BY <1>0, <1>1, <1>9, PruneMoves
  <1>10. CASE Unconsume(t)
    BY <1>0, <1>1, <1>10, PruneMoves
  <1>11. CASE Unmap(t)
    BY <1>0, <1>1, <1>11, PruneMoves
  <1>12. CASE Leaves(t)
    <2>1. PICK to \in {"ungroup", "listing", "forget", "query", "failed"}, rest \in SUBSET Request :
              LeavesAs(t, to, rest)
      BY <1>0, <1>1, <1>12, LeavesMove DEF WorkInv, Shape
    <2>2. pc'[t] = to  BY <2>1, <1>0, <1>1 DEF LeavesAs
    <2>3. pc[t] # "unready"
      <3>1. pc[t] = "unready" => Routed(batch[t])  BY TrainRouted DEF Holding, Keeping
      <3>2. ~ (Unready(t) /\ ~ Routed(batch[t])) => pc[t] # "unready"
        BY <1>12 DEF Leaves, Ungroup, Listed, Forget
      <3> QED  BY <3>1, <3>2
    <2>4. pc[t] \in {"unready", "ungroup", "listing", "forget"}  BY <1>12, LeavesKeep
    <2> QED  BY <2>2, <2>3, <2>4
  <1>13. ~ RoutePut(t)  BY <1>1 DEF RoutePut
  <1> QED  BY <1>3, <1>4, <1>5, <1>6, <1>7, <1>8, <1>9, <1>10, <1>11, <1>12, <1>13, WorkerCases DEF WorkerSteps

\* What a team's step does to a train rank.
LEMMA TrainTeamMoves ==
    ASSUME WorkInv, [QueueNext]_queueVars, NEW t \in TrainRanks, ~ WorkerNext(t)
    PROVE  /\ snapshot'[t] = snapshot[t] /\ batch'[t] = batch[t] /\ jobs'[t] = jobs[t]
           /\ \/ pc'[t] = pc[t] /\ count'[t] = count[t]
              \/ AllReduce(TrainRanks) /\ pc[t] = "counted" /\ pc'[t] \in {"sample", "query"}
              \/ Barrier /\ pc[t] = "process" /\ pc'[t] = "unready"
  <1>1. t \in Workers /\ Team(t) = TrainRanks  BY WorkerFacts DEF Team
  <1>2. /\ snapshot'[t] = snapshot[t] /\ batch'[t] = batch[t] /\ jobs'[t] = jobs[t]
        /\ \/ pc'[t] = pc[t] /\ count'[t] = count[t]
           \/ AllReduce(TrainRanks)
           \/ Barrier
    BY <1>1, OthersStay
  <1>3. AllReduce(TrainRanks) => pc[t] = "counted" /\ pc'[t] \in {"sample", "query"}
    BY <1>1 DEF AllReduce
  <1>4. Barrier => pc[t] = "process" /\ pc'[t] = "unready"
    BY <1>1 DEF Barrier, PruneOrder
  <1> QED  BY <1>2, <1>3, <1>4

\* How a train rank comes to have a row, and how long it has it.
LEMMA HasComes ==
    ASSUME StoredInv, HasInv, TakeInv, [QueueNext]_queueVars,
           NEW t \in TrainRanks, NEW i \in batch'[t], pc'[t] \in Holding
    PROVE  \/ Mark(t) /\ pc'[t] = "route" /\ i \in Usable(t) /\ i \in ReadyBoth
           \/ /\ TrainHas(t, i)
              /\ ~ Mark(t) /\ ~ Unmap(t)
              /\ Deletes(t) => pc'[t] = "unconsume"
              /\ pc'[t] \in Keeping <=> pc[t] \in Keeping /\ ~ Deletes(t)
              /\ Unconsume(t) => pc'[t] = "unmap"
  <1>1. WorkInv /\ t \in Workers  BY WorkerFacts DEF StoredInv, PutInv
  <1>2. CASE Mark(t)  BY <1>1, <1>2, TrainTakes DEF Usable
  <1>3. CASE ~ Mark(t)
    <2> USE DEF Holding, Keeping, Deletion
    <2>1. CASE WorkerNext(t)
      <3>1. /\ Deletes(t) => pc[t] = "unready" /\ pc'[t] = "unconsume"
            /\ Unconsume(t) => pc[t] = "unconsume" /\ pc'[t] = "unmap"
            /\ Unmap(t) => pc[t] = "unmap" /\ pc'[t] = "prune"
        BY <1>1, PruneMoves DEF WorkInv, Shape, WorkerShape
      <3>2. \/ /\ batch'[t] = batch[t] /\ pc[t] \in {"route", "fetch"} /\ pc'[t] \in {"fetch", "process"}
            \/ Deletes(t) /\ batch'[t] = batch[t]
            \/ Unconsume(t) /\ batch'[t] = batch[t]
        BY <1>3, <2>1, <3>1, TrainMoves
      <3>3. CASE Deletes(t)  BY <1>3, <3>1, <3>2, <3>3 DEF TrainHas
      <3>4. CASE Unconsume(t)  BY <1>3, <3>1, <3>2, <3>4 DEF TrainHas
      <3>5. CASE ~ Deletes(t) /\ ~ Unconsume(t)  BY <1>3, <3>1, <3>2, <3>5 DEF TrainHas
      <3> QED  BY <3>3, <3>4, <3>5
    <2>2. CASE ~ WorkerNext(t)
      <3>1. ~ Deletes(t) /\ ~ Unconsume(t) /\ ~ Unmap(t)  BY <2>2, WorkerCases DEF WorkerSteps
      <3> QED  BY <1>1, <1>3, <2>2, <3>1, TrainTeamMoves DEF TrainHas
    <2> QED  BY <2>1, <2>2
  <1> QED  BY <1>2, <1>3

\* Every step keeps the rows that the ranks hold mapped.
LEMMA HasStep ==
    ASSUME StoredInv, HasInv, TakeInv, [QueueNext]_queueVars
    PROVE  HasInv'
  <1>0. /\ PutInv /\ WorkInv
        /\ pc \in [Workers -> Labels]
        /\ batch \in [Workers -> SUBSET Rows]
        /\ batch' \in [Workers -> SUBSET Rows]
        /\ ready \in [Columns -> SUBSET Rows]
        /\ \A t \in TrainRanks : t \in Workers
    BY WorkStep, WorkerFacts DEF StoredInv, PutInv, WorkInv, Shape, WorkerShape, ManagerShape
  <1>1. \A t \in TrainRanks : \A i \in batch[t] : i \in Rows /\ ~ Untouched(i)
    BY <1>0 DEF Untouched
  <1>2. \A col \in Columns : \A i \in ready[col] : i \in Rows /\ ~ Untouched(i)
    BY <1>0 DEF Untouched
  <1>3. AliveMapped'
    <2> SUFFICES ASSUME NEW i \in ready'["rollout"] PROVE shardOf'[i] \in Shards  BY DEF AliveMapped
    <2>1. CASE i \in ready["rollout"]
      <3>1. i \in Rows /\ ~ Untouched(i) /\ shardOf[i] \in Shards
        BY <1>2, <2>1, WorkerFacts DEF HasInv, AliveMapped
      <3>2. ASSUME NEW t \in TrainRanks, Unmap(t), i \in batch[t]  PROVE FALSE
        <4>1. pc[t] = "unmap"  BY <3>2, <1>0, PruneMoves
        <4> QED  BY <4>1, <2>1, <3>2 DEF HasInv, HasFits, Holding, Keeping
      <3> QED  BY <3>1, <3>2, <1>0, ShardGoes
    <2>2. CASE i \notin ready["rollout"]
      <3>1. PICK g \in Groups : PutReported(g) /\ i \in RowsOf(g)  BY <2>2, <1>0, ReadyComes, WorkerFacts
      <3>2. put[g] = "stored" /\ shardOf' = shardOf  BY <3>1 DEF PutReported
      <3> QED  BY <3>1, <3>2, <1>0 DEF PutInv, PutFits
    <2> QED  BY <2>1, <2>2
  <1>4. ASSUME NEW t \in TrainRanks, NEW i \in batch'[t], pc'[t] \in Holding,
               Mark(t), pc'[t] = "route", i \in Usable(t), i \in ReadyBoth
        PROVE  shardOf'[i] \in Shards /\ i \in ReadyBoth' /\ i \in consumed'["train"]
    <2>1. UNCHANGED <<shardOf, ready>>  BY <1>4 DEF Mark
    <2>2. shardOf[i] \in Shards  BY <1>4 DEF HasInv, AliveMapped, ReadyBoth
    <2>3. i \in consumed'["train"]  BY <1>4, <1>0, TrainTakes
    <2> QED  BY <1>4, <2>1, <2>2, <2>3 DEF ReadyBoth
  <1>5. ASSUME NEW t \in TrainRanks, NEW i \in batch'[t], pc'[t] \in Holding, TrainHas(t, i),
               ~ Unmap(t), Deletes(t) => pc'[t] = "unconsume", Unconsume(t) => pc'[t] = "unmap",
               pc'[t] \in Keeping <=> pc[t] \in Keeping /\ ~ Deletes(t)
        PROVE  /\ shardOf'[i] \in Shards
               /\ pc'[t] \in Keeping => i \in ReadyBoth' /\ i \in consumed'["train"]
               /\ pc'[t] \notin Keeping => i \notin ready'["rollout"]
    <2>0. i \in batch[t] /\ pc[t] \in Holding /\ i \in Rows /\ ~ Untouched(i)  BY <1>1, <1>5 DEF TrainHas
    <2>1. \A u \in TrainRanks : TrainHas(u, i) => u = t  BY <1>5, <2>0 DEF HasInv
    <2>2. \A u \in TrainRanks : i \in batch[u] /\ (Deletes(u) \/ Unconsume(u) \/ Unmap(u)) => u = t
      <3> TAKE u \in TrainRanks
      <3>1. Deletes(u) \/ Unconsume(u) \/ Unmap(u) => pc[u] \in Holding
        BY <1>0, PruneMoves DEF Holding, Keeping
      <3> QED  BY <3>1, <2>1 DEF TrainHas
    <2>3. shardOf'[i] \in Shards
      <3>1. shardOf[i] \in Shards  BY <2>0 DEF HasInv, HasFits
      <3> QED  BY <3>1, <2>0, <2>2, <1>0, <1>5, ShardGoes
    <2>4. ASSUME pc'[t] \in Keeping  PROVE i \in ReadyBoth' /\ i \in consumed'["train"]
      <3>1. i \in ReadyBoth /\ i \in consumed["train"]  BY <1>5, <2>0, <2>4 DEF HasInv, HasFits
      <3>2. ~ Deletes(t) /\ ~ Unconsume(t)  BY <1>5, <2>4 DEF Keeping
      <3>3. i \in ready'["rollout"] /\ i \in ready'["logprob"]
        BY <3>1, <3>2, <2>2, <1>0, ReadyGoes, WorkerFacts DEF ReadyBoth
      <3>4. i \in consumed'["train"]  BY <3>1, <3>2, <2>2, <1>0, ConsumedGoes, WorkerFacts
      <3> QED  BY <3>3, <3>4 DEF ReadyBoth
    <2>5. ASSUME pc'[t] \notin Keeping  PROVE i \notin ready'["rollout"]
      <3>1. CASE Deletes(t)
        BY <2>0, <3>1, WorkerFacts, DeletesDoes, LeavesKeep
      <3>2. CASE ~ Deletes(t)
        <4>1. i \notin ready["rollout"]  BY <1>5, <2>0, <2>5, <3>2 DEF HasInv, HasFits
        <4>2. ASSUME NEW g \in Groups, PutReported(g), i \in RowsOf(g)  PROVE FALSE
          BY <4>2, <2>0, <1>0 DEF PutReported, PutInv, PutFits
        <4> QED  BY <4>1, <4>2, <1>0, ReadyComes, WorkerFacts
      <3> QED  BY <3>1, <3>2
    <2> QED  BY <2>3, <2>4, <2>5
  <1>6. ASSUME NEW t \in TrainRanks  PROVE HasFits(t)'
    <2>1. ASSUME NEW i \in batch'[t], pc'[t] \in Holding
          PROVE  /\ shardOf'[i] \in Shards
                 /\ pc'[t] \in Keeping => i \in ReadyBoth' /\ i \in consumed'["train"]
                 /\ pc'[t] \notin Keeping => i \notin ready'["rollout"]
      <3>1. CASE Mark(t) /\ pc'[t] = "route" /\ i \in Usable(t) /\ i \in ReadyBoth
        BY <2>1, <3>1, <1>4 DEF Keeping
      <3>2. CASE ~ (Mark(t) /\ pc'[t] = "route" /\ i \in Usable(t) /\ i \in ReadyBoth)
        BY <2>1, <3>2, <1>5, HasComes
      <3> QED  BY <3>1, <3>2
    <2>2. ASSUME pc'[t] \in {"route", "fetch"}  PROVE batch'[t] # {} /\ (pc'[t] = "fetch" => jobs'[t] # {})
      <3>1. CASE Mark(t)  BY <1>0, <3>1, TrainTakes
      <3>2. CASE ~ Mark(t) /\ WorkerNext(t)
        <4>1. batch'[t] = batch[t] /\ pc[t] \in {"route", "fetch"} /\ (pc'[t] = "fetch" => jobs'[t] # {})
          BY <2>2, <3>2, TrainMoves
        <4> QED  BY <4>1 DEF HasInv, HasFits
      <3>3. CASE ~ WorkerNext(t)
        <4>1. pc'[t] = pc[t] /\ batch'[t] = batch[t] /\ jobs'[t] = jobs[t]
          BY <1>0, <2>2, <3>3, TrainTeamMoves
        <4> QED  BY <4>1, <2>2 DEF HasInv, HasFits
      <3> QED  BY <3>1, <3>2, <3>3
    <2> QED  BY <2>1, <2>2 DEF HasFits
  <1>7. ASSUME NEW t \in TrainRanks, NEW u \in TrainRanks, NEW i \in Rows,
               TrainHas(t, i)', TrainHas(u, i)', t # u
        PROVE  FALSE
    <2>0. i \in batch'[t] /\ pc'[t] \in Holding /\ i \in batch'[u] /\ pc'[u] \in Holding
      BY <1>7 DEF TrainHas
    <2>1. ASSUME NEW v \in TrainRanks, NEW w \in TrainRanks, v # w,
                 Mark(v), i \in Usable(v), i \in ReadyBoth
          PROVE  ~ TrainHas(w, i)
      <3>1. i \notin consumed["train"]  BY <2>1, WorkerFacts DEF Usable
      <3>2. i \in ready["rollout"]  BY <2>1 DEF ReadyBoth
      <3> QED  BY <3>1, <3>2 DEF HasInv, HasFits, TrainHas
    <2>2. ~ (Mark(t) /\ Mark(u))
      BY <1>0, <1>7 DEF Mark, WorkInv, Shape, WorkerShape, Labels, OneReads
    <2> QED  BY <2>0, <2>1, <2>2, <1>7, HasComes DEF HasInv
  <1> QED  BY <1>3, <1>6, <1>7 DEF HasInv

\* Rows are ready for training until a train rank deletes them, and left until one is
\* dealt them.
LEMMA ReadyBothGrows ==
    ASSUME WorkInv, [QueueNext]_queueVars, \A t \in TrainRanks : ~ Deletes(t)
    PROVE  ReadyBoth \subseteq ReadyBoth'
  BY ReadyGoes, WorkerFacts DEF ReadyBoth

\* Rows become consumed by training only when a rank marks them.
LEMMA NobodyTakes ==
    ASSUME WorkInv, [QueueNext]_queueVars, \A t \in TrainRanks : ~ Mark(t)
    PROVE  \A i \in consumed'["train"] : i \in consumed["train"]
  <1> SUFFICES ASSUME NEW i \in consumed'["train"], i \notin consumed["train"] PROVE FALSE  OBVIOUS
  <1>1. PICK w \in Workers : ConsumerOf(w) = "train" /\ Mark(w)  BY ConsumedComes, WorkerFacts
  <1>2. w \in TrainRanks  BY <1>1, WorkerFacts
  <1> QED  BY <1>1, <1>2

\* Otherwise no fewer rows are left to take, unless some become unready.
LEMMA LeftGrows ==
    ASSUME WorkInv, [QueueNext]_queueVars, \A t \in TrainRanks : ~ Deletes(t) /\ ~ Mark(t)
    PROVE  Left \subseteq Left' /\ Cardinality(Left) <= Cardinality(Left')
  <1>1. ReadyBoth \subseteq ReadyBoth'  BY ReadyBothGrows
  <1>2. \A i \in consumed'["train"] : i \in consumed["train"]  BY NobodyTakes
  <1>3. Left \subseteq Left'  BY <1>1, <1>2 DEF Left
  <1>4. Left' \in SUBSET Rows
    BY ShapeStep DEF WorkInv, Shape, ManagerShape, Left, ReadyBoth, Columns
  <1>5. IsFiniteSet(Left')  BY <1>4, RowsFinite
  <1> QED  BY <1>3, <1>5, FS_Subset

\* Every step keeps the ranks in one phase.
LEMMA PhaseStep ==
    ASSUME StoredInv, HasInv, TakeInv, Phase, [QueueNext]_queueVars
    PROVE  Phase'
  <1>0. /\ WorkInv /\ pc \in [Workers -> Labels] /\ \A t \in TrainRanks : t \in Workers
    BY WorkerFacts DEF StoredInv, PutInv, WorkInv, Shape, WorkerShape
  <1>1. CASE Barrier
    BY <1>0, <1>1 DEF Barrier, PruneOrder, Phase, Deletion
  <1>2. CASE AllReduce(TrainRanks)
    <2>1. pc' = [w \in Workers |-> IF w \notin TrainRanks THEN pc[w]
                                    ELSE IF EnoughForAll(TrainRanks) THEN "sample" ELSE "query"]
      BY <1>2 DEF AllReduce
    <2>2. CASE EnoughForAll(TrainRanks)  BY <1>0, <2>1, <2>2 DEF Phase, Gathering
    <2>3. CASE ~ EnoughForAll(TrainRanks)  BY <1>0, <2>1, <2>3 DEF Phase, Polling
    <2> QED  BY <2>2, <2>3
  <1>3. ASSUME ~ Barrier, ~ AllReduce(TrainRanks), NEW t \in TrainRanks
        PROVE  /\ pc[t] \in Gathering => pc'[t] \in Gathering
               /\ pc[t] \in Polling \cup Deletion => pc'[t] \in Polling \cup Deletion
    <2>1. CASE Mark(t)
      BY <1>0, <2>1, TrainTakes DEF Gathering, Polling, Deletion
    <2>2. CASE WorkerNext(t) /\ ~ Mark(t)
      BY <2>2, TrainMoves DEF Gathering, Polling, Deletion
    <2>3. CASE ~ WorkerNext(t)
      BY <1>0, <1>3, <2>3, TrainTeamMoves
    <2> QED  BY <2>1, <2>2, <2>3
  <1> QED  BY <1>1, <1>2, <1>3 DEF Phase

\* The shares of some ranks, and of them without one.
LEMMA SharesLess ==
    ASSUME NEW team \in SUBSET Workers, NEW t \in team
    PROVE  /\ SharesOf(team) \in Nat /\ SharesOf(team \ {t}) \in Nat
           /\ SharesOf(team) = Share[t] + SharesOf(team \ {t})
  <1>1. IsFiniteSet(team) /\ IsFiniteSet(team \ {t})  BY QueueAssumption, FS_Subset
  <1>2. \A u \in team : Share[u] \in Nat /\ Share[u] \in Int  BY WorkerFacts
  <1>3. SharesOf(team) = Share[t] + SharesOf(team \ {t})  BY <1>1, <1>2, SumRemove DEF SharesOf
  <1>4. SharesOf(team) \in Nat /\ SharesOf(team \ {t}) \in Nat  BY <1>1, <1>2, SumNat DEF SharesOf
  <1> QED  BY <1>3, <1>4

\* Shares add up to a number of rows.
LEMMA SharesNat == \A team \in SUBSET Workers : SharesOf(team) \in Nat
  <1> TAKE team \in SUBSET Workers
  <1>1. IsFiniteSet(team) /\ \A u \in team : Share[u] \in Nat  BY QueueAssumption, FS_Subset, WorkerFacts
  <1> QED  BY <1>1, SumNat DEF SharesOf

\* What a set has left when some of it is taken.
LEMMA TakenFrom ==
    ASSUME NEW A \in SUBSET Rows, NEW B \in SUBSET Rows, NEW n \in Nat,
           Cardinality(B) <= n
    PROVE  Cardinality(A) <= Cardinality(A \ B) + n
  <1>1. IsFiniteSet(A) /\ IsFiniteSet(B) /\ IsFiniteSet(A \cap B) /\ A \cap B \subseteq B  BY RowsFinite
  <1>2. Cardinality(A \ B) = Cardinality(A) - Cardinality(A \cap B)  BY <1>1, FS_Difference
  <1>3. Cardinality(A \cap B) <= Cardinality(B)  BY <1>1, FS_Subset
  <1>4. /\ Cardinality(A) \in Nat /\ Cardinality(B) \in Nat
        /\ Cardinality(A \cap B) \in Nat /\ Cardinality(A \ B) \in Nat
    BY RowsFinite
  <1> QED  BY <1>2, <1>3, <1>4

\* Every step leaves enough for the ranks that have not got their share.
LEMMA TakeStep ==
    ASSUME StoredInv, HasInv, Phase, TakeInv, PollInv, [QueueNext]_queueVars
    PROVE  TakeInv'
  <1>0. /\ WorkInv /\ OneReads
        /\ pc \in [Workers -> Labels] /\ \A t \in TrainRanks : t \in Workers /\ ConsumerOf(t) = "train"
        /\ count \in [Workers -> Nat]
        /\ Left \in SUBSET Rows
        /\ Shape'
    BY WorkerFacts, ShapeStep DEF StoredInv, PutInv, WorkInv, Shape, WorkerShape, ManagerShape, Left, ReadyBoth, Columns
  <1>1. Left' \in SUBSET Rows /\ \A t \in TrainRanks : Usable(t)' \in SUBSET Rows
    BY <1>0 DEF Shape, ManagerShape, WorkerShape, Left, ReadyBoth, Usable, Columns
  <1>2. ToTake \in SUBSET Workers /\ ToTake' \in SUBSET Workers /\ TrainRanks \in SUBSET Workers
    BY <1>0 DEF ToTake
  <1>3. /\ SharesOf(ToTake) \in Nat /\ SharesOf(ToTake') \in Nat /\ SharesOf(TrainRanks) \in Nat
        /\ Cardinality(Left) \in Nat /\ Cardinality(Left') \in Nat
        /\ \A t \in TrainRanks : Cardinality(Usable(t)') \in Nat
    BY <1>0, <1>1, <1>2, SharesNat, RowsFinite
  <1>4. ASSUME \A t \in TrainRanks : pc[t] \in Gathering, NEW g \in TrainRanks  PROVE TakeInv'
    <2>0. SharesOf(ToTake) <= Cardinality(Left)  BY <1>4 DEF TakeInv
    <2>1. ASSUME NEW t \in TrainRanks, Mark(t)  PROVE TakeInv'
      <3>1. /\ batch'[t] \in SUBSET Usable(t)
            /\ Cardinality(batch'[t]) <= Share[t]
            /\ pc'[t] = "route" /\ pc[t] = "mark"
            /\ consumed'["train"] = consumed["train"] \cup batch'[t]
        BY <1>0, <2>1, TrainTakes
      <3>2. ready' = ready /\ \A u \in TrainRanks : u # t => pc'[u] = pc[u]
        BY <1>0, <2>1 DEF Mark
      <3>3. ToTake' = ToTake \ {t} /\ t \in ToTake  BY <3>1, <3>2 DEF ToTake
      <3>4. Left' = Left \ batch'[t]  BY <3>1, <3>2 DEF Left, ReadyBoth
      <3>5. Cardinality(Left) <= Cardinality(Left') + Share[t] /\ Share[t] \in Nat
        <4>1. batch'[t] \in SUBSET Rows /\ Share[t] \in Nat
          BY <1>0, WorkerFacts DEF Shape, WorkerShape
        <4> QED  BY <4>1, <3>1, <3>4, <1>0, TakenFrom
      <3>6. SharesOf(ToTake) = Share[t] + SharesOf(ToTake')  BY <3>3, <1>2, SharesLess
      <3>7. SharesOf(ToTake') <= Cardinality(Left')  BY <3>5, <3>6, <2>0, <1>3
      <3>8. \A u \in TrainRanks : pc'[u] # "mark"
        BY <3>1, <3>2, <1>0 DEF OneReads
      <3> QED  BY <3>7, <3>8 DEF TakeInv
    <2>2. CASE \A t \in TrainRanks : ~ Mark(t)
      <3>1. \A t \in TrainRanks : ~ Deletes(t)
        BY <1>0, <1>4, PruneMoves DEF Gathering
      <3>2. ReadyBoth \subseteq ReadyBoth' /\ Cardinality(Left) <= Cardinality(Left')
        BY <1>0, <2>2, <3>1, ReadyBothGrows, LeftGrows
      <3>3. \A i \in consumed'["train"] : i \in consumed["train"]  BY <1>0, <2>2, NobodyTakes
      <3>4. ASSUME NEW t \in TrainRanks
            PROVE  /\ pc'[t] \in {"sample", "mark"} <=> pc[t] \in {"sample", "mark"}
                   /\ pc'[t] = "mark" => \/ pc[t] = "mark" /\ snapshot'[t] = snapshot[t]
                                         \/ snapshot'[t] = ReadyBoth
        <4>1. CASE WorkerNext(t)
          BY <4>1, <2>2, <1>4, TrainMoves DEF Gathering
        <4>2. CASE ~ WorkerNext(t)
          BY <4>2, <1>0, <1>4, TrainTeamMoves DEF Gathering
        <4> QED  BY <4>1, <4>2
      <3>5. ToTake' = ToTake  BY <3>4 DEF ToTake
      <3>6. ASSUME NEW t \in TrainRanks, pc'[t] = "mark"
            PROVE  snapshot'[t] \subseteq ReadyBoth' /\ SharesOf(ToTake') <= Cardinality(Usable(t)')
        <4>0. IsFiniteSet(Usable(t)')  BY <1>1, RowsFinite
        <4>1. CASE pc[t] = "mark" /\ snapshot'[t] = snapshot[t]
          <5>1. snapshot[t] \subseteq ReadyBoth /\ SharesOf(ToTake) <= Cardinality(Usable(t))
            BY <4>1, <1>4 DEF TakeInv
          <5>2. Usable(t) \subseteq Usable(t)'  BY <4>1, <3>3, <1>0 DEF Usable
          <5>3. Cardinality(Usable(t)) <= Cardinality(Usable(t)') /\ Cardinality(Usable(t)) \in Nat
            BY <5>2, <4>0, FS_Subset, FS_CardinalityType
          <5> QED  BY <5>1, <5>3, <4>1, <3>2, <3>5, <1>3
        <4>2. CASE snapshot'[t] = ReadyBoth
          <5>1. Left \subseteq Usable(t)'  BY <4>2, <3>3, <1>0 DEF Usable, Left
          <5>2. Cardinality(Left) <= Cardinality(Usable(t)')  BY <5>1, <4>0, FS_Subset
          <5> QED  BY <5>2, <4>2, <2>0, <3>2, <3>5, <1>3
        <4> QED  BY <4>1, <4>2, <3>4, <3>6
      <3>7. SharesOf(ToTake') <= Cardinality(Left')  BY <3>2, <3>5, <2>0, <1>3
      <3> QED  BY <3>6, <3>7 DEF TakeInv
    <2> QED  BY <2>1, <2>2
  <1>5. ASSUME \A t \in TrainRanks : pc[t] \in Polling \cup Deletion,
               NEW g \in TrainRanks, pc'[g] \in Gathering
        PROVE  TakeInv'
    <2>1. AllReduce(TrainRanks) /\ pc'[g] = "sample"
      <3>1. CASE WorkerNext(g)
        <4>1. ~ Mark(g)  BY <1>5 DEF Mark, Polling, Deletion
        <4> QED  BY <3>1, <4>1, <1>5, TrainMoves DEF Polling, Deletion, Gathering
      <3>2. CASE ~ WorkerNext(g)
        BY <3>2, <1>0, <1>5, TrainTeamMoves DEF Polling, Deletion, Gathering
      <3> QED  BY <3>1, <3>2
    <2>2. /\ \A t \in TrainRanks : pc[t] = "counted" /\ pc'[t] = "sample"
          /\ EnoughForAll(TrainRanks)
          /\ UNCHANGED <<ready, consumed>>
      BY <2>1, <1>0 DEF AllReduce, managerVars
    <2>3. PICK v \in TrainRanks : count[v] <= Cardinality(Left)
      <3>1. \A t \in TrainRanks : pc[t] \in Polling  BY <2>2 DEF Polling
      <3> QED  BY <3>1, <2>2 DEF PollInv, CountsRight
    <2>4. SharesOf(TrainRanks) <= count[v]
      <3> DEFINE counts == {count[w] : w \in TrainRanks}
      <3>1. counts \in SUBSET Int /\ counts # {} /\ count[v] \in counts  BY <1>0
      <3>2. IsFiniteSet(counts)
        <4>1. IsFiniteSet(TrainRanks)  BY <1>2, QueueAssumption, FS_Subset
        <4> DEFINE of == [w \in TrainRanks |-> count[w]]
        <4>2. of \in Surjection(TrainRanks, counts)  BY DEF Surjection
        <4> HIDE DEF of, counts
        <4> QED  BY <4>1, <4>2, FS_Surjection
      <3>3. SharesOf(TrainRanks) <= Min(counts)  BY <2>2 DEF EnoughForAll
      <3> HIDE DEF counts
      <3>4. Min(counts) \in counts /\ Min(counts) <= count[v]  BY <3>1, <3>2, LeastOf
      <3>5. Min(counts) \in Int /\ count[v] \in Int  BY <3>1, <3>4
      <3> QED  BY <3>3, <3>4, <3>5, <1>3
    <2>5. ToTake' = TrainRanks /\ Left' = Left  BY <2>2 DEF ToTake, Left, ReadyBoth
    <2>6. count[v] \in Nat  BY <1>0
    <2> QED  BY <2>2, <2>3, <2>4, <2>5, <2>6, <1>3 DEF TakeInv
  <1>6. CASE ~ \E t \in TrainRanks : pc'[t] \in Gathering
    BY <1>6 DEF TakeInv
  <1> QED  BY <1>4, <1>5, <1>6 DEF Phase

\* Every step leaves a rank that does not count deleted rows, while all look.
LEMMA PollStep ==
    ASSUME StoredInv, HasInv, Phase, TakeInv, PollInv, [QueueNext]_queueVars
    PROVE  PollInv'
  <1> SUFFICES ASSUME TrainRanks # {}, \A t \in TrainRanks : pc'[t] \in Polling
               PROVE  \E t \in TrainRanks : CountsRight(t)'
    BY DEF PollInv
  <1>0. /\ WorkInv /\ Shape'
        /\ pc \in [Workers -> Labels] /\ \A t \in TrainRanks : t \in Workers /\ ConsumerOf(t) = "train"
    BY WorkerFacts, ShapeStep DEF StoredInv, PutInv, WorkInv, Shape, WorkerShape
  <1>1. \A t \in TrainRanks : ~ Mark(t) /\ ~ Deletes(t)
    <2>1. \A t \in TrainRanks : Mark(t) => pc'[t] = "route"  BY <1>0, TrainTakes
    <2>2. \A t \in TrainRanks : Deletes(t) => pc'[t] = "unconsume"  BY <1>0, PruneMoves
    <2> QED  BY <2>1, <2>2 DEF Polling
  <1>2. /\ ReadyBoth \subseteq ReadyBoth' /\ Cardinality(Left) <= Cardinality(Left')
        /\ \A i \in consumed'["train"] : i \in consumed["train"]
    BY <1>0, <1>1, ReadyBothGrows, LeftGrows, NobodyTakes
  <1>3. ASSUME NEW t \in TrainRanks, pc'[t] = "query"  PROVE CountsRight(t)'
    BY <1>3 DEF CountsRight
  <1>4. ASSUME NEW t \in TrainRanks, CountsRight(t)  PROVE CountsRight(t)'
    <2>1. CASE WorkerNext(t)
      <3>1. CASE pc[t] = "query"
        <4>1. pc'[t] = "count" /\ snapshot'[t] = ReadyBoth  BY <2>1, <3>1, <1>1, TrainMoves
        <4> QED  BY <4>1, <1>2 DEF CountsRight
      <3>2. CASE pc[t] = "count" /\ snapshot[t] \subseteq ReadyBoth
        <4>1. pc'[t] = "counted" /\ count'[t] = Cardinality(Usable(t))  BY <2>1, <3>2, <1>1, TrainMoves
        <4>2. Usable(t) \subseteq Left  BY <3>2, <1>0 DEF Usable, Left
        <4>3. Left \in SUBSET Rows /\ Left' \in SUBSET Rows
          BY <1>0 DEF WorkInv, Shape, ManagerShape, Left, ReadyBoth, Columns
        <4>4. IsFiniteSet(Left)  BY <4>3, RowsFinite
        <4>5. Cardinality(Usable(t)) <= Cardinality(Left)  BY <4>2, <4>4, FS_Subset
        <4>6. /\ Cardinality(Usable(t)) \in Nat /\ Cardinality(Left) \in Nat /\ Cardinality(Left') \in Nat
          BY <4>2, <4>3, RowsFinite
        <4>7. count'[t] <= Cardinality(Left')  BY <4>1, <4>5, <4>6, <1>2
        <4> QED  BY <4>1, <4>7 DEF CountsRight
      <3>3. CASE pc[t] = "counted"
        BY <2>1, <3>3, <1>1, TrainMoves
      <3> QED  BY <3>1, <3>2, <3>3, <1>4 DEF CountsRight
    <2>2. CASE ~ WorkerNext(t)
      <3>1. /\ snapshot'[t] = snapshot[t]
            /\ \/ pc'[t] = pc[t] /\ count'[t] = count[t]
               \/ pc'[t] \in {"sample", "query"}
               \/ pc'[t] = "unready"
        BY <2>2, <1>0, TrainTeamMoves
      <3>2. pc'[t] \in {"query", "count", "counted"}  BY DEF Polling
      <3>3. CASE pc'[t] = "query"  BY <3>3, <1>3
      <3>4. CASE pc'[t] # "query"
        <4>1. pc'[t] = pc[t] /\ count'[t] = count[t]  BY <3>1, <3>2, <3>4
        <4>2. Left \in SUBSET Rows /\ Left' \in SUBSET Rows
          BY <1>0 DEF WorkInv, Shape, ManagerShape, Left, ReadyBoth, Columns
        <4>3. Cardinality(Left) \in Nat /\ Cardinality(Left') \in Nat  BY <4>2, RowsFinite
        <4>4. count[t] \in Nat  BY <1>0 DEF WorkInv, Shape, WorkerShape
        <4> QED  BY <4>1, <4>3, <4>4, <3>1, <1>2, <1>4 DEF CountsRight
      <3> QED  BY <3>3, <3>4
    <2> QED  BY <2>1, <2>2
  <1>5. CASE \A t \in TrainRanks : pc[t] \in Polling
    <2>1. PICK t \in TrainRanks : CountsRight(t)  BY <1>5 DEF PollInv
    <2> QED  BY <2>1, <1>4
  <1>6. ASSUME NEW t \in TrainRanks, pc[t] \notin Polling  PROVE pc'[t] = "query"
    <2>1. CASE WorkerNext(t)
      <3>1. pc[t] \notin Gathering
        BY <1>1, <2>1, TrainMoves DEF Polling, Gathering
      <3> QED  BY <1>1, <1>6, <2>1, <3>1, TrainMoves DEF Polling
    <2>2. CASE ~ WorkerNext(t)
      <3>1. pc'[t] \in Polling  OBVIOUS
      <3> QED  BY <3>1, <1>0, <1>6, <2>2, TrainTeamMoves DEF Polling
    <2> QED  BY <2>1, <2>2
  <1> QED  BY <1>3, <1>5, <1>6

\* Every step keeps what is known of the ranks.
LEMMA TrainStep == TrainInv /\ [QueueNext]_queueVars => TrainInv'
  BY StoredStep, HasStep, PhaseStep, TakeStep, PollStep DEF TrainInv

-----------------------------------------------------------------------------
(* Requests go to shards.                                                  *)

JobShards == \A w \in Workers : \A j \in jobs[w] : j.shard \in Shards

\* Every step sends requests only to shards that there are.
LEMMA JobShardsStep ==
    ASSUME TrainInv, JobShards, [QueueNext]_queueVars
    PROVE  JobShards'
  <1>0. /\ WorkInv /\ HasInv
        /\ shardOf \in [Rows -> Shards \cup {Nowhere}]
        /\ pc \in [Workers -> Labels]
        /\ batch \in [Workers -> SUBSET Rows]
        /\ jobs \in [Workers -> SUBSET Request]
    BY DEF TrainInv, StoredInv, PutInv, WorkInv, Shape, ManagerShape, WorkerShape
  <1> SUFFICES ASSUME NEW w \in Workers, NEW k \in jobs'[w], k \notin jobs[w] PROVE k.shard \in Shards
    BY DEF JobShards
  <1>1. ASSUME NEW stage, k \in RequestsFor(batch[w], stage), RouteGet(w) \/ RoutePut(w)
        PROVE  k.shard \in Shards
    <2>1. Routed(batch[w])  BY <1>1 DEF RouteGet, RoutePut, Route
    <2>2. \A i \in batch[w] : shardOf[i] \in Shards  BY <2>1, <1>0 DEF Routed
    <2>3. k.shard \in {shardOf[i] : i \in batch[w]}  BY <1>1, RequestsApart
    <2> QED  BY <2>2, <2>3
  <1>2. ASSUME k \in RequestsFor(batch[w], "prune"), Unmap(w)  PROVE k.shard \in Shards
    <2>1. pc[w] = "unmap"  BY <1>0, <1>2, PruneMoves
    <2>2. w \in TrainRanks  BY <2>1, <1>0, WorkerFacts DEF WorkInv, OwnSteps, Deletion
    <2>3. \A i \in batch[w] : shardOf[i] \in Shards
      BY <2>1, <2>2, <1>0 DEF HasInv, HasFits, Holding
    <2>4. k.shard \in {shardOf[i] : i \in batch[w]}  BY <1>2, RequestsApart
    <2> QED  BY <2>3, <2>4
  <1>3. ASSUME NEW j \in jobs[w], k = [j EXCEPT !.stage = "report"] \/ k = [j EXCEPT !.stage = "ungroup"]
        PROVE  k.shard \in Shards
    <2>1. j \in Request  BY <1>0
    <2>2. k.shard = j.shard  BY <1>3, <2>1 DEF Request
    <2> QED  BY <2>2 DEF JobShards
  <1>4. ASSUME NEW j \in jobs[w], LeftOf(k, j)  PROVE k.shard \in Shards
    BY <1>4 DEF JobShards, LeftOf
  <1> QED  BY <1>0, <1>1, <1>2, <1>3, <1>4, JobsCome

-----------------------------------------------------------------------------
(* The forward workers, and what was delivered.                            *)

Alive(i) == i \in ready["rollout"]

\* A forward worker has a row from when it was dealt it until it reported its results.
FwdHas(f, i) ==
    /\ i \in batch[f]
    /\ \/ pc[f] \in {"route", "fetch", "process"}
       \/ pc[f] = "store" /\ \E j \in jobs[f] : i \in j.rows

\* A worker waits for the data of a row.
Awaits(w, i) ==
    \/ pc[w] = "route" /\ i \in batch[w]
    \/ pc[w] = "fetch" /\ \E j \in jobs[w] : i \in j.rows

\* One forward worker has a row that is not deleted, and nobody can train on it until
\* it has reported; a row that was deleted nevertheless was so under a sampler.
FwdInv ==
    /\ \A i \in ReadyBoth : i \in consumed["fwd"]
    /\ \A f \in FwdWorkers : \A i \in Rows : FwdHas(f, i) =>
           /\ Alive(i) => /\ i \in consumed["fwd"] /\ i \notin ready["logprob"]
                          /\ \A h \in FwdWorkers : FwdHas(h, i) => h = f
           /\ ~ Alive(i) => i \in raced
    /\ \A f \in FwdWorkers : pc[f] = "mark" => \A i \in snapshot[f] : Alive(i) \/ i \in raced

\* Of a row that is not deleted, what a consumer received is consumed, and what a
\* worker waits for is not received.
ReceivedInv ==
    /\ \A c \in Consumers : \A i \in Rows : Alive(i) /\ <<c, i>> \in received => i \in consumed[c]
    /\ \A w \in Workers : \A i \in Rows : Alive(i) /\ Awaits(w, i) => <<ConsumerOf(w), i>> \notin received

\* The uuids are of groups that were allocated, and so are those that a rank forgets.
UuidShape ==
    /\ uuids \subseteq Groups
    /\ forget \in [Workers -> SUBSET Groups]

QueueInv == TrainInv /\ UuidShape /\ JobShards /\ FwdInv /\ ReceivedInv /\ HandedOutOnce /\ LostOnlyByRace

\* The whole invariant holds at first.
LEMMA InitQueue == QueueInit => QueueInv
  <1> SUFFICES ASSUME QueueInit
               PROVE  UuidShape /\ JobShards /\ FwdInv /\ ReceivedInv /\ HandedOutOnce /\ LostOnlyByRace
    BY InitTrain DEF QueueInv
  <1> USE WorkerFacts DEF QueueInit
  <1>1. UuidShape /\ JobShards  BY DEF UuidShape, JobShards
  <1>2. FwdInv  BY DEF FwdInv, ReadyBoth, FwdHas
  <1>3. ReceivedInv  BY DEF ReceivedInv, Awaits
  <1>4. HandedOutOnce /\ LostOnlyByRace  BY DEF HandedOutOnce, LostOnlyByRace
  <1> QED  BY <1>1, <1>2, <1>3, <1>4

\* How the histories grow.
HistoryGrowth ==
    /\ raced \subseteq raced'
    /\ \A x \in received' : x \in received \/
           \E w \in Workers : \E j \in jobs[w] : Fetch(w, j) /\ x \in {ConsumerOf(w)} \X j.rows
    /\ \A x \in again' : x \in again \/
           \E w \in Workers : \E j \in jobs[w] :
               Fetch(w, j) /\ x \in received /\ x \in {ConsumerOf(w)} \X j.rows
    /\ \A rows \in lost' :
           \/ rows \in lost
           \/ \E w \in Workers : (RouteGet(w) \/ RoutePut(w)) /\ rows = batch[w] /\ ~ Routed(batch[w])
           \/ \E w \in Workers : \E j \in jobs[w] :
                  /\ Fetch(w, j) /\ rows = j.rows
                  /\ ~ \A col \in InputColumns(ConsumerOf(w)) : j.rows \subseteq table[j.shard][col]

\* What has been delivered, and lost, stays so.
LEMMA HistoryGrows == WorkInv /\ [QueueNext]_queueVars => HistoryGrowth
  <1> SUFFICES ASSUME WorkInv, [QueueNext]_queueVars PROVE HistoryGrowth  OBVIOUS
  <1>1. UNCHANGED historyVars => HistoryGrowth  BY DEF historyVars, HistoryGrowth
  <1>2. ASSUME NEW w \in Workers, Deletes(w)  PROVE HistoryGrowth
    <2>1. raced \subseteq raced' /\ UNCHANGED <<received, again, lost>>  BY <1>2, DeletesDoes, LeavesKeep
    <2> QED  BY <2>1 DEF HistoryGrowth
  <1>3. ASSUME NEW w \in Workers, RouteGet(w) \/ RoutePut(w)  PROVE HistoryGrowth
    <2>0. PICK from, to, stage : Route(w, from, to, stage)  BY <1>3 DEF RouteGet, RoutePut
    <2>1. /\ UNCHANGED <<received, again, raced>>
          /\ lost' = lost \/ (lost' = lost \cup {batch[w]} /\ ~ Routed(batch[w]))
      BY <2>0 DEF Route
    <2> QED  BY <2>1, <1>3 DEF HistoryGrowth
  <1>4. ASSUME NEW w \in Workers, NEW j \in jobs[w], Fetch(w, j)  PROVE HistoryGrowth
    <2> DEFINE found == \A col \in InputColumns(ConsumerOf(w)) : j.rows \subseteq table[j.shard][col]
               here == IF found THEN {ConsumerOf(w)} \X j.rows ELSE {}
    <2>1. /\ raced' = raced
          /\ again' = again \cup (received \cap here)
          /\ received' = received \cup here
          /\ lost' = IF found THEN lost ELSE lost \cup {j.rows}
      BY <1>4 DEF Fetch
    <2>2. here \subseteq {ConsumerOf(w)} \X j.rows  OBVIOUS
    <2> HIDE DEF here
    <2>3. \A x \in received' : x \in received \/
              \E v \in Workers : \E k \in jobs[v] : Fetch(v, k) /\ x \in {ConsumerOf(v)} \X k.rows
      BY <2>1, <2>2, <1>4
    <2>4. \A x \in again' : x \in again \/
              \E v \in Workers : \E k \in jobs[v] :
                  Fetch(v, k) /\ x \in received /\ x \in {ConsumerOf(v)} \X k.rows
      BY <2>1, <2>2, <1>4
    <2>5. \A rows \in lost' :
              \/ rows \in lost
              \/ \E v \in Workers : \E k \in jobs[v] :
                     /\ Fetch(v, k) /\ rows = k.rows
                     /\ ~ \A col \in InputColumns(ConsumerOf(v)) : k.rows \subseteq table[k.shard][col]
      BY <2>1, <1>4
    <2> QED  BY <2>1, <2>3, <2>4, <2>5 DEF HistoryGrowth
  <1>5. ASSUME NEW w \in Workers, WorkerNext(w)  PROVE HistoryGrowth
    <2>1. CASE QueryUsable(w) \/ CountUsable(w) \/ Sample(w) \/ Mark(w)
      BY <1>1, <2>1 DEF QueryUsable, CountUsable, Sample, ReadReady, Mark
    <2>2. ASSUME NEW j \in jobs[w], Store(w, j) \/ Report(w, j) \/ Prune(w, j)  PROVE HistoryGrowth
      BY <1>1, <2>2 DEF Store, Report, Prune
    <2>3. CASE Unconsume(w) \/ Unmap(w) \/ Leaves(w)
      BY <1>1, <2>3, LeavesKeep DEF Unconsume, Unmap
    <2> QED  BY <1>2, <1>3, <1>4, <1>5, <2>1, <2>2, <2>3, WorkerCases DEF WorkerSteps
  <1>6. ASSUME NEW g \in Groups, Number(g) \/ PutStored(g) \/ PutReported(g)  PROVE HistoryGrowth
    BY <1>1, <1>6 DEF Number, PutStored, PutReported
  <1>7. ASSUME NEW team, AllReduce(team)  PROVE HistoryGrowth
    BY <1>1, <1>7 DEF AllReduce
  <1>8. Allocate \/ Barrier \/ UNCHANGED queueVars => HistoryGrowth
    BY <1>1 DEF Allocate, Barrier, queueVars
  <1> QED  BY <1>5, <1>6, <1>7, <1>8 DEF QueueNext

\* A row that was seen is not put again.
LEMMA StaysDeleted ==
    ASSUME PutInv, [QueueNext]_queueVars, NEW i \in Rows, ~ Untouched(i), Alive(i)'
    PROVE  Alive(i)
  <1>1. WorkInv  BY DEF PutInv
  <1>2. ASSUME NEW g \in Groups, PutReported(g), i \in RowsOf(g)  PROVE FALSE
    BY <1>2 DEF PutReported, PutInv, PutFits
  <1> QED  BY <1>1, <1>2, ReadyComes, WorkerFacts DEF Alive

\* Who consumed a row is not forgotten before it is deleted.
LEMMA ConsumedStays ==
    ASSUME WorkInv, HasInv, [QueueNext]_queueVars, NEW c \in Consumers, NEW i \in consumed[c], Alive(i)
    PROVE  i \in consumed'[c]
  <1>1. ASSUME NEW t \in TrainRanks, Unconsume(t), i \in batch[t]  PROVE FALSE
    <2>1. pc[t] = "unconsume"  BY <1>1, PruneMoves, WorkerFacts DEF WorkInv, Shape, WorkerShape
    <2> QED  BY <2>1, <1>1 DEF HasInv, HasFits, Holding, Keeping, Alive
  <1> QED  BY <1>1, ConsumedGoes

\* A row is deleted by the rank that has it, and it is ready for training until then.
LEMMA DeletedWasReady ==
    ASSUME WorkInv, HasInv, [QueueNext]_queueVars, NEW i \in Rows, Alive(i), ~ Alive(i)'
    PROVE  \E t \in TrainRanks : Deletes(t) /\ i \in batch[t] /\ i \in ready["logprob"]
  <1>1. PICK t \in TrainRanks : Deletes(t) /\ i \in batch[t]  BY ReadyGoes, WorkerFacts DEF Alive
  <1>2. pc[t] = "unready"  BY <1>1, PruneMoves, WorkerFacts DEF WorkInv, Shape, WorkerShape
  <1> QED  BY <1>1, <1>2 DEF HasInv, HasFits, Holding, Keeping, ReadyBoth

\* What a sampling call deals.
LEMMA MarkMoves ==
    ASSUME WorkInv, NEW w \in Workers, Mark(w)
    PROVE  /\ pc[w] = "mark" /\ pc'[w] \in {"query", "route"}
           /\ \A v \in Workers : v # w => pc'[v] = pc[v]
           /\ batch'[w] \in SUBSET Usable(w)
           /\ consumed'[ConsumerOf(w)] = consumed[ConsumerOf(w)] \cup batch'[w]
           /\ UNCHANGED <<ready, jobs, historyVars>>
  <1> DEFINE chosen == IF Cardinality(Usable(w)) < Share[w] THEN {} ELSE First(Share[w], Usable(w))
  <1>1. chosen \in SUBSET Usable(w)  BY MarkChoice DEF WorkInv
  <1> HIDE DEF chosen
  <1>2. /\ pc[w] = "mark" /\ pc' = [pc EXCEPT ![w] = IF chosen = {} THEN "query" ELSE "route"]
        /\ consumed' = [consumed EXCEPT ![ConsumerOf(w)] = @ \cup chosen]
        /\ batch' = [batch EXCEPT ![w] = chosen]
        /\ UNCHANGED <<ready, jobs, historyVars>>
    BY DEF Mark, chosen
  <1>3. /\ pc \in [Workers -> Labels] /\ batch \in [Workers -> SUBSET Rows]
        /\ consumed \in [Consumers -> SUBSET Rows] /\ ConsumerOf(w) \in Consumers
    BY WorkerFacts DEF WorkInv, Shape, WorkerShape, ManagerShape
  <1> QED  BY <1>1, <1>2, <1>3

\* How a forward worker comes to have a row, and a worker to wait for one.
LEMMA FwdComes ==
    ASSUME WorkInv, [QueueNext]_queueVars, NEW f \in FwdWorkers, NEW i, FwdHas(f, i)'
    PROVE  \/ Mark(f) /\ i \in Usable(f)
           \/ FwdHas(f, i) /\ \A j \in jobs[f] : Report(f, j) => i \notin j.rows
  <1>0. /\ f \in Workers /\ f \notin TrainRanks
        /\ pc \in [Workers -> Labels]
        /\ batch \in [Workers -> SUBSET Rows]
        /\ jobs \in [Workers -> SUBSET Request]
        /\ JobsFit /\ OwnSteps
    BY WorkerFacts DEF WorkInv, Shape, WorkerShape
  <1>1. i \in batch'[f] /\ pc'[f] \in {"route", "fetch", "process", "store"}
        /\ (pc'[f] = "store" => \E j \in jobs'[f] : i \in j.rows)
    BY DEF FwdHas
  <1>2. ASSUME ~ WorkerNext(f)  PROVE FwdHas(f, i)
    <2>1. /\ batch'[f] = batch[f] /\ jobs'[f] = jobs[f]
          /\ pc'[f] = pc[f] \/ AllReduce(Team(f))
      BY <1>0, <1>2, OthersStay
    <2>2. AllReduce(Team(f)) => pc'[f] \in {"sample", "query"}
      BY <1>0 DEF AllReduce, Team
    <2> QED  BY <1>1, <2>1, <2>2 DEF FwdHas
  <1>3. CASE Mark(f)  BY <1>0, <1>1, <1>3, MarkMoves
  <1>4. ASSUME NEW j \in jobs[f], Report(f, j)  PROVE FwdHas(f, i) /\ i \notin j.rows
    <2>1. pc[f] = "store"  BY <1>0, <1>4 DEF Report, JobsFit
    <2>2. /\ jobs'[f] = jobs[f] \ {j}
          /\ pc'[f] = IF jobs[f] = {j} THEN "query" ELSE "store"
          /\ jobs[f] # {j} => batch'[f] = batch[f]
      BY <1>0, <1>4 DEF Report
    <2>3. PICK k \in jobs[f] : k # j /\ i \in k.rows /\ i \in batch[f]  BY <1>1, <2>2
    <2> QED  BY <2>1, <2>3, <1>0 DEF FwdHas, JobsFit
  <1>5. ASSUME NEW j \in jobs[f], Store(f, j)  PROVE FwdHas(f, i)
    <2>1. pc[f] = "store" /\ pc' = pc /\ batch' = batch  BY <1>0, <1>5 DEF Store, JobsFit
    <2>2. jobs'[f] = (jobs[f] \ {j}) \cup {[j EXCEPT !.stage = "report"]}  BY <1>0, <1>5 DEF Store
    <2>3. [j EXCEPT !.stage = "report"].rows = j.rows  BY <1>0 DEF Request
    <2> QED  BY <1>1, <2>1, <2>2, <2>3 DEF FwdHas
  <1>6. ASSUME NEW j \in jobs[f], Fetch(f, j)  PROVE FwdHas(f, i)
    <2>1. pc[f] = "fetch"  BY <1>0, <1>6 DEF Fetch, JobsFit
    <2>2. batch'[f] \subseteq batch[f]  BY <1>0, <1>6 DEF Fetch
    <2> QED  BY <1>1, <2>1, <2>2 DEF FwdHas
  <1>7. ASSUME RouteGet(f) \/ RoutePut(f)  PROVE FwdHas(f, i)
    <2>1. pc[f] \in {"route", "process"}  BY <1>7 DEF RouteGet, RoutePut, Route
    <2>2. batch'[f] \subseteq batch[f]
      <3>1. PICK from, to, stage : Route(f, from, to, stage)  BY <1>7 DEF RouteGet, RoutePut
      <3> QED  BY <3>1, <1>0 DEF Route
    <2> QED  BY <1>1, <2>1, <2>2 DEF FwdHas
  <1>8. ~ QueryUsable(f) /\ ~ CountUsable(f) /\ ~ Sample(f)
    BY <1>0, <1>1 DEF QueryUsable, CountUsable, Sample, ReadReady
  <1>9. ~ Deletes(f) /\ ~ Unconsume(f) /\ ~ Unmap(f) /\ ~ Leaves(f)
    BY <1>0, DeletesDoes, LeavesKeep DEF Unconsume, Unmap, PruneStep, OwnSteps, Deletion
  <1>10. ASSUME NEW j \in jobs[f], Prune(f, j)  PROVE FALSE
    BY <1>0, <1>10 DEF Prune, JobsFit, OwnSteps, Deletion
  <1>12. \A j \in jobs[f] : Report(f, j) => i \notin j.rows  BY <1>4
  <1> QED  BY <1>2, <1>3, <1>4, <1>5, <1>6, <1>7, <1>8, <1>9, <1>10, <1>12, WorkerCases DEF WorkerSteps

\* A worker waits for the rows that it has marked, until it fetches them.
LEMMA AwaitsComes ==
    ASSUME WorkInv, [QueueNext]_queueVars, NEW w \in Workers, NEW i, Awaits(w, i)'
    PROVE  \/ Mark(w) /\ i \in Usable(w)
           \/ Awaits(w, i) /\ \A j \in jobs[w] : Fetch(w, j) => i \notin j.rows
  <1>0. /\ pc \in [Workers -> Labels]
        /\ batch \in [Workers -> SUBSET Rows]
        /\ jobs \in [Workers -> SUBSET Request]
        /\ JobsFit
    BY DEF WorkInv, Shape, WorkerShape
  <1>1. \/ pc'[w] = "route" /\ i \in batch'[w]
        \/ pc'[w] = "fetch" /\ \E j \in jobs'[w] : i \in j.rows
    BY DEF Awaits
  <1>2. ASSUME ~ WorkerNext(w)  PROVE Awaits(w, i)
    <2>1. /\ batch'[w] = batch[w] /\ jobs'[w] = jobs[w]
          /\ pc'[w] = pc[w] \/ AllReduce(Team(w)) \/ (Barrier /\ w \in TrainRanks)
      BY <1>2, OthersStay
    <2>2. AllReduce(Team(w)) => pc'[w] \in {"sample", "query"}
      BY <1>0, WorkerFacts DEF AllReduce, Team
    <2>3. Barrier /\ w \in TrainRanks => pc'[w] = "unready"
      BY DEF Barrier, PruneOrder
    <2> QED  BY <1>1, <2>1, <2>2, <2>3 DEF Awaits
  <1>3. CASE Mark(w)  BY <1>0, <1>1, <1>3, MarkMoves
  <1>4. ASSUME NEW j \in jobs[w], Fetch(w, j)  PROVE Awaits(w, i) /\ i \notin j.rows
    <2>1. pc[w] = "fetch"  BY <1>0, <1>4 DEF Fetch, JobsFit
    <2>2. jobs'[w] = jobs[w] \ {j} /\ pc'[w] # "route"  BY <1>0, <1>4 DEF Fetch
    <2>3. PICK k \in jobs[w] : k # j /\ i \in k.rows  BY <1>1, <2>2
    <2> QED  BY <2>1, <2>3, <1>0 DEF Awaits, JobsFit
  <1>5. ASSUME RouteGet(w)  PROVE Awaits(w, i)
    <2>1. pc[w] = "route"  BY <1>5 DEF RouteGet, Route
    <2>2. pc'[w] = "fetch" /\ jobs'[w] = RequestsFor(batch[w], "fetch")
      BY <1>0, <1>1, <1>5 DEF RouteGet, Route
    <2>3. i \in batch[w]
      <3>1. \A k \in RequestsFor(batch[w], "fetch") : k.rows \subseteq batch[w]  BY RequestsApart
      <3> QED  BY <3>1, <2>2, <1>1
    <2> QED  BY <2>1, <2>3 DEF Awaits
  <1>6. ~ RoutePut(w)
    <2>1. RoutePut(w) => pc'[w] \in {"store", "query"}  BY <1>0 DEF RoutePut, Route
    <2> QED  BY <2>1, <1>1
  <1>7. ~ QueryUsable(w) /\ ~ CountUsable(w) /\ ~ Sample(w)
    BY <1>0, <1>1 DEF QueryUsable, CountUsable, Sample, ReadReady
  <1>8. ~ Deletes(w) /\ ~ Unconsume(w) /\ ~ Unmap(w) /\ ~ Leaves(w)
    <2>1. ~ Leaves(w)
      <3> SUFFICES ASSUME Leaves(w) PROVE FALSE  OBVIOUS
      <3>1. PICK to \in {"ungroup", "listing", "forget", "query", "failed"}, rest \in SUBSET Request :
                LeavesAs(w, to, rest)
        BY LeavesMove DEF WorkInv, Shape
      <3>2. pc'[w] = to  BY <3>1, <1>0 DEF LeavesAs
      <3> QED  BY <3>1, <3>2, <1>1
    <2> QED  BY <2>1, <1>0, <1>1, PruneMoves
  <1>9. ASSUME NEW j \in jobs[w], Store(w, j) \/ Report(w, j) \/ Prune(w, j)  PROVE FALSE
    <2>1. pc'[w] \in {"store", "query", "prune", "ungroup"}
      BY <1>0, <1>9 DEF Store, Report, Prune, JobsFit
    <2> QED  BY <2>1, <1>1
  <1>10. \A j \in jobs[w] : Fetch(w, j) => i \notin j.rows  BY <1>4
  <1> QED  BY <1>2, <1>3, <1>4, <1>5, <1>6, <1>7, <1>8, <1>9, <1>10, WorkerCases DEF WorkerSteps

\* Every step keeps what is known of the forward workers.
LEMMA FwdStep ==
    ASSUME TrainInv, FwdInv, [QueueNext]_queueVars
    PROVE  FwdInv'
  <1>0. /\ PutInv /\ WorkInv /\ HasInv
        /\ pc \in [Workers -> Labels]
        /\ batch \in [Workers -> SUBSET Rows]
        /\ snapshot \in [Workers -> SUBSET Rows]
        /\ snapshot' \in [Workers -> SUBSET Rows]
        /\ ready \in [Columns -> SUBSET Rows]
        /\ jobs \in [Workers -> SUBSET Request]
        /\ JobsFit
        /\ \A f \in FwdWorkers : f \in Workers /\ ConsumerOf(f) = "fwd"
        /\ raced \subseteq raced'
    BY ShapeStep, WorkerFacts, HistoryGrows
       DEF TrainInv, StoredInv, PutInv, WorkInv, Shape, WorkerShape, ManagerShape, HistoryGrowth
  <1>1. \A w \in Workers : \A i \in batch[w] : i \in Rows /\ ~ Untouched(i)
    BY <1>0 DEF Untouched
  <1>2. ASSUME NEW f \in FwdWorkers, NEW j \in jobs[f], Report(f, j), NEW i \in j.rows
        PROVE  FwdHas(f, i) /\ i \in Rows
    BY <1>0, <1>2 DEF Report, JobsFit, FwdHas
  <1>3. \A f \in Workers : \A j \in jobs[f] : Report(f, j) => f \in FwdWorkers
    BY <1>0, WorkerFacts DEF Report, JobsFit, WorkInv, OwnSteps
  <1>4. ASSUME NEW i \in ReadyBoth'  PROVE i \in consumed'["fwd"]
    <2>1. CASE i \in ReadyBoth
      BY <2>1, <1>0, ConsumedStays, WorkerFacts DEF FwdInv, Alive, ReadyBoth
    <2>2. CASE i \notin ready["rollout"]
      <3>1. PICK g \in Groups : PutReported(g) /\ i \in RowsOf(g)
        BY <2>2, <1>0, ReadyComes, WorkerFacts DEF ReadyBoth
      <3>2. i \in ready["logprob"]
        <4>1. ready' = [ready EXCEPT !["rollout"] = @ \cup RowsOf(g)]  BY <3>1 DEF PutReported
        <4> QED  BY <4>1, <1>0, WorkerFacts DEF ReadyBoth
      <3>3. Untouched(i)  BY <3>1, <1>0 DEF PutReported, PutInv, PutFits
      <3> QED  BY <3>2, <3>3, WorkerFacts DEF Untouched
    <2>3. CASE i \in ready["rollout"] /\ i \notin ready["logprob"]
      <3>1. PICK f \in Workers : \E j \in jobs[f] : Report(f, j) /\ i \in j.rows
        BY <2>3, <1>0, ReadyComes, WorkerFacts DEF ReadyBoth
      <3>2. f \in FwdWorkers /\ FwdHas(f, i) /\ i \in Rows  BY <3>1, <1>2, <1>3
      <3>3. i \in consumed["fwd"]  BY <2>3, <3>2 DEF FwdInv, Alive
      <3> QED  BY <2>3, <3>3, <1>0, ConsumedStays, WorkerFacts DEF Alive
    <2> QED  BY <2>1, <2>2, <2>3 DEF ReadyBoth
  <1>5. ASSUME NEW f \in FwdWorkers, NEW i \in Rows, FwdHas(f, i)',
               Mark(f), i \in Usable(f)
        PROVE  /\ Alive(i)' => /\ i \in consumed'["fwd"] /\ i \notin ready'["logprob"]
                               /\ \A h \in FwdWorkers : FwdHas(h, i)' => h = f
               /\ ~ Alive(i)' => i \in raced'
    <2>1. /\ pc[f] = "mark" /\ ready' = ready
          /\ \A v \in Workers : v # f => pc'[v] = pc[v]
          /\ consumed'["fwd"] = consumed["fwd"] \cup batch'[f]
          /\ i \in snapshot[f] /\ i \notin consumed["fwd"] /\ i \in batch'[f]
      BY <1>0, <1>5, MarkMoves DEF Usable, FwdHas
    <2>2. Alive(i) \/ i \in raced  BY <2>1 DEF FwdInv
    <2>3. i \notin ReadyBoth  BY <2>1 DEF FwdInv
    <2>4. ASSUME Alive(i), NEW h \in FwdWorkers, FwdHas(h, i)', h # f  PROVE FALSE
      <3>1. ~ Mark(h)
        <4>1. pc'[f] \in {"query", "route"}  BY <1>0, <1>5, MarkMoves
        <4>2. Mark(h) => pc'[f] = pc[f]  BY <1>0, <2>4, MarkMoves
        <4> QED  BY <4>1, <4>2, <2>1
      <3>2. FwdHas(h, i)  BY <3>1, <2>4, <1>0, FwdComes
      <3> QED  BY <3>2, <2>1, <2>4 DEF FwdInv
    <2> QED  BY <2>1, <2>2, <2>3, <2>4, <1>0 DEF Alive, ReadyBoth
  <1>6. ASSUME NEW f \in FwdWorkers, NEW i \in Rows, FwdHas(f, i)', FwdHas(f, i),
               \A j \in jobs[f] : Report(f, j) => i \notin j.rows
        PROVE  /\ Alive(i)' => /\ i \in consumed'["fwd"] /\ i \notin ready'["logprob"]
                               /\ \A h \in FwdWorkers : FwdHas(h, i)' => h = f
               /\ ~ Alive(i)' => i \in raced'
    <2>0. ~ Untouched(i)  BY <1>0, <1>1, <1>6 DEF FwdHas
    <2>1. ASSUME Alive(i)'
          PROVE  /\ i \in consumed'["fwd"] /\ i \notin ready'["logprob"]
                 /\ \A h \in FwdWorkers : FwdHas(h, i)' => h = f
      <3>1. Alive(i)  BY <2>0, <2>1, <1>0, StaysDeleted
      <3>2. /\ i \in consumed["fwd"] /\ i \notin ready["logprob"]
            /\ \A h \in FwdWorkers : FwdHas(h, i) => h = f
        BY <3>1, <1>6 DEF FwdInv
      <3>3. i \in consumed'["fwd"]  BY <3>1, <3>2, <1>0, ConsumedStays, WorkerFacts
      <3>4. i \notin ready'["logprob"]
        <4> SUFFICES ASSUME i \in ready'["logprob"] PROVE FALSE  OBVIOUS
        <4>1. PICK h \in Workers : \E j \in jobs[h] : Report(h, j) /\ i \in j.rows
          BY <3>2, <1>0, ReadyComes, WorkerFacts
        <4>2. h \in FwdWorkers /\ FwdHas(h, i)  BY <4>1, <1>2, <1>3
        <4>3. h = f  BY <4>2, <3>2
        <4> QED  BY <4>1, <4>3, <1>6
      <3>5. ASSUME NEW h \in FwdWorkers, FwdHas(h, i)'  PROVE h = f
        <4>1. CASE Mark(h) /\ i \in Usable(h)
          BY <4>1, <3>2, <1>0 DEF Usable
        <4>2. CASE FwdHas(h, i)  BY <4>2, <3>2
        <4> QED  BY <4>1, <4>2, <3>5, <1>0, FwdComes
      <3> QED  BY <3>3, <3>4, <3>5
    <2>2. ASSUME ~ Alive(i)'  PROVE i \in raced'
      <3>1. CASE Alive(i)
        <4>1. i \in ready["logprob"]  BY <3>1, <2>2, <1>0, DeletedWasReady
        <4> QED  BY <4>1, <3>1, <1>6 DEF FwdInv
      <3>2. CASE ~ Alive(i)  BY <3>2, <1>0, <1>6 DEF FwdInv
      <3> QED  BY <3>1, <3>2
    <2> QED  BY <2>1, <2>2
  <1>7. ASSUME NEW f \in FwdWorkers, pc'[f] = "mark", NEW i \in snapshot'[f]
        PROVE  Alive(i)' \/ i \in raced'
    <2>1. CASE Sample(f)
      BY <2>1, <1>0, <1>7, WorkerFacts DEF Sample, ReadReady, managerVars, Alive
    <2>2. CASE ~ Sample(f)
      <3>1. pc[f] = "mark" /\ snapshot'[f] = snapshot[f]
        <4>1. CASE ~ WorkerNext(f)
          <5>1. AllReduce(Team(f)) => pc'[f] \in {"sample", "query"}
            BY <1>0 DEF AllReduce, Team
          <5>2. f \notin TrainRanks  BY WorkerFacts
          <5> QED  BY <4>1, <5>1, <5>2, <1>0, <1>7, OthersStay
        <4>2. CASE WorkerNext(f)
          <5>1. ~ QueryUsable(f) /\ ~ CountUsable(f)
            BY <1>0, <1>7 DEF QueryUsable, ReadReady, CountUsable
          <5>2. ~ Mark(f)  BY <1>0, <1>7, MarkMoves
          <5>3. ~ RouteGet(f) /\ ~ RoutePut(f)
            BY <1>0, <1>7 DEF RouteGet, RoutePut, Route
          <5>4. ASSUME NEW j \in jobs[f], Fetch(f, j) \/ Store(f, j) \/ Report(f, j) \/ Prune(f, j)
                PROVE  FALSE
            BY <1>0, <1>7, <5>4 DEF Fetch, Store, Report, Prune, JobsFit
          <5>5. ~ Deletes(f) /\ ~ Unconsume(f) /\ ~ Unmap(f) /\ ~ Leaves(f)
            <6>1. ~ Leaves(f)  BY <1>0, LeavesKeep DEF WorkInv, OwnSteps, Deletion
            <6> QED  BY <6>1, <1>0, <1>7, PruneMoves
          <5> QED  BY <4>2, <2>2, <5>1, <5>2, <5>3, <5>4, <5>5, WorkerCases DEF WorkerSteps
        <4> QED  BY <4>1, <4>2
      <3>2. i \in Rows /\ (Alive(i) \/ i \in raced)  BY <3>1, <1>0, <1>7 DEF FwdInv
      <3>3. ASSUME Alive(i), ~ Alive(i)'  PROVE i \in raced'
        <4>1. PICK t \in TrainRanks : Deletes(t) /\ i \in batch[t]  BY <3>2, <3>3, <1>0, DeletedWasReady
        <4>2. Sampling(i)  BY <3>1, <1>0, <1>7 DEF Sampling
        <4> QED  BY <4>1, <4>2, DeletesDoes, LeavesKeep
      <3> QED  BY <3>2, <3>3, <1>0
    <2> QED  BY <2>1, <2>2
  <1>8. ASSUME NEW f \in FwdWorkers, NEW i \in Rows, FwdHas(f, i)'
        PROVE  /\ Alive(i)' => /\ i \in consumed'["fwd"] /\ i \notin ready'["logprob"]
                               /\ \A h \in FwdWorkers : FwdHas(h, i)' => h = f
               /\ ~ Alive(i)' => i \in raced'
    BY <1>5, <1>6, <1>8, <1>0, FwdComes
  <1> QED  BY <1>4, <1>7, <1>8 DEF FwdInv

\* Who waits for a row that is not deleted has it alone, and it is consumed.
LEMMA AwaitsAlone ==
    ASSUME TrainInv, FwdInv, NEW w \in Workers, NEW i \in Rows, Awaits(w, i), Alive(i)
    PROVE  /\ i \in consumed[ConsumerOf(w)]
           /\ \A v \in Workers : ConsumerOf(v) = ConsumerOf(w) /\ Awaits(v, i) => v = w
  <1>1. HasInv /\ JobsFit  BY DEF TrainInv, StoredInv, PutInv, WorkInv
  <1>2. \A v \in Workers : Awaits(v, i) => pc[v] \in {"route", "fetch"} /\ i \in batch[v]
    BY <1>1 DEF Awaits, JobsFit
  <1>3. CASE w \in FwdWorkers
    <2>1. \A v \in Workers : ConsumerOf(v) = ConsumerOf(w) => v \in FwdWorkers
      BY <1>3, WorkerFacts
    <2>2. \A v \in FwdWorkers : Awaits(v, i) => FwdHas(v, i)  BY <1>2, WorkerFacts DEF FwdHas
    <2> QED  BY <1>3, <2>1, <2>2, WorkerFacts DEF FwdInv
  <1>4. CASE w \in TrainRanks
    <2>1. \A v \in Workers : ConsumerOf(v) = ConsumerOf(w) => v \in TrainRanks
      BY <1>4, WorkerFacts
    <2>2. \A v \in TrainRanks : Awaits(v, i) => TrainHas(v, i) /\ pc[v] \in Keeping
      BY <1>2, WorkerFacts DEF TrainHas, Holding, Keeping
    <2>3. i \in consumed["train"]  BY <1>4, <1>1, <2>2 DEF HasInv, HasFits, TrainHas
    <2> QED  BY <1>4, <1>1, <2>1, <2>2, <2>3, WorkerFacts DEF HasInv
  <1> QED  BY <1>3, <1>4, WorkerFacts

\* Every step keeps what is known of the rows delivered.
LEMMA ReceivedStep ==
    ASSUME TrainInv, FwdInv, ReceivedInv, [QueueNext]_queueVars
    PROVE  ReceivedInv'
  <1>0. /\ PutInv /\ WorkInv /\ HasInv /\ JobsFit /\ HistoryGrowth
        /\ pc \in [Workers -> Labels]
        /\ batch \in [Workers -> SUBSET Rows]
        /\ jobs \in [Workers -> SUBSET Request]
        /\ \A w \in Workers : ConsumerOf(w) \in Consumers
    BY WorkerFacts, HistoryGrows DEF TrainInv, StoredInv, PutInv, WorkInv, Shape, WorkerShape
  <1>1. \A w \in Workers : \A i : Awaits(w, i) => i \in batch[w] /\ i \in Rows /\ ~ Untouched(i)
    BY <1>0 DEF Awaits, JobsFit, Untouched
  <1>2. ASSUME NEW w \in Workers, NEW j \in jobs[w], Fetch(w, j), NEW i \in j.rows
        PROVE  Awaits(w, i) /\ i \in Rows /\ ready' = ready
    BY <1>0, <1>2 DEF Fetch, JobsFit, Awaits, managerVars
  <1>3. ASSUME NEW c \in Consumers, NEW i \in Rows, Alive(i)', <<c, i>> \in received'
        PROVE  i \in consumed'[c]
    <2>1. CASE <<c, i>> \in received
      <3>1. ~ Untouched(i)  BY <2>1 DEF Untouched
      <3>2. Alive(i)  BY <3>1, <1>0, <1>3, StaysDeleted
      <3>3. i \in consumed[c]  BY <2>1, <3>2 DEF ReceivedInv
      <3> QED  BY <3>2, <3>3, <1>0, ConsumedStays
    <2>2. ASSUME NEW w \in Workers, NEW j \in jobs[w], Fetch(w, j), ConsumerOf(w) = c, i \in j.rows
          PROVE  i \in consumed'[c]
      <3>1. Awaits(w, i) /\ Alive(i)  BY <2>2, <1>2, <1>3 DEF Alive
      <3>2. i \in consumed[c]  BY <3>1, <2>2, AwaitsAlone
      <3> QED  BY <3>1, <3>2, <1>0, ConsumedStays
    <2> QED  BY <2>1, <2>2, <1>0, <1>3 DEF HistoryGrowth
  <1>4. ASSUME NEW w \in Workers, NEW i \in Rows, Alive(i)', Awaits(w, i)',
               <<ConsumerOf(w), i>> \in received'
        PROVE  FALSE
    <2>1. CASE Mark(w) /\ i \in Usable(w)
      <3>1. ready' = ready /\ received' = received /\ i \notin consumed[ConsumerOf(w)]
        BY <2>1, <1>0, MarkMoves DEF historyVars, Usable
      <3>2. Alive(i)  BY <3>1, <1>4 DEF Alive
      <3> QED  BY <3>1, <3>2, <1>0, <1>4 DEF ReceivedInv
    <2>2. ASSUME Awaits(w, i), \A j \in jobs[w] : Fetch(w, j) => i \notin j.rows  PROVE FALSE
      <3>1. Alive(i)  BY <2>2, <1>0, <1>1, <1>4, StaysDeleted
      <3>2. <<ConsumerOf(w), i>> \notin received  BY <2>2, <3>1 DEF ReceivedInv
      <3>3. PICK v \in Workers : \E j \in jobs[v] : Fetch(v, j) /\ ConsumerOf(v) = ConsumerOf(w) /\ i \in j.rows
        BY <3>2, <1>0, <1>4 DEF HistoryGrowth
      <3>4. Awaits(v, i)  BY <3>3, <1>2
      <3>5. v = w  BY <3>1, <3>3, <3>4, <2>2, AwaitsAlone
      <3> QED  BY <3>3, <3>5, <2>2
    <2> QED  BY <2>1, <2>2, <1>0, <1>4, AwaitsComes
  <1> QED  BY <1>3, <1>4 DEF ReceivedInv

\* What a worker has and is not there was deleted under a sampler.
LEMMA FwdMisses ==
    ASSUME TrainInv, FwdInv, NEW f \in FwdWorkers, NEW i \in Rows, FwdHas(f, i), ~ Alive(i)
    PROVE  i \in raced
  BY DEF FwdInv

\* Every step hands out a row once only.
LEMMA HandedOutStep ==
    ASSUME TrainInv, FwdInv, ReceivedInv, HandedOutOnce, [QueueNext]_queueVars
    PROVE  HandedOutOnce'
  <1>0. /\ WorkInv /\ HasInv /\ JobsFit /\ HistoryGrowth
        /\ batch \in [Workers -> SUBSET Rows]
    BY HistoryGrows DEF TrainInv, StoredInv, PutInv, WorkInv, Shape, WorkerShape
  <1> SUFFICES ASSUME NEW x \in again' PROVE x[2] \in raced'  BY DEF HandedOutOnce
  <1>1. CASE x \in again  BY <1>0, <1>1 DEF HandedOutOnce, HistoryGrowth
  <1>2. ASSUME NEW w \in Workers, NEW j \in jobs[w], Fetch(w, j),
               x \in received, NEW i \in j.rows, x = <<ConsumerOf(w), i>>
        PROVE  x[2] \in raced'
    <2>1. pc[w] = "fetch" /\ i \in batch[w] /\ i \in Rows /\ Awaits(w, i)
      BY <1>0, <1>2 DEF Fetch, JobsFit, Awaits
    <2>2. ~ Alive(i)  BY <2>1, <1>2 DEF ReceivedInv
    <2>3. w \notin TrainRanks
      BY <2>1, <2>2, <1>0 DEF HasInv, HasFits, Holding, Keeping, ReadyBoth, Alive
    <2>4. w \in FwdWorkers /\ FwdHas(w, i)  BY <2>1, <2>3, WorkerFacts DEF FwdHas
    <2>5. i \in raced  BY <2>1, <2>2, <2>4, FwdMisses
    <2> QED  BY <2>5, <1>0, <1>2 DEF HistoryGrowth
  <1>3. CASE x \notin again
    <2>1. PICK w \in Workers : \E j \in jobs[w] :
              Fetch(w, j) /\ x \in received /\ x \in {ConsumerOf(w)} \X j.rows
      BY <1>0, <1>3 DEF HistoryGrowth
    <2>2. PICK j \in jobs[w] : Fetch(w, j) /\ x \in received /\ x \in {ConsumerOf(w)} \X j.rows
      BY <2>1
    <2>3. PICK i \in j.rows : x = <<ConsumerOf(w), i>>  BY <2>2
    <2> QED  BY <2>2, <2>3, <1>2
  <1> QED  BY <1>1, <1>3

\* What a step loses it loses with a row that was deleted under it.
LEMMA LostStep ==
    ASSUME TrainInv, FwdInv, LostOnlyByRace, [QueueNext]_queueVars
    PROVE  LostOnlyByRace'
  <1>0. /\ StoredInv /\ WorkInv /\ HasInv /\ JobsFit /\ HistoryGrowth /\ ReadyIsStored
        /\ batch \in [Workers -> SUBSET Rows]
        /\ \A w \in Workers : \A j \in jobs[w] : JobFits(j)
    BY HistoryGrows DEF TrainInv, StoredInv, PutInv, WorkInv, Shape, WorkerShape
  <1> SUFFICES ASSUME NEW rows \in lost' PROVE \E i \in rows : i \in raced'
    BY DEF LostOnlyByRace
  <1>1. CASE rows \in lost  BY <1>0, <1>1 DEF LostOnlyByRace, HistoryGrowth
  <1>2. ASSUME NEW w \in Workers, RouteGet(w) \/ RoutePut(w), rows = batch[w], ~ Routed(batch[w])
        PROVE  \E i \in rows : i \in raced'
    <2>1. PICK i \in batch[w] : shardOf[i] = Nowhere  BY <1>2 DEF Routed
    <2>2. pc[w] \in {"route", "process"}
      BY <1>2 DEF RouteGet, RoutePut, Route
    <2>3. w \notin TrainRanks
      <3>1. w \in TrainRanks => Routed(batch[w])
        BY <2>2, <1>0, TrainRouted, WorkerFacts DEF Holding, Keeping
      <3> QED  BY <3>1, <1>2
    <2>4. w \in FwdWorkers /\ FwdHas(w, i) /\ i \in Rows
      BY <2>1, <2>2, <2>3, <1>0, WorkerFacts DEF FwdHas
    <2>5. ~ Alive(i)  BY <2>1, <1>0, ShardFacts DEF HasInv, AliveMapped, Alive, Nowhere
    <2>6. i \in raced  BY <2>4, <2>5, FwdMisses
    <2> QED  BY <2>1, <2>6, <1>0, <1>2 DEF HistoryGrowth
  <1>3. ASSUME NEW w \in Workers, NEW j \in jobs[w], Fetch(w, j), rows = j.rows,
               ~ \A col \in InputColumns(ConsumerOf(w)) : j.rows \subseteq table[j.shard][col]
        PROVE  \E i \in rows : i \in raced'
    <2>1. j.stage = "fetch" /\ pc[w] = "fetch" /\ j.rows \subseteq batch[w]
      BY <1>0, <1>3 DEF Fetch, JobsFit
    <2>2. w \in FwdWorkers
      <3>1. w \notin TrainRanks  BY <2>1, <1>0, <1>3, TrainFinds
      <3> QED  BY <3>1, WorkerFacts
    <2>3. PICK i \in j.rows : i \notin table[j.shard]["rollout"]  BY <1>3, <2>2, WorkerFacts
    <2>4. FwdHas(w, i) /\ i \in Rows  BY <2>1, <2>3, <1>0 DEF FwdHas
    <2>5. ~ Alive(i)
      <3> SUFFICES ASSUME Alive(i) PROVE FALSE  OBVIOUS
      <3>1. shardOf[i] \in Shards  BY <1>0 DEF HasInv, AliveMapped, Alive
      <3>2. shardOf[i] # Nowhere  BY <3>1, ShardFacts DEF Nowhere
      <3>3. shardOf[i] = j.shard  BY <3>2, <1>0 DEF JobFits
      <3>4. i \in table[shardOf[i]]["rollout"]  BY <3>2, <1>0, WorkerFacts DEF ReadyIsStored, Alive
      <3> QED  BY <3>3, <3>4, <2>3
    <2>6. i \in raced  BY <2>2, <2>4, <2>5, FwdMisses
    <2> QED  BY <2>3, <2>6, <1>0, <1>3 DEF HistoryGrowth
  <1> QED  BY <1>0, <1>1, <1>2, <1>3 DEF HistoryGrowth

\* Every step keeps the uuids.
LEMMA UuidStep ==
    ASSUME WorkInv, UuidShape, [QueueNext]_queueVars
    PROVE  UuidShape'
  <1> USE DEF UuidShape
  <1>1. CASE Allocate
    <2>1. nextGroup \in Groups
      BY <1>1, QueueAssumption DEF Allocate, WorkInv, Shape, ManagerShape, Groups
    <2> QED  BY <1>1, <2>1 DEF Allocate
  <1>2. ASSUME NEW g \in Groups, Number(g) \/ PutStored(g) \/ PutReported(g)  PROVE UNCHANGED uuidVars
    BY <1>2 DEF Number, PutStored, PutReported
  <1>3. ASSUME NEW w \in Workers, WorkerNext(w)  PROVE UuidShape'
    <2>1. CASE QueryUsable(w) \/ CountUsable(w) \/ Sample(w) \/ Mark(w) \/ RouteGet(w) \/ RoutePut(w)
      BY <2>1 DEF QueryUsable, CountUsable, Sample, ReadReady, Mark, RouteGet, RoutePut, Route, uuidVars
    <2>2. ASSUME NEW j \in jobs[w], Fetch(w, j) \/ Store(w, j) \/ Report(w, j) \/ Prune(w, j)
          PROVE  UuidShape'
      BY <2>2 DEF Fetch, Store, Report, Prune, uuidVars
    <2>3. CASE Unready(w)
      BY <2>3 DEF Unready, Fails
    <2>4. CASE Unconsume(w) \/ Unmap(w)
      BY <2>4 DEF Unconsume, Unmap, uuidVars
    <2>5. ASSUME NEW j \in jobs[w], NEW g \in Groups, Ungroup(w, j, g)  PROVE UuidShape'
      BY <2>5 DEF Ungroup
    <2>6. CASE Listed(w)  BY <2>6 DEF Listed, Fails
    <2>7. CASE Forget(w)
      <3>1. forget' = [forget EXCEPT ![w] = {}] \/ forget' = [forget EXCEPT ![w] = @ \ {Min(forget[w])}]
        BY <2>7 DEF Forget, Fails
      <3>2. uuids' \subseteq uuids  BY <2>7 DEF Forget
      <3> QED  BY <3>1, <3>2
    <2> QED  BY <1>3, <2>1, <2>2, <2>3, <2>4, <2>5, <2>6, <2>7 DEF WorkerNext
  <1>4. ASSUME NEW team, AllReduce(team)  PROVE UNCHANGED uuidVars
    BY <1>4 DEF AllReduce
  <1>5. Barrier \/ UNCHANGED queueVars => UNCHANGED uuidVars
    BY DEF Barrier, queueVars
  <1>6. UNCHANGED uuidVars => UuidShape'  BY DEF uuidVars
  <1> HIDE DEF UuidShape
  <1> QED  BY <1>1, <1>2, <1>3, <1>4, <1>5, <1>6 DEF QueueNext

\* Every step, and a stutter, keeps the inductive invariant.
LEMMA QueueStep == QueueInv /\ [QueueNext]_queueVars => QueueInv'
  BY TrainStep, UuidStep, JobShardsStep, FwdStep, ReceivedStep, HandedOutStep, LostStep
     DEF QueueInv, TrainInv, StoredInv, PutInv

-----------------------------------------------------------------------------
(* The theorems.                                                           *)

\* The inductive invariant holds in every state of every queue.
THEOREM QueueInductive == QueueSpec => []QueueInv
  <1>1. QueueInit => QueueInv  BY InitQueue
  <1>2. QueueInv /\ [QueueNext]_queueVars => QueueInv'  BY QueueStep
  <1> QED  BY <1>1, <1>2, PTL DEF QueueSpec

\* QueueTypeOK asks for a shard in every request; Shape leaves that to JobShards.
LEMMA ShapeIsTypeOK == QueueInv => QueueTypeOK
  <1> SUFFICES ASSUME QueueInv PROVE QueueTypeOK  OBVIOUS
  <1>1. Shape /\ UuidShape /\ JobShards  BY DEF QueueInv, TrainInv, StoredInv, PutInv, WorkInv
  <1>2. jobs \in [Workers -> SUBSET [shard : Shards, rows : SUBSET Rows, stage : Stages]]
    BY <1>1 DEF Shape, WorkerShape, JobShards, Request
  <1> QED  BY <1>1, <1>2
           DEF QueueTypeOK, Shape, ManagerShape, WorkerShape, HistoryShape, UuidShape, Labels, Stages

\* Every variable of the queue keeps its shape: every request goes to a shard that
\* exists, and a put finds the shard of its group.
THEOREM QueueTypeCorrect == QueueSpec => []QueueTypeOK
  BY QueueInductive, ShapeIsTypeOK, PTL

\* For any number of shards, workers, rows and groups: a row that the manager offers and
\* that has a shard is in that shard's table.
THEOREM ReadyRowsStored == QueueSpec => []ReadyIsStored
  <1>1. QueueInv => ReadyIsStored  BY DEF QueueInv, TrainInv, StoredInv
  <1> QED  BY QueueInductive, <1>1, PTL

\* No consumer gets a row twice, unless it was deleted while a sampler stood between its
\* two reads: how many shards, workers and rows there are makes no difference.
THEOREM RowsHandedOutOnce == QueueSpec => []HandedOutOnce
  <1>1. QueueInv => HandedOutOnce  BY DEF QueueInv
  <1> QED  BY QueueInductive, <1>1, PTL

\* A consumer loses rows or results only together with a row deleted in that moment.
THEOREM RowsLostOnlyByRace == QueueSpec => []LostOnlyByRace
  <1>1. QueueInv => LostOnlyByRace  BY DEF QueueInv
  <1> QED  BY QueueInductive, <1>1, PTL

\* When a train rank waits at the barrier every other one has its batch or is about to
\* get it, whatever shares the ranks ask for.
THEOREM TrainRanksMeet == QueueSpec => []RanksMeet
  <1>1. QueueInv => RanksMeet
    BY DEF QueueInv, TrainInv, Phase, RanksMeet, Gathering, Polling, Deletion
  <1> QED  BY QueueInductive, <1>1, PTL
=============================================================================
