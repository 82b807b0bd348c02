----------------------------- MODULE TransferQueue -----------------------------
(***************************************************************************)
(* The TransferQueue of the async_flow recipe: a manager that numbers the  *)
(* rows, gives each group of rows a shard and deals the rows that are      *)
(* ready out to consumers; shards that keep the rows' columns; and three   *)
(* of the recipe's users, each a client of the queue: agent loops put a    *)
(* group of rows at a time, forward workers read them and put log          *)
(* probabilities, train ranks read both and delete what they trained on.   *)
(*                                                                         *)
(* The manager is a threaded actor: its calls interleave wherever they     *)
(* hold no common lock.  A sampling or counting call holds the lock of its *)
(* consumer; a deletion takes none of these.  The shards' calls and the    *)
(* clients' steps interleave at every await.                               *)
(*                                                                         *)
(* A column here is all the columns that one user writes.  No row is       *)
(* too old for the trainer here, so that no call filters by version, and   *)
(* every prompt has a uid of its own, which one put uses once.             *)
(***************************************************************************)
EXTENDS Integers, FiniteSets, FiniteSetsExt, Functions

CONSTANTS
    NumShards,  \* nums_tq_data
    NSamples,   \* n_samples_per_prompt: the rows of a group
    MaxGroups,  \* bound: the groups that are put
    FwdWorkers, \* the forward ranks
    TrainRanks, \* the train ranks
    Share       \* worker -> the rows it asks for at a time (experience_count)

Workers == FwdWorkers \cup TrainRanks

ASSUME QueueAssumption ==
    /\ {NumShards, NSamples, MaxGroups} \subseteq Nat \ {0}
    /\ FwdWorkers \cap TrainRanks = {}
    /\ IsFiniteSet(Workers)
    /\ Share \in [Workers -> Nat \ {0}]

Shards == 0..(NumShards - 1)
Columns == {"rollout", "logprob"}
Consumers == {"fwd", "train"}
ConsumerOf(w) == IF w \in FwdWorkers THEN "fwd" ELSE "train"
Team(w) == IF w \in FwdWorkers THEN FwdWorkers ELSE TrainRanks
InputColumns(c) == IF c = "fwd" THEN {"rollout"} ELSE Columns

\* The groups that are put, and their rows.
Groups == 0..(MaxGroups - 1)
Rows == 0..(MaxGroups * NSamples - 1)
RowsOf(group) == (group * NSamples)..(group * NSamples + NSamples - 1)
Nowhere == -1

VARIABLES
    shardOf,    \* global_idx_to_shard: row -> shard, Nowhere when it has none
    groupIds,   \* group_ids_per_shard
    nextGroup,  \* the group after that of max_cur_index
    put,        \* group -> how far its put is
    ready,      \* experience_ready
    consumed,   \* experience_consumed
    table,      \* shard -> column -> the rows it stores
    pc,         \* worker -> its next step
    snapshot,   \* worker -> the ready rows it has read, under the lock
    count,      \* worker -> what it counted as usable
    batch,      \* worker -> the rows it was dealt
    jobs,       \* worker -> its requests to shards that are still open
    uuids,      \* uuid_to_group: the groups whose uuid it has
    forget,     \* worker -> the uuids it listed and has yet to delete, by their groups
    received,   \* history: what was delivered, <<consumer, row>>
    again,      \* history: what was delivered again
    lost,       \* history: sets of rows taken whose data or results were dropped
    raced       \* history: rows deleted while a sampler had them in its snapshot

managerVars == <<shardOf, groupIds, nextGroup, ready, consumed>>
workerVars == <<pc, snapshot, count, batch, jobs>>
uuidVars == <<uuids, forget>>
historyVars == <<received, again, lost, raced>>
queueVars == <<managerVars, put, table, workerVars, uuidVars, historyVars>>

QueueInit ==
    /\ shardOf = [i \in Rows |-> Nowhere]
    /\ groupIds = [s \in Shards |-> {}]
    /\ nextGroup = 0
    /\ put = [g \in Groups |-> "unput"]
    /\ ready = [col \in Columns |-> {}]
    /\ consumed = [c \in Consumers |-> {}]
    /\ table = [s \in Shards |-> [col \in Columns |-> {}]]
    /\ pc = [w \in Workers |-> "query"]
    /\ snapshot = [w \in Workers |-> {}]
    /\ count = [w \in Workers |-> 0]
    /\ batch = [w \in Workers |-> {}]
    /\ jobs = [w \in Workers |-> {}]
    /\ uuids = {}
    /\ forget = [w \in Workers |-> {}]
    /\ received = {}
    /\ again = {}
    /\ lost = {}
    /\ raced = {}

-----------------------------------------------------------------------------
(* An agent loop puts the rows of one prompt.                              *)

\* get_allocation_for_new_groups for one group, when the shards hold so many: each
\* shard gets the groups it lacks to the average.  After deletions some hold more than
\* that, and then the others get more than the one group that is asked for, with
\* numbers that later puts use again.
Needed(holds, s) ==
    LET total == SumFunction(holds) + 1
        target == total \div NumShards + (IF s < total % NumShards THEN 1 ELSE 0)
    IN  Max({0, target - holds[s]})

\* Faulty variant: the new groups are numbered after those held.
FirstHeldGroup == SumFunction([s \in Shards |-> Cardinality(groupIds[s])])
FirstNewGroup == nextGroup

NewGroups(s) ==
    LET holds == [t \in Shards |-> Cardinality(groupIds[t])]
        needed == [t \in Shards |-> Needed(holds, t)]
        first == FirstNewGroup + SumFunctionOnSet(needed, 0..(s - 1))
    IN  first..(first + needed[s] - 1)

\* allocate_indexes holds assign_new_index_lock from here until the rows have their
\* numbers: no other put has this group.
Allocate ==
    LET new == [s \in Shards |-> NewGroups(s)]
        g == nextGroup
    IN  /\ g < MaxGroups
        /\ put[g] = "unput"
        /\ shardOf' = [i \in Rows |->
               IF \E s \in Shards : i \div NSamples \in new[s]
               THEN CHOOSE s \in Shards : i \div NSamples \in new[s]
               ELSE shardOf[i]]
        /\ groupIds' = [s \in Shards |-> groupIds[s] \cup new[s]]
        /\ uuids' = uuids \cup {g}
        /\ put' = [put EXCEPT ![g] = "numbering"]
        /\ UNCHANGED <<nextGroup, ready, consumed, table, workerVars, forget, historyVars>>

\* The uuid is looked up again for every row.  A deletion, which does not take the lock,
\* may have removed it: KeyError ends the put, the groups stay mapped, and the next put
\* gets the same numbers.
Number(g) ==
    /\ put[g] = "numbering"
    /\ IF g \in uuids
       THEN put' = [put EXCEPT ![g] = "allocated"] /\ nextGroup' = g + 1
       ELSE put' = [put EXCEPT ![g] = "unput"] /\ UNCHANGED nextGroup
    /\ UNCHANGED <<shardOf, groupIds, ready, consumed, table, workerVars, uuidVars, historyVars>>

\* A shard's _handle_put first keeps the rows, then reports them to the manager.
\* The rows of a group all go to one shard.
PutStored(g) ==
    /\ put[g] = "allocated"
    /\ put' = [put EXCEPT ![g] = "stored"]
    /\ table' = [table EXCEPT ![shardOf[g * NSamples]]["rollout"] = @ \cup RowsOf(g)]
    /\ UNCHANGED <<managerVars, workerVars, uuidVars, historyVars>>

PutReported(g) ==
    /\ put[g] = "stored"
    /\ put' = [put EXCEPT ![g] = "reported"]
    /\ ready' = [ready EXCEPT !["rollout"] = @ \cup RowsOf(g)]
    /\ UNCHANGED <<shardOf, groupIds, nextGroup, consumed, table, workerVars, uuidVars, historyVars>>

-----------------------------------------------------------------------------
(* A worker looks how many rows are usable, and with all ranks of its team *)
(* whether there is a share for each; then it takes its share.             *)

\* consumer_sampling_lock: a call holds it from one read of the manager's sets to
\* the next.
LockFree(c) == \A w \in Workers : ConsumerOf(w) = c => pc[w] \notin {"count", "mark"}

ReadReady(w, from, to) ==
    LET c == ConsumerOf(w)
    IN  /\ pc[w] = from
        /\ LockFree(c)
        /\ pc' = [pc EXCEPT ![w] = to]
        /\ snapshot' = [snapshot EXCEPT ![w] =
               {i \in Rows : \A col \in InputColumns(c) : i \in ready[col]}]
        /\ UNCHANGED <<managerVars, put, table, count, batch, jobs, uuidVars, historyVars>>

\* get_data_usable_set
QueryUsable(w) == ReadReady(w, "query", "count")

Usable(w) == snapshot[w] \ consumed[ConsumerOf(w)]

\* Faulty variant: the two sets' sizes are subtracted.
CountDifference(w) ==
    /\ pc[w] = "count"
    /\ pc' = [pc EXCEPT ![w] = "counted"]
    /\ count' = [count EXCEPT ![w] = Cardinality(snapshot[w]) - Cardinality(consumed[ConsumerOf(w)])]
    /\ snapshot' = [snapshot EXCEPT ![w] = {}]
    /\ UNCHANGED <<managerVars, put, table, batch, jobs, uuidVars, historyVars>>

CountUsable(w) ==
    /\ pc[w] = "count"
    /\ pc' = [pc EXCEPT ![w] = "counted"]
    /\ count' = [count EXCEPT ![w] = Cardinality(Usable(w))]
    /\ snapshot' = [snapshot EXCEPT ![w] = {}]
    /\ UNCHANGED <<managerVars, put, table, batch, jobs, uuidVars, historyVars>>

\* The all_reduce(MIN) of a team's counts.  Faulty variant: every rank looks
\* for its own rows only, not for those of the whole team.
SharesOf(team) == SumFunctionOnSet(Share, team)
EnoughForEach(team) == \A w \in team : Share[w] <= count[w]
EnoughForAll(team) == SharesOf(team) <= Min({count[w] : w \in team})

AllReduce(team) ==
    /\ \A w \in team : pc[w] = "counted"
    /\ pc' = [w \in Workers |-> IF w \notin team THEN pc[w]
                                 ELSE IF EnoughForAll(team) THEN "sample" ELSE "query"]
    /\ count' = [w \in Workers |-> IF w \in team THEN 0 ELSE count[w]]
    /\ UNCHANGED <<managerVars, put, table, snapshot, batch, jobs, uuidVars, historyVars>>

\* _sample_ready_index, its two reads.
Sample(w) == ReadReady(w, "sample", "mark")

\* usable_indexes[:experience_count], sorted.
First(n, rows) == {i \in rows : Cardinality({j \in rows : j < i}) < n}

Mark(w) ==
    LET chosen == IF Cardinality(Usable(w)) < Share[w] THEN {} ELSE First(Share[w], Usable(w))
    IN  /\ pc[w] = "mark"
        /\ pc' = [pc EXCEPT ![w] = IF chosen = {} THEN "query" ELSE "route"]
        /\ consumed' = [consumed EXCEPT ![ConsumerOf(w)] = @ \cup chosen]
        /\ batch' = [batch EXCEPT ![w] = chosen]
        /\ snapshot' = [snapshot EXCEPT ![w] = {}]
        /\ UNCHANGED <<shardOf, groupIds, nextGroup, ready, put, table, count, jobs, uuidVars, historyVars>>

-----------------------------------------------------------------------------
(* The rows go between a worker and the shards.                            *)

\* One request for each shard that has some of the rows.
RequestsFor(rows, stage) ==
    {[shard |-> s, rows |-> {i \in rows : shardOf[i] = s}, stage |-> stage] :
        s \in {shardOf[i] : i \in rows}}

Routed(rows) == \A i \in rows : shardOf[i] # Nowhere

\* A row without a shard raises: the manager's sampling call after it marked the rows
\* consumed, which the client takes for no data, and the one that routes a put, which
\* ends the put.
Route(w, from, to, stage) ==
    /\ pc[w] = from
    /\ \/ /\ Routed(batch[w])
          /\ pc' = [pc EXCEPT ![w] = to]
          /\ jobs' = [jobs EXCEPT ![w] = RequestsFor(batch[w], stage)]
          /\ UNCHANGED <<batch, lost>>
       \/ /\ ~Routed(batch[w])
          /\ pc' = [pc EXCEPT ![w] = "query"]
          /\ lost' = lost \cup {batch[w]}
          /\ batch' = [batch EXCEPT ![w] = {}]
          /\ UNCHANGED jobs
    /\ UNCHANGED <<managerVars, put, table, snapshot, count, uuidVars, received, again, raced>>

RouteGet(w) == Route(w, "route", "fetch", "fetch")
RoutePut(w) == w \in FwdWorkers /\ Route(w, "process", "store", "store")

\* get_batch on one shard.  It raises when one of the rows is not there, and the
\* client goes on without the rows it asked of that shard.
Fetch(w, j) ==
    LET c == ConsumerOf(w)
        found == \A col \in InputColumns(c) : j.rows \subseteq table[j.shard][col]
        got == IF found THEN batch[w] ELSE batch[w] \ j.rows
        here == IF found THEN {c} \X j.rows ELSE {}
    IN  /\ j.stage = "fetch"
        /\ jobs' = [jobs EXCEPT ![w] = @ \ {j}]
        /\ batch' = [batch EXCEPT ![w] = got]
        /\ pc' = [pc EXCEPT ![w] = IF jobs[w] # {j} THEN "fetch"
                                   ELSE IF got = {} THEN "query" ELSE "process"]
        /\ again' = again \cup (received \cap here)
        /\ received' = received \cup here
        /\ lost' = IF found THEN lost ELSE lost \cup {j.rows}
        /\ UNCHANGED <<managerVars, put, table, snapshot, count, uuidVars, raced>>

\* The two halves of _handle_put.
Store(w, j) ==
    /\ j.stage = "store"
    /\ jobs' = [jobs EXCEPT ![w] = (@ \ {j}) \cup {[j EXCEPT !.stage = "report"]}]
    /\ table' = [table EXCEPT ![j.shard]["logprob"] = @ \cup j.rows]
    /\ UNCHANGED <<managerVars, put, pc, snapshot, count, batch, uuidVars, historyVars>>

Report(w, j) ==
    /\ j.stage = "report"
    /\ jobs' = [jobs EXCEPT ![w] = @ \ {j}]
    /\ ready' = [ready EXCEPT !["logprob"] = @ \cup j.rows]
    /\ pc' = [pc EXCEPT ![w] = IF jobs[w] = {j} THEN "query" ELSE "store"]
    /\ batch' = [batch EXCEPT ![w] = IF jobs[w] = {j} THEN {} ELSE @]
    /\ UNCHANGED <<shardOf, groupIds, nextGroup, consumed, put, table, snapshot, count, uuidVars, historyVars>>

-----------------------------------------------------------------------------
(* The train ranks wait for each other, train, and each deletes its batch: *)
(* _prune_topic_by_indexes, which the other calls of the manager may come  *)
(* between.                                                                *)

\* Faulty variant: who consumed the rows is forgotten before they are unready.
ForgetFirst == <<"unconsume", "unready", "unmap", "prune">>
PruneOrder == <<"unready", "unconsume", "unmap", "prune">>

Barrier ==
    /\ \A w \in TrainRanks : pc[w] = "process"
    /\ pc' = [w \in Workers |-> IF w \in TrainRanks THEN PruneOrder[1] ELSE pc[w]]
    /\ UNCHANGED <<managerVars, put, table, snapshot, count, batch, jobs, uuidVars, historyVars>>

PruneStep(w, step) ==
    /\ pc[w] = step
    /\ \E k \in 1..3 : PruneOrder[k] = step /\ pc' = [pc EXCEPT ![w] = PruneOrder[k + 1]]

\* A deletion that raises ends the rank's loop.
Fails(w) ==
    /\ pc' = [pc EXCEPT ![w] = "failed"]
    /\ batch' = [batch EXCEPT ![w] = {}]
    /\ jobs' = [jobs EXCEPT ![w] = {}]
    /\ forget' = [forget EXCEPT ![w] = {}]

\* A sampler that has read the ready rows, and not yet which are consumed.
Sampling(i) == \E v \in Workers : pc[v] = "mark" /\ i \in snapshot[v]

\* Faulty variant: the columns of the agent loops are forgotten.
UnreadyResults(w) ==
    /\ PruneStep(w, "unready")
    /\ ready' = [ready EXCEPT !["logprob"] = @ \ batch[w]]
    /\ raced' = raced \cup {i \in batch[w] : Sampling(i)}
    /\ UNCHANGED <<shardOf, groupIds, nextGroup, consumed, put, table,
                   snapshot, count, batch, jobs, uuidVars, received, again, lost>>

\* A row without a shard raises before anything is deleted.
Unready(w) ==
    /\ IF Routed(batch[w])
       THEN /\ PruneStep(w, "unready")
            /\ ready' = [col \in Columns |-> ready[col] \ batch[w]]
            /\ raced' = raced \cup {i \in batch[w] : Sampling(i)}
            /\ UNCHANGED <<batch, jobs, forget>>
       ELSE /\ pc[w] = "unready"
            /\ Fails(w)
            /\ UNCHANGED <<ready, raced>>
    /\ UNCHANGED <<shardOf, groupIds, nextGroup, consumed, put, table,
                   snapshot, count, uuids, received, again, lost>>

Unconsume(w) ==
    /\ PruneStep(w, "unconsume")
    /\ consumed' = [c \in Consumers |-> consumed[c] \ batch[w]]
    /\ UNCHANGED <<shardOf, groupIds, nextGroup, ready, put, table,
                   snapshot, count, batch, jobs, uuidVars, historyVars>>

Unmap(w) ==
    /\ PruneStep(w, "unmap")
    /\ jobs' = [jobs EXCEPT ![w] = RequestsFor(batch[w], "prune")]
    /\ shardOf' = [i \in Rows |-> IF i \in batch[w] THEN Nowhere ELSE shardOf[i]]
    /\ UNCHANGED <<groupIds, nextGroup, ready, consumed, put, table,
                   snapshot, count, batch, uuidVars, historyVars>>

\* prune_experience_table, on one shard after the other.
Prune(w, j) ==
    LET rest == (jobs[w] \ {j}) \cup {[j EXCEPT !.stage = "ungroup"]}
    IN  /\ j.stage = "prune"
        /\ jobs' = [jobs EXCEPT ![w] = rest]
        /\ pc' = [pc EXCEPT ![w] = IF \E k \in rest : k.stage = "prune" THEN "prune" ELSE "ungroup"]
        /\ table' = [table EXCEPT ![j.shard] = [col \in Columns |-> @[col] \ j.rows]]
        /\ UNCHANGED <<managerVars, put, snapshot, count, batch, uuidVars, historyVars>>

\* The rank goes on to the next of its groups, or is done.
NextGroup(w, left) ==
    /\ pc' = [pc EXCEPT ![w] = IF left = {} THEN "query" ELSE "ungroup"]
    /\ batch' = [batch EXCEPT ![w] = IF left = {} THEN {} ELSE @]

\* One group of the rows deleted after the other: one that no row has a shard of any
\* more leaves the shard its rows had, and its uuid is looked for: the comprehension
\* compares its own variable with itself, and lists them all.  (Two ranks that each
\* delete the last row of a group may also meet at group_index_sets, and fail there as
\* they do below.)
Ungroup(w, j, g) ==
    LET rest == {k \in (jobs[w] \ {j}) \cup {[j EXCEPT !.rows = @ \ RowsOf(g)]} : k.rows # {}}
    IN  /\ pc[w] = "ungroup"
        /\ j.rows \cap RowsOf(g) # {}
        /\ jobs' = [jobs EXCEPT ![w] = rest]
        /\ IF \A i \in RowsOf(g) : shardOf[i] = Nowhere
           THEN /\ pc' = [pc EXCEPT ![w] = "listing"]
                /\ groupIds' = [groupIds EXCEPT ![j.shard] = @ \ {g}]
                /\ forget' = [forget EXCEPT ![w] = uuids]
                /\ UNCHANGED batch
           ELSE NextGroup(w, rest) /\ UNCHANGED <<groupIds, forget>>
        /\ UNCHANGED <<shardOf, nextGroup, ready, consumed, put, table,
                       snapshot, count, uuids, historyVars>>

\* The listing raises when the dictionary has another size than when it began.
Listed(w) ==
    /\ pc[w] = "listing"
    /\ IF Cardinality(uuids) # Cardinality(forget[w]) THEN Fails(w)
       ELSE /\ IF forget[w] = {} THEN NextGroup(w, jobs[w])
               ELSE pc' = [pc EXCEPT ![w] = "forget"] /\ UNCHANGED batch
            /\ UNCHANGED <<jobs, forget>>
    /\ UNCHANGED <<managerVars, put, table, snapshot, count, uuids, historyVars>>

\* One by one, the oldest first: KeyError when another rank has deleted it.
Forget(w) ==
    LET g == Min(forget[w])
    IN  /\ pc[w] = "forget"
        /\ uuids' = uuids \ {g}
        /\ IF g \notin uuids THEN Fails(w)
           ELSE /\ forget' = [forget EXCEPT ![w] = @ \ {g}]
                /\ IF forget[w] = {g} THEN NextGroup(w, jobs[w]) ELSE UNCHANGED <<pc, batch>>
                /\ UNCHANGED jobs
        /\ UNCHANGED <<managerVars, put, table, snapshot, count, historyVars>>

-----------------------------------------------------------------------------
WorkerNext(w) ==
    \/ QueryUsable(w) \/ CountUsable(w) \/ Sample(w) \/ Mark(w)
    \/ RouteGet(w) \/ RoutePut(w)
    \/ \E j \in jobs[w] : Fetch(w, j) \/ Store(w, j) \/ Report(w, j) \/ Prune(w, j)
    \/ Unready(w) \/ Unconsume(w) \/ Unmap(w)
    \/ \E j \in jobs[w], g \in Groups : Ungroup(w, j, g)
    \/ Listed(w) \/ Forget(w)

QueueNext ==
    \/ Allocate
    \/ \E g \in Groups : Number(g) \/ PutStored(g) \/ PutReported(g)
    \/ \E w \in Workers : WorkerNext(w)
    \/ AllReduce(FwdWorkers) \/ AllReduce(TrainRanks)
    \/ Barrier

QueueSpec == QueueInit /\ [][QueueNext]_queueVars

-----------------------------------------------------------------------------
(* Properties.                                                             *)

\* Every variable keeps its shape.
QueueTypeOK ==
    /\ shardOf \in [Rows -> Shards \cup {Nowhere}]
    /\ groupIds \in [Shards -> SUBSET Nat]
    /\ nextGroup \in 0..MaxGroups
    /\ put \in [Groups -> {"unput", "numbering", "allocated", "stored", "reported"}]
    /\ ready \in [Columns -> SUBSET Rows]
    /\ consumed \in [Consumers -> SUBSET Rows]
    /\ table \in [Shards -> [Columns -> SUBSET Rows]]
    /\ pc \in [Workers -> {"query", "count", "counted", "sample", "mark", "route", "fetch", "process",
                           "store", "unready", "unconsume", "unmap", "prune", "ungroup",
                           "listing", "forget", "failed"}]
    /\ snapshot \in [Workers -> SUBSET Rows]
    /\ count \in [Workers -> Nat]
    /\ batch \in [Workers -> SUBSET Rows]
    /\ jobs \in [Workers -> SUBSET [shard : Shards, rows : SUBSET Rows,
                                    stage : {"fetch", "store", "report", "prune", "ungroup"}]]
    /\ uuids \subseteq Groups
    /\ forget \in [Workers -> SUBSET Groups]
    /\ received \cup again \subseteq Consumers \X Rows
    /\ lost \subseteq SUBSET Rows
    /\ raced \subseteq Rows

\* A row that the manager offers and that has a shard is in that shard's table: no put
\* reports a row before it is kept, and no later allocation moves a row that was put,
\* whatever was deleted before it.
ReadyIsStored ==
    \A col \in Columns : \A i \in ready[col] :
        shardOf[i] # Nowhere => i \in table[shardOf[i]][col]

\* No consumer gets the data of a row twice, unless the row was deleted while a sampler
\* stood between its two reads of the manager's sets: a deletion makes a row unready
\* before it forgets who consumed it, and that leaves only this moment.
HandedOutOnce == \A cr \in again : cr[2] \in raced

\* A consumer loses rows it was dealt, or the results it computed for them, only
\* together with a row deleted in that moment: else every row a sampling call marks
\* consumed has a shard and its data, until the worker is done with it.
LostOnlyByRace == \A rows \in lost : rows \cap raced # {}

\* When a train rank waits at the barrier with its batch, every other rank has its
\* batch or is about to get it: none was refused and is back at the all_reduce, where
\* the two collectives would wait for each other for ever.  The count that all ranks
\* act on is the least, and the rank that deletes last counts no deleted row.
RanksMeet ==
    \A w, v \in TrainRanks :
        pc[w] = "process" => pc[v] \in {"sample", "mark", "route", "fetch", "process"}
==============================================================================
