# Verification of the static weight cache plugin

The static weight cache keeps the weights of a model resident in the host memory
of one server, so that inference engines fetch them over the network instead of
reading a shared disk again. This directory holds TLA+ specifications of the
plugin (`src/static_weight_cache`), of its bandwidth bench (`src/bench/nfs_scan.py`)
and of the queue of one vendored recipe (`src/verl-recipe/async_flow`), the TLC
configurations that check them on small instances, and proofs for TLAPS.
`PROJECT.json` maps every definition to the lines it models.

## The system

| part | state it keeps | operations |
|---|---|---|
| **Host pool** `host_mem_manager.py` | `_pool_owner` (over-allocated buffer), `_pool` (its aligned part), `_next_offset`, `_next_bucket_id`, `_allocations`, `_locked` | constructor (align, mlock), `allocate_bucket`, `write_bytes`, `get_bucket`, `get_registered_regions`, `stats`, `close` |
| **Model manager** `model_manager.py`, records of `protocol.py` | `_models`; during a load, the open bucket, its offset and its tensor index | `load_from_named_tensors`, `load_safetensors_dir`, `get_model`, `list_models`, `get_model_buckets` |
| **Server** `server.py`, `net_utils.py` | `_stop`, control socket and thread, data backend, pool, manager | `start`, `load_model`, `handle_query`, `_serve_control_loop`, `stop`, `serve_forever`, `main` |
| **TCP data plane** `transfer_backend.py` | server: `_regions`, `_stop`, listener, accept thread, a handler thread per connection; reader: `_peers` and a lock per peer | `start`, `register_regions`, `_accept_loop`, `_serve_conn`, `_is_served`, `read`, `_peer`, `close` |
| **Mooncake data plane** `transfer_backend.py` | an engine of the mooncake library | the same interface, forwarded |
| **Client** `client.py`, `checkpoint_engine.py` | backend, `recv_buf`, a zmq REQ socket per query | `receive_weights`, `_query_weight_info`, `_resize_recv_buf`, `close` |
| **End-to-end bench** `e2e_vllm_load.py` | the server process, the probe loop | `_wait_ready`, `_probe`, measurements |
| **NFS scan** `nfs_scan.py` | partitions, streams, a start barrier, a result queue | `build_partitions`, `assign_balanced`, `read_work`, `run_once` |
| **TransferQueue** `async_flow/utils/transfer_queue` (vendored) | manager: rows, shards, groups, ready and consumed sets; shards: tables | allocation, put, sampling, get, deletion |
| **Other vendored recipes** `src/verl-recipe` | third-party training code; the plugin calls none of it | |

How they interact. The main thread of the server builds the pool, starts the
data plane (a listener on a port the kernel picks), then the control plane (a zmq
REP socket on a configured port, one thread), and only then loads a model. A
load draws tensors one at a time from a lazy source, packs them into buckets
carved from the pool, publishes the metadata in `_models`, and afterwards
registers each bucket's address range with the data plane. A client sends one
query on the control plane, is told the data port and the buckets' raw
addresses, and reads bucket after bucket over one cached TCP connection, cutting
tensors out of what it received. Main thread, control thread, accept thread and
handler threads share `_models`, `_regions` and the pool with no lock between
them. `stop()` sets a flag for each of the two planes, closes the socket their
threads block in, and sets the attribute to `None`.

The scan bench is a program of its own: `run_once` cuts the files of a model into
partitions, deals them to streams (threads or processes), lets the streams start
together at a barrier and adds up what they report. The TransferQueue is an actor
that numbers rows, places them on shards and deals them out to the ranks of two
teams of workers.

### What is hard

* **Interleaving.** Publication and registration are two steps, and registration
  is one step per bucket; the control thread answers, and handler threads serve,
  between any two of them.
* **Stale addresses.** Addresses handed out by one server process mean something
  else in the next: every process carves the same offsets again, for whatever it
  loads.
* **Failure half way.** A load may stop with buckets carved, because the pool is
  full or a file cannot be read. A read may be rejected, a connection may die
  while it is cached, a server may go down with a query in its queue.
* **No timeouts.** Neither the query nor the read has one.
* **Boundaries.** Requests are rounded up to an alignment that divides neither the
  pool's capacity nor the configured bucket size; tensors are oversize by one
  comparison and fit by another; tensors may be empty or repeat a name.
* **Shutdown.** `stop()` closes and unsets what other threads are using, at any
  step of their loops; one bad request ends a thread; a blocked `accept()` or
  `recv()` does not see the flag.
* **Threads that end.** The accept thread may leave its loop in a server that goes on;
  the kernel still makes the connections that nobody will serve.
* **Barriers.** A scan stream that fails, times out, is killed or merely finishes
  first changes what the others see at the start barrier; a train rank of the
  recipe that is refused its share would leave the others at theirs.
* **Sets read one after the other.** The queue's samplers read the ready rows and
  then the consumed rows; a deletion changes both, without the samplers' lock.
* **Aliasing.** The tensors a client yields are views of a buffer it overwrites.

Every such hazard, with its line, is in `PROJECT.json`; the ones no property
covers say why.

### What makes each part correct

* Pool: buckets never overlap or run past the buffer that was allocated, are
  aligned whatever address the allocator returned, never move, and a write reaches
  one bucket only.
* Manager: what can be read back from the metadata is exactly what the stream
  denotes; a model appears whole or not at all; no later or failed load disturbs it.
* Data plane: only ranges of published models are served; a read is answered or
  fails while there is a thread to serve its connection.
* Server and client: a client gets the model it asked for or an error, never a
  mixture; it does not hang while the server lives; the disk is read once per model.
* Lifecycle: no query but one bad kind ends the server, what a loop logs as a failure
  is one, a stop returns, and little can still be served after it.
* Scan: partitions are disjoint and cover the model but for broken blocks, a row is
  never short of what was planned, and a failure never leaves a stream waiting.
* Queue: a row offered is a row stored, nobody gets a row twice or loses one but in
  one moment that can be named, and the ranks meet.

## The modules

### HostMem — the pool

One variable per field of `HostMemManager`; `pool` is the pool byte by byte.
`HostInit` is the constructor, the address `torch.empty` returns being any of
`RawPtrs`. `AllocateBucket` and `WriteBytes` carry the code's guards; `Close`
unlocks. A call that raises changes nothing and is no step. `Carve` and `Written`
are the effects the manager uses as well.

### HostMemProofs, ModelManagerProofs, WeightCacheProofs, LifecycleProofs, TcpTransferProofs, NfsScanProofs, TransferQueueProofs, Sums — theorems

One module of proofs per model, each of which extends its model; `Sums` has the laws of
finite sums that the last two need. See *What is proved*.

### Catalog and ModelManager — packing

`ModelManager` extends `HostMem`. Its variable `load` holds the locals of
`load_from_named_tensors`; one action per way a tensor may go: appended to the
open bucket (`PackIntoCurrent`), into a bucket cut for it (`PackIntoNew`), into a
bucket of its own (`PackOversize`), or onto a full pool (`PoolExhausted`).
`SourceFails` is the lazy iterator raising and `Publish` the end of the stream.
Flush, allocation and copy of one tensor are one step because one thread does
them and no other thread can see the result before `Publish`.

`Catalog` is the abstract specification, with no memory in it: a catalog maps a
model to the contents its stream denotes, the last tensor of a name winning.
`ImplementsCatalog` is the refinement. Its mapping reads each published model
back as a client does: address, offset and length from the metadata, bytes from
the pool.

### WeightCache — server and clients, concurrently

Loader thread, control thread, one handler per client connection and the clients
interleave freely. A bucket is a unit here: address `a` is the `a`-th bucket of
the pool and its content is `<<m, i>>`, the `i`-th bucket of model `m`; the
modules above have the bytes. `Crash` loses the server's memory and closes its
connections, and loses any of the messages in flight or none; `Start` begins a
new process at the same control port and an unused data port.

| state | code |
|---|---|
| `port` | the data backend's port, part of every answer (`handle_query`) |
| `memory`, `models`, `regions` | `_allocations` and the pool, `_models`, `TcpTransferBackend._regions` |
| `loader` | where the main thread is in `load_model`: reading, or registering with `todo` left |
| `queries`, `answers` | the REP socket's queue and the replies on the network |
| `peers` | the client backend's `_peers`: port, and whether the connection is still open |
| `call`, `wire` | the generator `receive_weights`, and what is on the connection it reads |
| `usedPorts`, `rejected`, `outcome` | history, read by the properties only (`usedPorts` also by `Start`) |

### TransferSpec and TcpTransfer — the data plane by itself

`WeightCache` takes a read as one request and one reply of one client.
`TcpTransfer` opens that up: several threads of one process share a backend, its
cache of connections (`_peers` under `_peers_lock`) and each connection (under
its lock); several peers serve, with a thread per connection.

| state | code |
|---|---|
| `regions`, `server` | a peer's `_regions`; its `_stop` flag, and the end of its process or host |
| `accepting` | whether a peer's accept thread is alive |
| `conns` | every connection: the cells on their way each way, where the handler is and what it has of a header, whether this process has closed its end |
| `peersTable`, `peersLock`, `connLocks` | `_peers`, `_peers_lock`, the lock in each entry |
| `closing` | what `close()` of the reading side has taken out of `_peers` and not closed yet |
| `reader` | the locals of `read` and where it is |

A stream is a sequence of cells. A header is `HeaderCells` of them, of which the
first says what it says; a payload has one per byte. `RecvHeader`, `RecvPayload`
and `HandlerRecv` take any number of the cells that have arrived, once round the
loops of `_recv_exact` and `_recv_into_exact`. `close()` on the reading side is
`SwapPeers`, which empties the cache under its lock, and then a `CloseConn` for each
connection that was in it, without the lock and between any two steps of the threads
that read. On the serving side `StopServing` is the flag that `close()` sets. `Die` is
the end of a peer, told by TCP (`"closed"`) or not (`"silent"`), with any suffix of
what it had sent lost.

A connect is made by the kernel of a peer that listens (`ConnectPeer`); the connection
waits in the backlog until the accept thread takes it (`Accept`). That thread ends
after a stop (`AcceptEnds`), when `accept()` fails (`AcceptFails`: logged, and the
listener stays open), or when the handler's thread cannot be started
(`HandlerUnstarted`). The kernel resets what is in the backlog when the listener goes
(`ResetConn`).

`TransferSpec` is the promise: a read is granted or refused at one moment by what
is registered then, returns exactly the bytes of the range when granted, and may
fail. `ImplementsTransfer` is the refinement; `verdict`, set when the handler
decides, is the history it needs.

### ServerLifecycle — the server's threads

`WeightCache` takes the end of the server as one step. `ServerLifecycle` takes
`start` and `stop` apart, and every loop that runs beside them, at the grain of
one attribute read: a loop looks at its flag, reads the attribute that holds its
socket, and blocks in it, in three steps, and `stop()` sets, closes and unsets in
three steps of its own.

| state | code |
|---|---|
| `main`, `embedded` | the main thread's next line; whether it runs `main()` (whose process ends) or a program that goes on and later drops the server |
| `_stop`, `socket`, `control` | `WeightCacheServer._stop`, `control_socket`, where `_serve_control_loop` is |
| `query` | each query from the client's send to its reply, or to where it was lost |
| `dataStop`, `listener`, `accept` | `TcpTransferBackend._stop`, `_listener`, where `_accept_loop` is |
| `conn` | each connection: where `_serve_conn` is, its requests, its client's end; `late`, `afterStop`, `afterDrop` are history |

Each thread has a step from its start to its loop, the `assert` that there is a socket
(`ControlBegin`, `AcceptBegin`), which `stop()` may come before. A thread ends
`"stopped"`, `"failed"` when it logs an error first, or `"died"` of an error nobody
catches. `accept()` may fail at any time, and so may the start of a handler.

Of the repository's programs only the smoke test embeds the server; the end-to-end
bench runs it as a process of its own, and so does `main()`.

Three facts about the calls come from outside the repository. What a zmq receive
does when another thread closes its socket is undefined: it fails or never returns
(`ControlRecvFails` has no fairness). On Linux closing a listening socket does not
wake a thread that is in `accept()`, and the kernel listens until that call
returns, so that `AcceptConn` may still take one connection. A REP socket that is
open, without a timeout, and used in turn raises no `ZMQError`.

### NfsScan — one point of the bandwidth sweep

The plan is pure: `build_partitions` and `assign_balanced` as operators over the
file sizes, in bytes, with the alignment a constant. A stream is `read_work` with
Python's barrier opened up: the last to arrive releases it, the others leave as
they wake, and an abort breaks it for whoever has not left. `main` is `run_once`,
as a join of threads in order with a sum at the end, or as a queue of results of
processes; both with their timeouts.

| state | code |
|---|---|
| `sizes`, `total`, `plan` | the files, the limit, `assign_balanced(build_partitions(...))` |
| `direct` | whether the file system refuses an offset that is inside a block |
| `barrier`, `stream`, `at`, `nbytes`, `failed` | the barrier; where a stream is; the pass, partition and offset in it that it reads next; `StreamResult` |
| `main`, `taken`, `sum`, `late` | where `run_once` is, whom it has joined or heard of, `total_bytes`, joins that timed out (history) |

### TransferQueue — the queue of the async_flow recipe

The manager's calls, the shards' and the clients' steps interleave as the actors
let them: a sampling call holds the lock of its consumer and is two steps
(`Sample` reads the ready rows, `Mark` the consumed ones); a deletion is four, and two
more for each group it empties, and holds no such lock. Allocation by uuid, put, get and deletion by rows are
modelled with the workers that call them: agent loops that put a group, forward
ranks that read and put log probabilities, train ranks that agree on a count by
all_reduce, sample, meet at a barrier, train and delete.

A put is two steps while it holds the allocation's lock, which no deletion takes:
`Allocate` places its groups and enters its uuid, `Number` looks the uuid up for its
rows and raises if a deletion removed it, with the groups placed and `max_cur_index` as
it was. A deletion that finds one of its rows without a shard raises at once
(`Unready`). For each group it empties it lists uuids (`Ungroup`, `Listed`), all of
them as the code has it, and deletes them one by one (`Forget`), and either raises
when another rank changed the dictionary meanwhile. A rank that raises is out of its
loop (`Fails`). The listing is taken as one look and a comparison of sizes at its end,
which is what Python compares.

| state | code |
|---|---|
| `shardOf`, `groupIds`, `nextGroup` | `global_idx_to_shard`, `group_ids_per_shard`, the group after `max_cur_index` |
| `ready`, `consumed` | `experience_ready`, `experience_consumed` |
| `uuids`, `forget` | `uuid_to_group`, a uuid being named by the group it was put for; `uuids_to_remove` of each rank |
| `put` | where the put of each group is |
| `table` | what each shard stores |
| `pc`, `snapshot`, `count`, `batch`, `jobs` | the locals of each worker's calls |
| `received`, `again`, `lost`, `raced` | history |

Definitions whose comment says *faulty variant* are not part of any
specification. They are how a plausible bug would read, and each property has one
that breaks it.

## The runs

| run | configuration | what it checks |
|---|---|---|
| `host_pool` | `MCHostMem` | pool of 7 bytes, alignment 3, four allocator addresses: every sequence of allocations, writes and close |
| `packing` | `MCModelManager` | buckets of 3 bytes rounded to 4 in a 15-byte pool, two models, up to three tensors each of four kinds |
| `tensors_viewable` | `MCViewable` | finding: tensors at offsets their dtype cannot be viewed at |
| `cache_system` | `MCWeightCache` | safety of two clients, two models, one restart, two calls each |
| `cache_liveness` | `MCWeightCacheLive` | liveness of two clients, one model, one restart, one call each |
| `tcp_framing` | `MCTcpTransfer` | safety of two threads on one peer, three reads, two connections, headers in two pieces |
| `tcp_liveness` | `MCTcpTransferLive` | liveness of two threads and two peers, one of which may fail, three reads |
| `lifecycle` | `MCServerLifecycle` | main, control, accept and two handler threads, one decodable and one bad query, two connections |
| `bad_request` | `MCBadRequest` | finding: one bad request ends the control thread |
| `nfs_scan` | `MCNfsScan` | up to three streams, four models, threads and processes, failures, kills, timeouts |
| `transfer_queue` | `MCTransferQueue` | two shards, three groups of two rows, two forward and two train ranks |
| `probe_readiness` | `MCProbe` | finding: an ok answer before the buckets are readable |

**host_pool.** `BucketsTile` (end to end, inside the pool), `BucketsRegistrable`
(aligned and inside the owner buffer), `LockStaysInOwnerBlocks` (mlock rounds its
length up on its own, and still stays in the blocks the buffer touches),
`UsedIsRightEdge`, `WriteIsolation`, `AllocationsAreForever`. A capacity that is
no multiple of the alignment, requests from 1 byte to the whole pool and every
residue of the raw address are the boundary cases; two data values are enough to
tell one write from another.

**packing.** `BucketsOwnedOnce` (no bucket is listed twice or stays open once it is
listed), `AdvertisedIsAllocated` (what clients are told is what will be
registered), `UsedIsRightEdge` again, and `ImplementsCatalog`. The four tensors
are a small one, an oversize one that would fit the rounded bucket, one that fits
after it and an empty one; two of them share each name, so names repeat within a
bucket, across buckets and across a failed load. The pool has room for three
buckets, so the second load may run out half way through.

**cache_system.** `NoWrongBytes`: what a client holds is a prefix of the model it
asked for and the whole of it when the call ends well, though the second server
process may put the other model at the same addresses. `OnlyPublishedIsServed`;
`RejectedOnlyWhileRegistering`; `BrokenOnlyAfterRejection` (a call on a live
server breaks only on the connection an earlier rejection closed, which stays
cached for good); `PublishedIsReadOnce`. One model has two buckets and the other
one, the pool has three: a retry after a failed load finds it full. Two ports are
one restart, which is enough for an address to be reused, for a cached connection
to be stale and for an answer to outlive its server.

**cache_liveness.** `EveryCallEnds`: a call ends unless the server is down or the
query was swallowed by a server that went down (`SwallowedOnlyByCrash` shows
nothing else swallows one). `PublishedGetsServed`: registration finishes.
No symmetry reduction is used there.

Fairness is weak and only on threads that are running: the loading thread within
a load, the control thread for each waiting query (zmq hands them out fairly),
each connection's handler, each client within a call. Python threads and sockets
justify that. Nothing obliges anyone to start, load, ask, abandon, crash or
restart.

**tcp_framing.** `ImplementsTransfer`; `CleanBetweenReads` (a connection whose lock
is free carries nothing of an earlier read, which is all that matches replies to
requests); `OpenIsOwned` (a connection that is open is in the cache, or `close()` has
taken it out and has yet to close it: threads that miss the cache together do not open
two and lose one, and a second one to the same peer exists only between the two steps
of `close()`); `OneMoreAfterStop` (a closed server serves one more read per
connection, and no more). Three reads are a read, one that shares its
connection and one after either has failed; two connections are a reconnect after
`close()`. The two regions are adjacent and one of the two ranges straddles them,
which `_is_served` refuses.

**tcp_liveness.** `EveryReadEnds`: a read ends unless nobody is there to
answer it (`NobodyAnswers`): the host it reads from is gone without a word, or the
accept thread of a server that is up failed before it took the connection, or failed to
start its handler. A stop, a refusal and the end of a process leave nobody
waiting, not even those in the backlog. The second peer never fails, so that the run
shows that a thread stuck on the first, or holding the cache's lock across a connect, does
not stall readers of the second for good. `close()` of the reading side is left out
here: all it does to a read is to make it fail, and `tcp_framing` has that.
Fairness is weak, on each thread that reads and on each connection's handling, which
includes that a living accept thread takes what is in the backlog and that the kernel
resets it when the listener goes; nothing makes an accept thread fail, or a stopped one
that is blocked wake up.
Python's locks are not first come first served, but with finitely many reads a
lock is free for good in the end unless its holder is stuck, which is the question.
A connect ends by its 30 s timeout; a receive has none.

**lifecycle.** `BadRequestEndsIt`: before `stop()` the control thread ends when it
receives a query that does not unpickle, and for no other reason: unknown models,
queries during the load and replies nobody takes do not end it, and the query that does
takes no other one with it. (That it does end it is finding 3, run `bad_request`.) `FailuresAreReal`
goes through the ways in which a step can end one of the two loops. The control loop
logs no failure at all; the accept loop logs one only if `accept()` failed on a listener
in use, before the flag; and an error that nobody catches is a bad request, a handler
that cannot be started, or the attribute that `stop()` has unset.
`StopReachesConnections`: after the data plane's flag is set at most one connection
is accepted, it is never served, and each older one is served one more read at most;
that read is the only one that may find the pool freed, in a program that embeds
the server and drops it. (It can: the property bounds the damage, it does not say
there is none.) `StopReturns`: `stop()` returns though clients neither take replies
nor close. One connection makes two requests, so that one can be under way and one
to come when the flag is set; the other is there to be accepted late. Fairness is weak and on
the steps of `stop()` alone: nothing it waits for may depend on another thread.

**nfs_scan.** `PlanCoversModel`: partitions lie in their files and below the limit,
do not overlap, miss less than two blocks at each edge of a file or cut and nothing
of files of whole blocks, and leave no stream behind another by more than one
partition. `RowIsComplete`: a row counts every byte the streams could read, in every
pass, whatever failed or was killed and when; only a join that timed out makes it
say less. `ScanEnds`: no failure leaves the others at the barrier, without help of
a timeout, unless a process is killed. The models have whole blocks, a second file
that begins inside a block, a file smaller than a block and fewer blocks than
streams; blocks are two bytes, chunks two blocks and passes two, so that a partition
takes several reads and a stream starts over. Streams 1 and 3 may fail: a first, and
a last, with one between. Fairness is weak, on each stream and on
`run_once`, never on a timeout.

**transfer_queue.** `ReadyIsStored`: a row that is offered and has a shard is in that
shard's table. `HandedOutOnce` and `LostOnlyByRace`: no consumer gets a row twice or
loses rows it was dealt, but together with a row deleted while a sampler stood
between its two reads. `RanksMeet`: no train rank is back at the all_reduce while
another waits at the barrier. They hold although a put may raise and be followed by one
with the same numbers, and a rank may raise in the middle of its deletion. Two groups of
two rows are one training step of two ranks of two rows; the third group is put before or after they are deleted, which is
when group numbers and the shards' counts differ. Forward ranks go row by row,
so that one batch holds rows of two groups. Ranks of a team are interchangeable;
there is no liveness here, so the symmetry is sound. Deadlock is checked. An `ASSUME`
of `MCTransferQueue` checks that an allocation always finds a shard for its group,
for all counts up to five; `NewGroupsRight` proves it for all.

`CHECK_DEADLOCK FALSE` appears where every model is loaded and nothing more is
asked of the manager, where the threads have made their last read, where a server
has stopped and where a scan has ended; the cache system and the queue always have a
step.

### Findings

1. **Offsets are not aligned to the item size** (`model_manager.py:160`). A
   two-byte tensor after a one-byte one is packed at an odd offset; the client's
   `.view(dtype)` refuses it. The server loads, publishes and serves such a model.
2. **Answered before it is readable** (`model_manager.py:180`, `server.py:148`).
   The bench's probe takes an ok answer to mean that the server is serving. In the
   window between publication and registration a read is rejected, which closes the
   connection that the client keeps cached.
3. **One bad request ends the control thread** (`server.py:203`). The docstring of
   `handle_query` says that it cannot. The request is unpickled outside of
   `handle_query`, where only `ZMQError` is caught; with the thread `serve_forever`
   returns, and with `main()` the models in memory are gone.

### What the models show besides

These are consequences of the code as it stands that the properties above bound
or except. Where a comment says otherwise, it is named.

* **"Does not exist" during the load** (`server.py:119`). The docstring of `start()` gives
  avoiding that answer as the reason for starting the control plane before
  loading (line 116); starting it first is what makes the answer possible.
* **A stop is not always quiet** (`server.py:203`). The comment at line 206 says that the
  loop gets to its handler of `ZMQError` when `stop()` closes the socket, and that this is
  not to be recorded as an error. After closing it, `stop()` sets the attribute to `None`
  (line 135), and a loop that comes to use it then dies of an `AssertionError` or
  `AttributeError` that nobody catches, with a traceback. The accept loop has the same gap.
* **A comment on `accept()`** (`transfer_backend.py:240`): closing the listener is
  said to unblock `accept()`. On Linux it does not; `StopReachesConnections` is what
  remains true.
* **A deletion races a sampling call** (`tq_mgr.py:661`): in the moment `raced` records,
  a consumer may be dealt a row again, or rows that are gone. The comment at
  `data_dispatch_strategy.py:157` on what a sampling call guarantees holds outside it.
* **An accept thread that ends** (`transfer_backend.py:264`, `267`) leaves the listener
  open in a server that is up: connections are made, and their readers wait for ever.
* **Two connections to one peer** can be open while `close()` of the reading side is
  between lines 247 and 250.
* **A deletion forgets all uuids** (`tq_mgr.py:687`). `group_id` is bound anew in
  the comprehension that looks for the uuids of one group, and is compared with
  itself. With the recipe's use three things follow, all of them in the model: two ranks
  that delete at once get in each other's way, and the second raises `KeyError`
  (line 689) or `RuntimeError` (line 687); a put whose uuid is removed before its rows
  have numbers raises `KeyError` (line 1157); and groups that are still there have no
  uuid, against the comments at lines 681 and 686, which nobody notices as the recipe puts
  each uuid once.
* **A rank that raises in a deletion** (`tq_mgr.py:689`) is out of its loop, and the
  others wait for it in the next all_reduce, until the trainer looks at the workers'
  errors (`async_flow_trainer.py:399`).
* **A shard that fails a get** (`tq_client.py:736`) is skipped, and its rows stay
  consumed.
* **Partitions are not aligned** behind a file whose size is no multiple of the block
  (`nfs_scan.py:130`), though the cuts are rounded; with O_DIRECT on a file system
  that insists, such a point fails (`ReadRefused`).
* **A stream that is through before another has woken** breaks the barrier under it
  (`nfs_scan.py:235`): the point fails, as an error, though nothing was wrong.
* **A join that times out** is not noticed by the sum (`nfs_scan.py:341`); what
  notices it is the buffer that cannot be closed while its thread reads, unless the
  thread is through by then, which is the case `late` excepts.

## What is proved

### The pool (`HostMemProofs`)

For every capacity, alignment, set of allocator addresses and set of data values
(from `HostMemAssumption` alone: capacity and alignment are positive, addresses
are naturals, "nothing written" is not data) all the properties `host_pool`
checks: `TypeCorrect`, `Tiling`, `Registrable`, `LockSafe`, `RightEdge`,
`Isolation`, `Forever`.

The inductive invariant is `HostInv`: the type invariant, `BucketsTile`,
`Aligned` (frontier, offsets and capacities are multiples of the alignment),
`UsedBounded` and `UsedIsRightEdge`. `BucketsTile` alone does not give
registrability: that a bucket's address is aligned needs every earlier capacity
to be, which is `Aligned`; and a write keeps `UsedIsRightEdge` only because
buckets tile, so that the byte it lands on belongs to no other bucket. Below it
are the facts about `AlignUp` (a multiple, not below its argument, less than one
alignment above it) and about division and remainder, which the provers do not
have. `LockSafe` is arithmetic on top of the type invariant.

### The concurrent cache (`WeightCacheProofs`)

For any clients, models, bucket counts, pool size, ports (hence restarts) and
number of calls, from `CacheAssumption` alone, all the safety that `cache_system`
and `cache_liveness` check: `CacheTypeCorrect`, `RightBytes` (no wrong bytes),
`ServedIsPublished`, `RejectionWindow`, `BreakCause`, `ReadOnce`,
`SwallowedByCrash`.

None of these is inductive. `CacheInv` has a server's part and a part for each
client:

* `PublishedWhole`: every published model has all its buckets and each address
  holds the bucket it is listed for. The loader needs the same of what it has read
  so far (`ReadingLoader`), and that the model is not published yet, or publishing
  could overwrite a model whose regions are served.
* `RegisteredOrTodo`: a published address is readable or still on the loader's
  list; with `RegisteringLoader` this is what confines rejections to the window.
* `Told`, the clause that joins the two sides: what a client was told on the
  *running* server's port is what that server has published. About any other port
  nothing is claimed but the number of buckets, and nothing need be, because a
  request only travels on a connection to the running port (`WireInv`,
  `PeersInv`). That is the whole argument why reused addresses do no harm, and it
  rests on a port never coming back: `Start` makes `Told` vacuous for everybody.
* `WireInv`: bytes on a connection are the next bucket of the model its client
  wants. `PeersInv`: an open cached connection leads to the running port, and a
  dead one to that port was rejected.

Each action has a lemma. A step of the server either goes on (`ServerGoesOn`:
ports keep their meaning, published models stay), which every client's part
survives (`ClientFrame`), or is a crash. A step of one client leaves the server
and the other clients alone (`ClientStep`).

### Packing (`ModelManagerProofs`)

For any bucket size, alignment, pool, tensors, models and sequences of loads, from
`HostMemAssumption` and the manager's assumption: `ManagerTypeCorrect`,
`AdvertisedRight`, `OwnedOnce`, `PackedRightEdge`, `UsedBytesAreFinal` and
**`CatalogImplemented`**, the refinement of `Catalog`: all that `packing` checks. The
module extends `HostMemProofs` and uses its facts about `Carve` and `Written`.

`ManagerInv` has three parts: the pool's type invariant, `ModelsOK` and `LoadOK`.
`AdvertisedIsAllocated` is not inductive because the bytes of a bucket may still
change after its metadata was written, unless nobody writes to it: so `LoadOK` says
that the open bucket is on no list, of the load or of a published model, and
`Apart` that no bucket is on two lists, which `OwnedOnce` then reads off. A new
bucket is on no list because its id is not in the allocation table yet and every
listed one is (`Right`).

For the bytes, `SpaceInv` adds that buckets lie apart in the order of their ids and use
no more than they have (`Placed`), and that the table knows of the open bucket what the
load does (`OpenUsedRight`), so that flushing changes nothing in the table. Then every
copy lands past what any bucket uses, in the open one or beyond the frontier
(`CurrentIsFresh`, `NewIsFresh`), and no byte in use is ever written again:
`UsedBytesAreFinal`. What right metadata points at therefore reads the same for good
(`ReadStays`), whatever is loaded or abandoned later.

The refinement needs to know what a load in progress amounts to. `LoadRenders` says it
of the list the load would publish if it were flushed now: the list has the names that
were given, and the last entry of each name reads as the last tensor given under it
(`Renders`). A tensor drawn adds one entry at the end of that list, or replaces one in
its last bucket; `RendersMore` covers both, so the three ways to pack differ only in
where the bytes are. A read of the whole list is then what the catalog calls `Denoted`
(`RendersDenoted`), which is what `Publish` has to enter. `BeginLoad` maps to `Begin`,
a tensor that is packed to `Supply`, both ways to fail to `Abandon`. No induction over
buckets is needed, because the invariant names the last bucket of each name. Before it
was proved it was checked by TLC on `packing`.

### The server's threads (`LifecycleProofs`)

For any queries, connections and numbers of requests: `LifeTypeCorrect`,
`ControlThreadLives`, `StopIsUnderstood`, `StopBoundsService`.

`LifeInv` has two halves, so that a step of one plane leaves the other's alone.
`ControlInv`: the socket is closed or unset only when `_stop` is set, which is what
the loop asks when it fails; with that, `StopIsUnderstood` goes through the steps that
end a loop. `ControlThreadLives` needs that the thread, unless stopped, has died of a
query it received and holds none. `DataInv` says the same of the listener, and what makes
the bound on late service inductive: a connection that was accepted late, or served
once after the flag, has its handler at the top of its loop or gone (`ServedOK`), and
while there is a late one the accept thread is not in or before `accept()` (`LateInv`).

### The data plane (`TcpTransferProofs`)

For any threads, peers, regions, ranges, headers of any length, reads and
connections, from `TransferAssumption`: `TcpTypeCorrect`, `CleanHandover`,
`OneConnection` (`OpenIsOwned`), `StopTakesEffect`, and **`TcpImplementsTransfer`**, the refinement of
`TransferSpec`.

Everything follows from one picture of a locked connection (`Exchange`): either its
holder's request is on its way, in the stream and the handler's header together,
and nothing has come back (`Asked`); or the request is gone, and what the holder has
received followed by what is in the stream is a prefix of the one answer to it, and
the whole of it while the handler lives (`Answered`, `Agrees`). The answer is given
cell by cell (`Cell`), so that receiving a piece moves the border between received
and stream and changes nothing else. A connection that is open and not locked carries
nothing (`Clean`), and since a lock passes only when the exchange is complete or the
stream has ended, the next holder starts clean. That a handler that decides
finds the request of the thread that waits, and no other, is `DecisionPoint`. A
connection in the backlog, or unserved, is one whose handler has not begun: it holds no
header and decides nothing, so that taking or resetting it leaves the picture as it is.

For the refinement, `OpOf` maps a reader's locals to its abstract read. The
handler's decision maps to a grant or a refusal if its reader still waits, and to a
stutter if it has given up; the last byte to a completion, the status word of a
refusal to a rejection, every error to a failure, and all the rest to a stutter.
`TransferSpecification` has no fairness, so this is the whole of `ImplementsTransfer`.

### The queue (`TransferQueueProofs`)

For any shards, workers, rows per group, groups and shares, from `QueueAssumption`
alone, everything `transfer_queue` checks: `QueueTypeCorrect`, `ReadyRowsStored`,
`RowsHandedOutOnce`, `RowsLostOnlyByRace`, `TrainRanksMeet`.

`QueueInv` is built in layers, each of which rests on those before it:

* `WorkInv`: shapes; which steps a worker can be at (`OwnSteps`); that one member of a
  team at most stands between its two reads, which is what the consumer's lock is for
  (`OneReads`); that the requests of a call are for its batch, at the stage of the call,
  for different rows (`JobsFit`).
* `PutInv`: how far the put of each group is, and that its rows are untouched until it
  is reported.
* `StoredInv`: `ReadyIsStored`, with the same of the rows a request is about to report.
  It rests on the new groups of different shards being disjoint and among them the group
  that is put (`NewGroupsRight`), which is a fact about sums of `Needed` over the shards,
  whose targets add up to the total (`TargetsSum`).
* `TrainInv`: no two train ranks have a row (`HasInv`); all ranks gather or all poll and
  delete (`Phase`, the barrier and the all_reduce); the rows that are left suffice for the
  shares of the ranks without a batch, also as the snapshot of the one that samples has
  them (`TakeInv`); and while all poll, at least one does not
  count rows that are deleted, so that the least count, which they agree on, is of rows
  that are left (`PollInv`). `RanksMeet` needs all of this: a rank that found
  too few rows would go back while the others wait.
* `JobShards`, `FwdInv`, `ReceivedInv`: requests go to shards that exist; what a forward
  worker has is its own while the row is alive, and raced if it is not; what was
  delivered is consumed and was not delivered to the one that still waits for it.

`HandedOutOnce` and `LostOnlyByRace` are conjuncts of it.

The steps of a deletion that may raise are taken in two (`WorkerCases`): the one that
takes the rows off the manager (`Deletes`), and those that empty the groups, forget the
uuids or fail (`Leaves`). Of the latter `LeavesMove` says all that the invariant needs:
the rank's own requests get fewer, and it keeps its batch until it is done or has failed.
`UuidShape` is the conjunct on the uuids. That a put that raised may be repeated with the
same numbers is in `PutInv`: until a put has its numbers nobody else has rows of its group.

### The scan (`NfsScanProofs`)

For any files, limit, number of streams, block, chunk and number of passes, from
`ScanAssumption`: `PlanCovers` and `RowsComplete`, the safety of `nfs_scan`.

`build_partitions` cuts the files in a grid of cells, one per file and part. What the
cells have in common with the model telescopes to all of it (`CellsAreAll`); a cell keeps
all but two blocks of that, and all of it in files of whole blocks (`CellLoss`,
`WholeCells`); and cells that have any are fewer than files and parts together
(`FewCells`). That is the bound on what the plan misses. Partitions lie apart because
cells do. `assign_balanced` is a function on sets of partitions that deals the last of
them in LPT's order to the lightest stream, and `DealStep` shows that this keeps streams
within one partition of each other.

`RowInv` says where a stream is (`Place`) and that its counter is the bytes behind that
place (`Behind`: whole passes, whole partitions, and the offset in one), so that a stream
that ended without an error has read its plan `Repeats` times (`StreamInv`). `MainInv`
is what `run_once` knows: it has summed streams that ended, or whose join timed out.

### Sums (`Sums`)

Plan, loads and allocation are sums over sets. The sum operators of the community
modules are folds; that one more element adds its value (`SumRemove`), that sums are
monotone, split and add is proved here once. Induction theorems cannot be instantiated
with these provers, so a law that holds for every finite set is proved from a smallest
set that would break it (`LeastSet`), or a least number (`LeastNat`).

### Model-checked only

Liveness (`EveryCallEnds`, `PublishedGetsServed`, `EveryReadEnds`, `StopReturns`,
`ScanEnds`): fairness and `ENABLED` are beyond the prover. Every other property of the
passing runs is proved.

## What is not modelled

* Mooncake: a wrapper of an external engine. Of the network, TCP as reliable
  ordered streams that break, zmq REQ/REP as a queue that a crash may empty.
* On the data connection, the width of header fields and of `nbytes`, and socket
  tuning. A send is one step: a sender that blocks is a delay the other side sees.
* `recv_buf` and its aliases: a bucket is consumed before the next is read, as the
  consumer in `smoke_test.py` does by cloning. For one that keeps the views it is
  false by design that they stay intact.
* Logging, statistics, command lines, tensor dtypes other than their size.
* Of the queue: versions, samplers by criterion, whole-group sampling, shared columns,
  allocation in sequence and by given rows, topics, shards that fail, and a uuid that is
  put twice.
* Of the scan: `verify`, percentiles and output. Pinning is one more way to fail.
* The smoke test (it drives the parts above) and the measurements of the end-to-end
  bench.
* The rest of the vendored recipes. Nearly all lines of the repository are theirs:
  numerical training code (losses, advantages, rewards), launch scripts and wrappers
  of serving engines. What they do is arithmetic on tensors and calls of external
  frameworks; what state they keep across steps is the framework's. The plugin itself
  is two thousand lines of these, most of which are arguments, logging and I/O;
  its state changes are covered but for the exceptions above.

One assumption deserves a name: a data port is taken not to come back. If the
kernel handed a restarted server the port of the last one, addresses of the old
process would be accepted by the new one; the faulty variant `StartOnAnyPort`
shows `NoWrongBytes` fail.

## Plan

Done: the pool, packing, the concurrent server and clients, the data plane, the
server's threads, the scan bench and the recipe's queue; proofs of all their safety
properties and of both refinements. What would come next, in this order:

1. The composition of `ServerLifecycle` with `WeightCache`: a stop that takes several
   steps while loads and clients go on.
2. An abstract fetch service (a call returns a whole model of one incarnation or an
   error) implemented by `WeightCache`; `RightBytes` is its core already.
3. Versions and whole-group sampling in `TransferQueue`, and a shard that fails.
