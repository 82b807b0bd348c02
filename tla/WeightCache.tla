------------------------------ MODULE WeightCache ------------------------------
(***************************************************************************)
(* The cache server and its clients together: the loading thread, the      *)
(* control thread that answers metadata queries, one data-plane thread per *)
(* connection, the clients that query and then read bucket by bucket, and  *)
(* crashes and restarts of either side (server.py, client.py,              *)
(* transfer_backend.py with the tcp backend).                              *)
(*                                                                         *)
(* A bucket is a unit here: address a is the a-th bucket of the pool, its  *)
(* content <<m, i>> the i-th bucket of model m (HostMem and ModelManager   *)
(* have the bytes).  Every restart of the server begins with an empty pool *)
(* and carves the same addresses again, for whatever it loads then, so an  *)
(* address says nothing about the incarnation it was meant for; only the   *)
(* data port, which the kernel picks at start, does.  Ports are assumed    *)
(* not to recur; the number of ports bounds the number of restarts.        *)
(***************************************************************************)
EXTENDS Naturals, Sequences, FiniteSets

CONSTANTS
    Clients,      \* client processes: one StaticWeightCacheClient each
    Models,       \* the model ids somebody may load or ask for
    NoModel,      \* "nothing is being loaded"
    BucketNum,    \* model id -> the number of buckets its weights pack into
    PoolBuckets,  \* the buckets the pool has room for
    Ports,        \* the data ports the kernel may pick
    NoPort,       \* no server is running
    MaxCalls      \* bound: receive_weights calls of one client

ASSUME CacheAssumption ==
    /\ NoModel \notin Models
    /\ BucketNum \in [Models -> Nat]
    /\ PoolBuckets \in Nat
    /\ NoPort \notin Ports
    /\ MaxCalls \in Nat

VARIABLES
    port,      \* data port of the running server, NoPort when it is down
    usedPorts, \* history: the ports of the incarnations so far
    memory,    \* the pool: the content of each carved bucket, in order
    models,    \* ModelManager._models: model id -> addresses of its buckets
    regions,   \* TcpTransferBackend._regions of the server
    loader,    \* the load in progress: [phase, model, bases, todo]
    queries,   \* clients whose query the control thread has not answered
    answers,   \* client -> the answer on its way back
    peers,     \* client -> its _peers: port -> is the connection still open
    call,      \* client -> its receive_weights in progress
    wire,      \* client -> what travels on the connection it reads from
    calls,     \* client -> receive_weights calls made
    outcome,   \* client -> how its last call ended
    rejected   \* history: the <<client, port>> whose read was rejected

serverVars == <<port, usedPorts, memory, models, regions, loader>>
clientVars == <<peers, call, wire, calls, outcome, rejected>>
vars == <<serverVars, queries, answers, clientVars>>

NotLoading == [phase |-> "idle", model |-> NoModel, bases |-> <<>>, todo |-> <<>>]
NoCall == [pc |-> "idle", model |-> NoModel, port |-> NoPort,
           bases |-> <<>>, got |-> <<>>]

\* What may travel on a client's data connection.
Silent == [kind |-> "silent", content |-> <<>>]
ReadRequest == [kind |-> "request", content |-> <<>>]
Rejection == [kind |-> "rejected", content |-> <<>>]
Bytes(content) == [kind |-> "bytes", content |-> content]

Up == port # NoPort

\* f extended, or overwritten, at one key, as a Python dict assignment does.
With(f, key, value) ==
    [k \in DOMAIN f \cup {key} |-> IF k = key THEN value ELSE f[k]]

Without(f, keys) == [k \in DOMAIN f \ keys |-> f[k]]

-----------------------------------------------------------------------------
Init ==
    /\ port = NoPort
    /\ usedPorts = {}
    /\ memory = <<>>
    /\ models = [m \in {} |-> m]
    /\ regions = {}
    /\ loader = NotLoading
    /\ queries = {}
    /\ answers = [c \in {} |-> c]
    /\ peers = [c \in Clients |-> [p \in {} |-> p]]
    /\ call = [c \in Clients |-> NoCall]
    /\ wire = [c \in Clients |-> Silent]
    /\ calls = [c \in Clients |-> 0]
    /\ outcome = [c \in Clients |-> "none"]
    /\ rejected = {}

-----------------------------------------------------------------------------
(* The server's main thread: start, then load.                             *)

\* Faulty variant: the data port is fixed by configuration, as the control port is.
StartOnAnyPort ==
    /\ ~Up
    /\ \E p \in Ports :
           /\ port' = p
           /\ usedPorts' = usedPorts \cup {p}
    /\ UNCHANGED <<memory, models, regions, loader, queries, answers, clientVars>>

\* A new process: the data plane listens on a port of the kernel's choice, then
\* the control socket is bound; nothing is loaded.
Start ==
    /\ ~Up
    /\ \E p \in Ports \ usedPorts :
           /\ port' = p
           /\ usedPorts' = usedPorts \cup {p}
    /\ UNCHANGED <<memory, models, regions, loader, queries, answers, clientVars>>

\* Faulty variant: a model that is loaded already is loaded again.
BeginLoadAgain(m) ==
    /\ Up
    /\ loader = NotLoading
    /\ loader' = [phase |-> "reading", model |-> m, bases |-> <<>>, todo |-> <<>>]
    /\ UNCHANGED <<port, usedPorts, memory, models, regions, queries, answers,
                   clientVars>>

\* load_model of a loaded model raises ValueError, which is no step.
BeginLoad(m) ==
    /\ Up
    /\ loader = NotLoading
    /\ m \notin DOMAIN models
    /\ loader' = [phase |-> "reading", model |-> m, bases |-> <<>>, todo |-> <<>>]
    /\ UNCHANGED <<port, usedPorts, memory, models, regions, queries, answers,
                   clientVars>>

Reading == loader.phase = "reading"

\* Faulty variants: no look at what the pool has left, and a bucket registered as
\* soon as it is carved.
ReadBucketUnbounded ==
    /\ Reading
    /\ Len(loader.bases) < BucketNum[loader.model]
    /\ memory' = Append(memory, <<loader.model, Len(loader.bases) + 1>>)
    /\ loader' = [loader EXCEPT !.bases = Append(@, Len(memory) + 1)]
    /\ UNCHANGED <<port, usedPorts, models, regions, queries, answers, clientVars>>

ReadBucketRegistering ==
    /\ Reading
    /\ Len(loader.bases) < BucketNum[loader.model]
    /\ Len(memory) < PoolBuckets
    /\ memory' = Append(memory, <<loader.model, Len(loader.bases) + 1>>)
    /\ regions' = regions \cup {Len(memory) + 1}
    /\ loader' = [loader EXCEPT !.bases = Append(@, Len(memory) + 1)]
    /\ UNCHANGED <<port, usedPorts, models, queries, answers, clientVars>>

\* The next bucket of the model is carved and filled from the shared disk.
ReadBucket ==
    /\ Reading
    /\ Len(loader.bases) < BucketNum[loader.model]
    /\ Len(memory) < PoolBuckets
    /\ memory' = Append(memory, <<loader.model, Len(loader.bases) + 1>>)
    /\ loader' = [loader EXCEPT !.bases = Append(@, Len(memory) + 1)]
    /\ UNCHANGED <<port, usedPorts, models, regions, queries, answers, clientVars>>

\* The pool is exhausted or the source raises: the call ends unpublished, what
\* it carved stays carved.
LoadFails ==
    /\ Reading
    /\ Len(loader.bases) < BucketNum[loader.model]
    /\ loader' = NotLoading
    /\ UNCHANGED <<port, usedPorts, memory, models, regions, queries, answers,
                   clientVars>>

\* load_from_named_tensors publishes the metadata: from here on queries for the
\* model are answered.
Publish ==
    /\ Reading
    /\ Len(loader.bases) = BucketNum[loader.model]
    /\ models' = With(models, loader.model, loader.bases)
    /\ loader' = IF loader.bases = <<>> THEN NotLoading
                 ELSE [loader EXCEPT !.phase = "registering", !.todo = loader.bases]
    /\ UNCHANGED <<port, usedPorts, memory, regions, queries, answers, clientVars>>

\* Faulty variant: only the first bucket of a model is registered.
RegisterFirstOnly ==
    /\ loader.phase = "registering"
    /\ regions' = regions \cup {Head(loader.todo)}
    /\ loader' = NotLoading
    /\ UNCHANGED <<port, usedPorts, memory, models, queries, answers, clientVars>>

\* register_buckets then lets the data plane serve them, one after the other.
RegisterRegion ==
    /\ loader.phase = "registering"
    /\ regions' = regions \cup {Head(loader.todo)}
    /\ loader' = IF Len(loader.todo) = 1 THEN NotLoading
                 ELSE [loader EXCEPT !.todo = Tail(@)]
    /\ UNCHANGED <<port, usedPorts, memory, models, queries, answers, clientVars>>

\* The process ends, by a crash or by stop() and exit.  Its pool is gone and its
\* connections are closed; queries it had received, answers and bytes it had not
\* got onto the network are lost, any of them or none.
Crash ==
    /\ Up
    /\ port' = NoPort
    /\ memory' = <<>>
    /\ models' = [m \in {} |-> m]
    /\ regions' = {}
    /\ loader' = NotLoading
    /\ \E lostQueries \in SUBSET queries : queries' = queries \ lostQueries
    /\ \E lostAnswers \in SUBSET DOMAIN answers :
           answers' = Without(answers, lostAnswers)
    /\ peers' = [c \in Clients |->
                    [p \in DOMAIN peers[c] |-> peers[c][p] /\ p # port]]
    /\ \E lostBytes \in SUBSET {c \in Clients : wire[c] # Silent} :
           wire' = [c \in Clients |->
                       IF c \in lostBytes \/ wire[c] = ReadRequest
                       THEN Silent ELSE wire[c]]
    /\ UNCHANGED <<usedPorts, call, calls, outcome, rejected>>

-----------------------------------------------------------------------------
(* The server's control thread.                                            *)

\* Faulty variant: a query that fails is not answered.
AnswerKnownOnly(c) ==
    /\ Up
    /\ c \in queries
    /\ queries' = queries \ {c}
    /\ LET m == call[c].model IN
       answers' = IF m \in DOMAIN models
                  THEN With(answers, c, [ok |-> TRUE, port |-> port,
                                         bases |-> models[m]])
                  ELSE answers
    /\ UNCHANGED <<serverVars, clientVars>>

\* handle_query: the answer names the data port and the buckets' addresses, or
\* says that the model does not exist.
AnswerQuery(c) ==
    /\ Up
    /\ c \in queries
    /\ queries' = queries \ {c}
    /\ LET m == call[c].model IN
       answers' = With(answers, c,
           IF m \in DOMAIN models
           THEN [ok |-> TRUE, port |-> port, bases |-> models[m]]
           ELSE [ok |-> FALSE, port |-> NoPort, bases |-> <<>>])
    /\ UNCHANGED <<serverVars, clientVars>>

-----------------------------------------------------------------------------
(* The data-plane thread of the connection client c reads from.            *)

Wanted(c) == call[c].bases[Len(call[c].got) + 1]

\* _is_served: only registered ranges may be read.
IsServed(address) == address \in regions

\* Faulty variant: the handler serves one request and closes.
ServeOneRead(c) ==
    /\ wire[c] = ReadRequest
    /\ IsServed(Wanted(c))
    /\ wire' = [wire EXCEPT ![c] = Bytes(memory[Wanted(c)])]
    /\ peers' = [peers EXCEPT ![c][call[c].port] = FALSE]
    /\ UNCHANGED <<serverVars, queries, answers, call, calls, outcome, rejected>>

\* A registered range: the handler sends its bytes and waits for the next request.
ServeRead(c) ==
    /\ wire[c] = ReadRequest
    /\ IsServed(Wanted(c))
    /\ wire' = [wire EXCEPT ![c] = Bytes(memory[Wanted(c)])]
    /\ UNCHANGED <<serverVars, queries, answers, peers, call, calls, outcome,
                   rejected>>

\* Faulty variant: an unregistered range is ignored, the handler waits on.
IgnoreRead(c) ==
    /\ wire[c] = ReadRequest
    /\ ~IsServed(Wanted(c))
    /\ wire' = [wire EXCEPT ![c] = Silent]
    /\ UNCHANGED <<serverVars, queries, answers, peers, call, calls, outcome,
                   rejected>>

\* An unregistered range: status 1, and the server closes the connection.
RejectRead(c) ==
    /\ wire[c] = ReadRequest
    /\ ~IsServed(Wanted(c))
    /\ wire' = [wire EXCEPT ![c] = Rejection]
    /\ peers' = [peers EXCEPT ![c][call[c].port] = FALSE]
    /\ rejected' = rejected \cup {<<c, call[c].port>>}
    /\ UNCHANGED <<serverVars, queries, answers, call, calls, outcome>>

-----------------------------------------------------------------------------
(* A client.                                                               *)

\* receive_weights sends its query; a socket that is not connected yet keeps it
\* until there is a server.
Ask(c, m) ==
    /\ call[c].pc = "idle"
    /\ calls[c] < MaxCalls
    /\ calls' = [calls EXCEPT ![c] = @ + 1]
    /\ call' = [call EXCEPT ![c] = [NoCall EXCEPT !.pc = "asked", !.model = m]]
    /\ outcome' = [outcome EXCEPT ![c] = "none"]
    /\ queries' = queries \cup {c}
    /\ UNCHANGED <<serverVars, answers, peers, wire, rejected>>

\* The call ends; what it received stays for the properties to look at.
End(c, how) ==
    /\ call' = [call EXCEPT ![c].pc = "idle"]
    /\ outcome' = [outcome EXCEPT ![c] = how]

TakeAnswer(c) ==
    /\ call[c].pc = "asked"
    /\ c \in DOMAIN answers
    /\ answers' = Without(answers, {c})
    /\ IF answers[c].ok
       THEN /\ call' = [call EXCEPT ![c].pc = "fetching",
                                    ![c].port = answers[c].port,
                                    ![c].bases = answers[c].bases]
            /\ UNCHANGED outcome
       ELSE End(c, "unknown model")
    /\ UNCHANGED <<serverVars, queries, peers, wire, calls, rejected>>

Fetching(c) == call[c].pc = "fetching" /\ Len(call[c].got) < Len(call[c].bases)

\* _peer: the cached connection of the port if there is one, else a new one.
Cached(c) == call[c].port \in DOMAIN peers[c]

SendRead(c) ==
    /\ call' = [call EXCEPT ![c].pc = "reading"]
    /\ wire' = [wire EXCEPT ![c] = ReadRequest]
    /\ UNCHANGED <<serverVars, queries, answers, calls, outcome, rejected>>

RequestOnCached(c) ==
    /\ Fetching(c)
    /\ Cached(c)
    /\ peers[c][call[c].port]
    /\ SendRead(c)
    /\ UNCHANGED peers

Connect(c) ==
    /\ Fetching(c)
    /\ ~Cached(c)
    /\ Up /\ call[c].port = port
    /\ peers' = [peers EXCEPT ![c] = With(@, port, TRUE)]
    /\ SendRead(c)

\* Nothing listens on the port any more; nothing is cached either.
ConnectRefused(c) ==
    /\ Fetching(c)
    /\ ~Cached(c)
    /\ call[c].port # port
    /\ End(c, "refused")
    /\ UNCHANGED <<serverVars, queries, answers, peers, wire, calls, rejected>>

\* The cached connection was closed by the server: the request fails, and the
\* dead connection stays cached.
RequestOnDead(c) ==
    /\ Fetching(c)
    /\ Cached(c)
    /\ ~peers[c][call[c].port]
    /\ End(c, "broken")
    /\ UNCHANGED <<serverVars, queries, answers, peers, wire, calls, rejected>>

TakeBytes(c) ==
    /\ call[c].pc = "reading"
    /\ wire[c].kind = "bytes"
    /\ call' = [call EXCEPT ![c].pc = "fetching", ![c].got = Append(@, wire[c].content)]
    /\ wire' = [wire EXCEPT ![c] = Silent]
    /\ UNCHANGED <<serverVars, queries, answers, peers, calls, outcome, rejected>>

TakeRejection(c) ==
    /\ call[c].pc = "reading"
    /\ wire[c] = Rejection
    /\ wire' = [wire EXCEPT ![c] = Silent]
    /\ End(c, "rejected")
    /\ UNCHANGED <<serverVars, queries, answers, peers, calls, rejected>>

\* The connection went down under the read.
ConnectionLost(c) ==
    /\ call[c].pc = "reading"
    /\ wire[c] = Silent
    /\ ~peers[c][call[c].port]
    /\ End(c, "broken")
    /\ UNCHANGED <<serverVars, queries, answers, peers, wire, calls, rejected>>

Finish(c) ==
    /\ call[c].pc = "fetching"
    /\ Len(call[c].got) = Len(call[c].bases)
    /\ End(c, "done")
    /\ UNCHANGED <<serverVars, queries, answers, peers, wire, calls, rejected>>

\* The consumer drops the generator between two tensors.
Abandon(c) ==
    /\ call[c].pc = "fetching"
    /\ End(c, "none")
    /\ UNCHANGED <<serverVars, queries, answers, peers, wire, calls, rejected>>

\* The client process ends and a new one takes its place: no cached connection,
\* and an answer to a query of the old one goes nowhere.
RestartClient(c) ==
    /\ peers' = [peers EXCEPT ![c] = [p \in {} |-> p]]
    /\ call' = [call EXCEPT ![c] = NoCall]
    /\ wire' = [wire EXCEPT ![c] = Silent]
    /\ outcome' = [outcome EXCEPT ![c] = "none"]
    /\ queries' = queries \ {c}
    /\ answers' = Without(answers, {c})
    /\ rejected' = {r \in rejected : r[1] # c}
    /\ UNCHANGED <<serverVars, calls>>

-----------------------------------------------------------------------------
Loading == ReadBucket \/ LoadFails \/ Publish \/ RegisterRegion

Serving(c) == ServeRead(c) \/ RejectRead(c)

Receiving(c) ==
    \/ TakeAnswer(c)
    \/ RequestOnCached(c)
    \/ Connect(c)
    \/ ConnectRefused(c)
    \/ RequestOnDead(c)
    \/ TakeBytes(c)
    \/ TakeRejection(c)
    \/ ConnectionLost(c)
    \/ Finish(c)

Next ==
    \/ Start
    \/ \E m \in Models : BeginLoad(m)
    \/ Loading
    \/ Crash
    \/ \E c \in Clients :
           \/ \E m \in Models : Ask(c, m)
           \/ AnswerQuery(c)
           \/ Serving(c)
           \/ Receiving(c)
           \/ Abandon(c)
           \/ RestartClient(c)

Spec == Init /\ [][Next]_vars

\* Threads that can run do run: the loading thread inside a load, the control
\* thread (which takes its clients' queries in turn), each connection's thread,
\* each client inside a call.  Nothing makes anyone load, ask, crash or restart.
Fairness ==
    /\ WF_vars(Loading)
    /\ \A c \in Clients :
           /\ WF_vars(AnswerQuery(c))
           /\ WF_vars(Serving(c))
           /\ WF_vars(Receiving(c))

FairSpec == Spec /\ Fairness

-----------------------------------------------------------------------------
Addresses == 1 .. PoolBuckets

CacheTypeOK ==
    /\ port \in Ports \cup {NoPort}
    /\ usedPorts \subseteq Ports
    /\ memory \in Seq(Models \X (Nat \ {0})) /\ Len(memory) <= PoolBuckets
    /\ DOMAIN models \subseteq Models
    /\ \A m \in DOMAIN models : models[m] \in Seq(Addresses)
    /\ regions \subseteq Addresses
    /\ loader \in [phase : {"idle", "reading", "registering"},
                   model : Models \cup {NoModel},
                   bases : Seq(Addresses), todo : Seq(Addresses)]
    /\ queries \subseteq Clients
    /\ DOMAIN answers \subseteq Clients
    /\ \A c \in Clients :
           /\ DOMAIN peers[c] \subseteq Ports
           /\ call[c].pc \in {"idle", "asked", "fetching", "reading"}
           /\ wire[c].kind \in {"silent", "request", "rejected", "bytes"}
           /\ calls[c] \in 0 .. MaxCalls
           /\ outcome[c] \in {"none", "done", "unknown model", "refused",
                              "rejected", "broken"}

\* What a client has received is a prefix of the model it asked for, in order,
\* and the whole model when its call ended well, whatever was loaded, lost and
\* loaded again at the same addresses since it asked.
NoWrongBytes ==
    \A c \in Clients :
        /\ \A i \in DOMAIN call[c].got : call[c].got[i] = <<call[c].model, i>>
        /\ outcome[c] = "done" =>
               Len(call[c].got) = BucketNum[call[c].model]

\* The data plane serves only buckets of models whose loading has ended well,
\* and all of an address's bytes: nothing half loaded is ever readable.
OnlyPublishedIsServed ==
    \A a \in regions :
        \E m \in DOMAIN models : \E i \in DOMAIN models[m] :
            models[m][i] = a /\ memory[a] = <<m, i>>

\* The server rejects a read of a current client only in the window between
\* publishing the model and registering the last of its buckets: a client that
\* was given its addresses by this incarnation is otherwise always served.
RejectionIsEarly ==
    \A c \in Clients :
        (wire[c] # Rejection /\ wire'[c] = Rejection) =>
            loader.model = call[c].model /\ loader.phase = "registering"

RejectedOnlyWhileRegistering == [][RejectionIsEarly]_vars

\* A call on the running server breaks only on a connection that an earlier
\* rejection closed: the dead connection is cached for good.
BreakFollowsRejection ==
    \A c \in Clients :
        (call[c].pc = "fetching" /\ outcome'[c] = "broken"
             /\ call[c].port = port) =>
            <<c, port>> \in rejected

BrokenOnlyAfterRejection == [][BreakFollowsRejection]_vars

\* A published model is never read from the shared disk again while the server
\* lives: the point of the cache.
ReadIsOfUnpublished ==
    \A a \in DOMAIN memory' \ DOMAIN memory :
        memory'[a][1] \notin DOMAIN models

PublishedIsReadOnce == [][ReadIsOfUnpublished]_vars

\* Every call ends, well or not, unless the server is down or its query or answer
\* was lost when the server went down (the query has no timeout).
Swallowed(c) ==
    call[c].pc = "asked" /\ c \notin queries /\ c \notin DOMAIN answers

EveryCallEnds ==
    \A c \in Clients :
        call[c].pc # "idle" ~> (call[c].pc = "idle" \/ ~Up \/ Swallowed(c))

\* A query is swallowed only by a server that went down.
\* (Ports that were used and are not in use are those of servers that did.)
SwallowedOnlyByCrash ==
    (\E c \in Clients : Swallowed(c)) => usedPorts \ {port} # {}

\* Every published model becomes readable in full, unless the server goes down.
Served(m) ==
    m \in DOMAIN models /\ \A i \in DOMAIN models[m] : models[m][i] \in regions

PublishedGetsServed ==
    \A m \in Models : m \in DOMAIN models ~> (~Up \/ Served(m))

\* The start-up probe takes an ok answer to mean that the server is serving
\* (bench/e2e_vllm_load.py:124-126): what a running server's answer advertises
\* can be read.
AnswerMeansServing ==
    \A c \in DOMAIN answers :
        (answers[c].ok /\ answers[c].port = port) =>
            \A i \in DOMAIN answers[c].bases : answers[c].bases[i] \in regions
==============================================================================
