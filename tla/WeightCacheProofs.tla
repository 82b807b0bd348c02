--------------------------- MODULE WeightCacheProofs ---------------------------
(***************************************************************************)
(* Safety of the concurrent cache, for any clients, models, bucket counts, *)
(* pool size, ports and number of calls.                                   *)
(*                                                                         *)
(* The inductive invariant has a part about the server alone (what is in   *)
(* the pool, in the metadata and in the regions, and how far the load is)  *)
(* and a part about each client.  They meet in one clause: what a client   *)
(* was told on the running server's port is what that server has           *)
(* published.                                                              *)
(***************************************************************************)
EXTENDS WeightCache, TLAPS

Buckets == Models \X (Nat \ {0})

Loaders == [phase : {"idle", "reading", "registering"},
            model : Models \cup {NoModel},
            bases : Seq(Addresses), todo : Seq(Addresses)]

Calls == [pc : {"idle", "asked", "fetching", "reading"},
          model : Models \cup {NoModel}, port : Ports \cup {NoPort},
          bases : Seq(Addresses), got : Seq(Buckets)]

Answers == [ok : BOOLEAN, port : Ports \cup {NoPort}, bases : Seq(Addresses)]

Outcomes == {"none", "done", "unknown model", "refused", "rejected", "broken"}

-----------------------------------------------------------------------------
(* The server.                                                             *)

ServerTyped ==
    /\ port \in Ports \cup {NoPort}
    /\ usedPorts \subseteq Ports
    /\ port # NoPort => port \in usedPorts
    /\ memory \in Seq(Buckets)
    /\ Len(memory) <= PoolBuckets
    /\ DOMAIN models \subseteq Models
    /\ \A m \in DOMAIN models : models[m] \in Seq(Addresses)
    /\ regions \subseteq Addresses
    /\ loader \in Loaders

EmptyWhenDown ==
    port = NoPort =>
        /\ memory = <<>>
        /\ DOMAIN models = {}
        /\ regions = {}
        /\ loader = NotLoading

\* The i-th address of `bases` holds the i-th bucket of model m.
Placed(m, bases) ==
    \A i \in DOMAIN bases :
        bases[i] \in DOMAIN memory /\ memory[bases[i]] = <<m, i>>

PublishedWhole ==
    \A m \in DOMAIN models :
        Len(models[m]) = BucketNum[m] /\ Placed(m, models[m])

IdleLoader == loader.phase = "idle" => loader = NotLoading

ReadingLoader ==
    loader.phase = "reading" =>
        /\ loader.model \in Models \ DOMAIN models
        /\ Placed(loader.model, loader.bases)
        /\ Len(loader.bases) <= BucketNum[loader.model]

RegisteringLoader ==
    loader.phase = "registering" =>
        /\ loader.model \in DOMAIN models
        /\ loader.todo # <<>>
        /\ \A j \in DOMAIN loader.todo : \E i \in DOMAIN models[loader.model] :
               models[loader.model][i] = loader.todo[j]

\* What is published is readable, or about to be registered.
RegisteredOrTodo ==
    \A m \in DOMAIN models : \A i \in DOMAIN models[m] :
        \/ models[m][i] \in regions
        \/ /\ loader.phase = "registering"
           /\ loader.model = m
           /\ \E j \in DOMAIN loader.todo : loader.todo[j] = models[m][i]

ServerInv ==
    /\ ServerTyped
    /\ EmptyWhenDown
    /\ PublishedWhole
    /\ IdleLoader
    /\ ReadingLoader
    /\ RegisteringLoader
    /\ OnlyPublishedIsServed
    /\ RegisteredOrTodo

-----------------------------------------------------------------------------
(* One client.                                                             *)

\* What the client was told on data port p about model m.  Nothing is claimed of
\* a port whose server is gone but the number of buckets.
Told(p, m, bases) ==
    /\ p \in usedPorts
    /\ Len(bases) = BucketNum[m]
    /\ p = port => m \in DOMAIN models /\ bases = models[m]

CallTyped(c) ==
    /\ call[c] \in Calls
    /\ calls[c] \in 0 .. MaxCalls
    /\ outcome[c] \in Outcomes
    /\ call[c].pc # "idle" => call[c].model \in Models /\ outcome[c] = "none"

AskedInv(c) ==
    /\ c \in queries => call[c].pc = "asked" /\ c \notin DOMAIN answers
    /\ c \in DOMAIN answers => call[c].pc = "asked" /\ answers[c] \in Answers
    /\ c \in DOMAIN answers /\ answers[c].ok =>
           Told(answers[c].port, call[c].model, answers[c].bases)
    /\ call[c].pc = "asked" => call[c].got = <<>>

FetchInv(c) ==
    call[c].pc \in {"fetching", "reading"} =>
        /\ Told(call[c].port, call[c].model, call[c].bases)
        /\ Len(call[c].got) <= Len(call[c].bases)
        /\ call[c].pc = "reading" =>
               /\ Len(call[c].got) < Len(call[c].bases)
               /\ call[c].port \in DOMAIN peers[c]

GotInv(c) ==
    /\ \A i \in DOMAIN call[c].got : call[c].got[i] = <<call[c].model, i>>
    /\ outcome[c] = "done" => Len(call[c].got) = BucketNum[call[c].model]

WireInv(c) ==
    \/ wire[c] = Silent
    \/ /\ call[c].pc = "reading"
       /\ \/ wire[c] = ReadRequest /\ call[c].port = port
          \/ wire[c] = Rejection
          \/ wire[c] = Bytes(<<call[c].model, Len(call[c].got) + 1>>)

PeersInv(c) ==
    \A p \in DOMAIN peers[c] :
        /\ p \in usedPorts
        /\ peers[c][p] => p = port
        /\ ~peers[c][p] /\ p = port => <<c, p>> \in rejected

\* A client waits for an answer that cannot come only once a server went down.
NotLost(c) == Swallowed(c) => \E p \in usedPorts : p # port

ClientInv(c) ==
    /\ CallTyped(c)
    /\ AskedInv(c)
    /\ FetchInv(c)
    /\ GotInv(c)
    /\ WireInv(c)
    /\ PeersInv(c)
    /\ NotLost(c)

\* The maps the clients' state is kept in.
Maps ==
    /\ queries \subseteq Clients
    /\ DOMAIN answers \subseteq Clients
    /\ peers = [c \in Clients |-> peers[c]]
    /\ call = [c \in Clients |-> call[c]]
    /\ wire = [c \in Clients |-> wire[c]]
    /\ calls = [c \in Clients |-> calls[c]]
    /\ outcome = [c \in Clients |-> outcome[c]]

CacheInv ==
    /\ ServerInv
    /\ Maps
    /\ \A c \in Clients : ClientInv(c)

-----------------------------------------------------------------------------
(* Sequences.                                                              *)

\* What appending does to the length and the elements of a sequence.
LEMMA AppendFacts ==
    ASSUME NEW S, NEW s \in Seq(S), NEW x \in S
    PROVE  /\ Append(s, x) \in Seq(S)
           /\ Len(Append(s, x)) = Len(s) + 1
           /\ DOMAIN Append(s, x) = 1 .. Len(s) + 1
           /\ DOMAIN s = 1 .. Len(s)
           /\ \A i \in 1 .. Len(s) : Append(s, x)[i] = s[i]
           /\ Append(s, x)[Len(s) + 1] = x
  OBVIOUS

\* What the head and the tail of a sequence hold.
LEMMA TailFacts ==
    ASSUME NEW S, NEW s \in Seq(S), s # <<>>
    PROVE  /\ Head(s) \in S
           /\ Tail(s) \in Seq(S)
           /\ Len(s) # 1 => Tail(s) # <<>>
           /\ \A j \in DOMAIN s : s[j] = Head(s)
                  \/ \E k \in DOMAIN Tail(s) : Tail(s)[k] = s[j]
           /\ \A k \in DOMAIN Tail(s) : \E j \in DOMAIN s : Tail(s)[k] = s[j]
           /\ Len(s) = 1 => \A j \in DOMAIN s : s[j] = Head(s)
           /\ \E j \in DOMAIN s : s[j] = Head(s)
  <1>1. Len(s) \in Nat \ {0} /\ DOMAIN s = 1 .. Len(s)
    OBVIOUS
  <1>2. Tail(s) \in Seq(S) /\ Len(Tail(s)) = Len(s) - 1
    BY <1>1
  <1>3. Head(s) = s[1] /\ Head(s) \in S
    BY <1>1
  <1>4. DOMAIN Tail(s) = 1 .. Len(s) - 1
    BY <1>2
  <1>5. \A k \in 1 .. Len(s) - 1 : Tail(s)[k] = s[k + 1]
    BY <1>1, <1>2
  <1>6. ASSUME Len(s) # 1 PROVE Tail(s) # <<>>
    <2>1. 1 \in DOMAIN Tail(s)
      BY <1>1, <1>4, <1>6
    <2>2. DOMAIN <<>> = {}
      OBVIOUS
    <2> QED
      BY <2>1, <2>2
  <1>7. ASSUME NEW j \in DOMAIN s, s[j] # Head(s)
        PROVE  \E k \in DOMAIN Tail(s) : Tail(s)[k] = s[j]
    <2>1. j - 1 \in 1 .. Len(s) - 1
      BY <1>1, <1>3, <1>7
    <2>2. Tail(s)[j - 1] = s[j]
      BY <1>1, <1>5, <2>1
    <2> QED
      BY <1>4, <2>1, <2>2
  <1>8. \A k \in DOMAIN Tail(s) : \E j \in DOMAIN s : Tail(s)[k] = s[j]
    <2> SUFFICES ASSUME NEW k \in DOMAIN Tail(s)
                 PROVE  \E j \in DOMAIN s : Tail(s)[k] = s[j]
      OBVIOUS
    <2>1. k \in 1 .. Len(s) - 1 /\ k + 1 \in DOMAIN s
      BY <1>1, <1>4
    <2> QED
      BY <1>5, <2>1
  <1>9. 1 \in DOMAIN s
    BY <1>1
  <1>10. Len(s) = 1 => \A j \in DOMAIN s : s[j] = Head(s)
    BY <1>1, <1>3
  <1> QED
    BY <1>2, <1>3, <1>6, <1>7, <1>8, <1>9, <1>10

-----------------------------------------------------------------------------
(* Steps of the server.                                                    *)

\* The server may have taken a step, but it did not go down: the ports used so far
\* denote what they denoted, and what was published still is.
ServerGoesOn ==
    /\ usedPorts \subseteq usedPorts'
    /\ \A p \in usedPorts : (p = port') <=> (p = port)
    /\ \A m \in DOMAIN models : m \in DOMAIN models' /\ models'[m] = models[m]

\* The initial state satisfies the invariant.
LEMMA CacheInitInv == ASSUME Init PROVE CacheInv
  <1> USE CacheAssumption DEF Init
  <1>1. ServerInv
    <2>1. ServerTyped
      BY DEF ServerTyped, NotLoading, Loaders
    <2>2. EmptyWhenDown /\ IdleLoader
      BY DEF EmptyWhenDown, IdleLoader
    <2>3. PublishedWhole /\ RegisteredOrTodo
      BY DEF PublishedWhole, RegisteredOrTodo
    <2>4. ReadingLoader /\ RegisteringLoader
      BY DEF ReadingLoader, RegisteringLoader, NotLoading
    <2>5. OnlyPublishedIsServed
      BY DEF OnlyPublishedIsServed
    <2> QED
      BY <2>1, <2>2, <2>3, <2>4, <2>5 DEF ServerInv
  <1>2. Maps
    BY DEF Maps
  <1>3. ASSUME NEW c \in Clients PROVE ClientInv(c)
    <2>1. call[c] = NoCall /\ wire[c] = Silent /\ calls[c] = 0 /\ outcome[c] = "none"
      BY <1>3
    <2>2. CallTyped(c)
      BY <2>1 DEF CallTyped, NoCall, Calls, Outcomes
    <2>3. AskedInv(c) /\ FetchInv(c) /\ NotLost(c)
      BY <2>1 DEF AskedInv, FetchInv, NotLost, Swallowed, NoCall
    <2>4. GotInv(c)
      BY <2>1 DEF GotInv, NoCall
    <2>5. WireInv(c) /\ PeersInv(c)
      BY <1>3, <2>1 DEF WireInv, PeersInv
    <2> QED
      BY <2>2, <2>3, <2>4, <2>5 DEF ClientInv
  <1> QED
    BY <1>1, <1>2, <1>3 DEF CacheInv

\* A step that leaves the server alone.
LEMMA ServerFrame ==
    ASSUME ServerInv, UNCHANGED serverVars
    PROVE  ServerInv' /\ ServerGoesOn
  BY DEF ServerInv, serverVars, ServerTyped, EmptyWhenDown, PublishedWhole, Placed,
         IdleLoader, ReadingLoader, RegisteringLoader, OnlyPublishedIsServed,
         RegisteredOrTodo, ServerGoesOn

\* A new process is empty and has a port nobody was told.
LEMMA StartServer ==
    ASSUME ServerInv, Start
    PROVE  ServerInv' /\ ServerGoesOn
  <1>1. PICK p \in Ports \ usedPorts : port' = p /\ usedPorts' = usedPorts \cup {p}
    BY DEF Start
  <1>2. port = NoPort /\ UNCHANGED <<memory, models, regions, loader>>
    BY DEF Start, Up
  <1>3. ServerTyped'
    BY <1>1, <1>2 DEF ServerInv, ServerTyped
  <1>4. EmptyWhenDown'
    BY <1>1, CacheAssumption DEF EmptyWhenDown
  <1>5. PublishedWhole' /\ IdleLoader' /\ ReadingLoader' /\ RegisteringLoader'
          /\ OnlyPublishedIsServed' /\ RegisteredOrTodo'
    BY <1>2 DEF ServerInv, PublishedWhole, Placed, IdleLoader, ReadingLoader,
                RegisteringLoader, OnlyPublishedIsServed, RegisteredOrTodo
  <1>6. ServerGoesOn
    BY <1>1, <1>2, CacheAssumption DEF ServerGoesOn, ServerInv, ServerTyped
  <1> QED
    BY <1>3, <1>4, <1>5, <1>6 DEF ServerInv

\* A load begins with nothing read.
LEMMA BeginLoadServer ==
    ASSUME ServerInv, NEW m \in Models, BeginLoad(m)
    PROVE  ServerInv' /\ ServerGoesOn
  <1>1. UNCHANGED <<port, usedPorts, memory, models, regions>>
    BY DEF BeginLoad
  <1>2. loader' = [phase |-> "reading", model |-> m, bases |-> <<>>, todo |-> <<>>]
    BY DEF BeginLoad
  <1>3. loader = NotLoading /\ m \notin DOMAIN models /\ port # NoPort
    BY DEF BeginLoad, Up
  <1>4. ServerTyped'
    BY <1>1, <1>2 DEF ServerInv, ServerTyped, Loaders
  <1>5. EmptyWhenDown' /\ PublishedWhole' /\ OnlyPublishedIsServed'
    BY <1>1, <1>3 DEF ServerInv, EmptyWhenDown, PublishedWhole, Placed,
                      OnlyPublishedIsServed
  <1>6. IdleLoader' /\ RegisteringLoader'
    BY <1>2 DEF IdleLoader, RegisteringLoader
  <1>7. ReadingLoader'
    <2>1. BucketNum[m] \in Nat
      BY CacheAssumption
    <2> QED
      BY <1>1, <1>2, <1>3, <2>1 DEF ReadingLoader, Placed
  <1>8. RegisteredOrTodo'
    BY <1>1, <1>3 DEF ServerInv, RegisteredOrTodo, NotLoading
  <1>9. ServerGoesOn
    BY <1>1 DEF ServerGoesOn
  <1> QED
    BY <1>4, <1>5, <1>6, <1>7, <1>8, <1>9 DEF ServerInv

\* A load that fails leaves everything but the loader as it is.
LEMMA LoadFailsServer ==
    ASSUME ServerInv, LoadFails
    PROVE  ServerInv' /\ ServerGoesOn
  <1>1. UNCHANGED <<port, usedPorts, memory, models, regions>>
    BY DEF LoadFails
  <1>2. loader' = NotLoading /\ loader.phase = "reading"
    BY DEF LoadFails, Reading
  <1>3. ServerTyped'
    BY <1>1, <1>2 DEF ServerInv, ServerTyped, Loaders, NotLoading
  <1>4. EmptyWhenDown' /\ PublishedWhole' /\ OnlyPublishedIsServed'
    BY <1>1, <1>2 DEF ServerInv, EmptyWhenDown, PublishedWhole, Placed,
                      OnlyPublishedIsServed
  <1>5. IdleLoader' /\ RegisteringLoader' /\ ReadingLoader'
    BY <1>2 DEF IdleLoader, RegisteringLoader, ReadingLoader, NotLoading
  <1>6. RegisteredOrTodo'
    BY <1>1, <1>2 DEF ServerInv, RegisteredOrTodo
  <1>7. ServerGoesOn
    BY <1>1 DEF ServerGoesOn
  <1> QED
    BY <1>3, <1>4, <1>5, <1>6, <1>7 DEF ServerInv

\* Carving a bucket leaves the others where they are.
LEMMA ReadBucketServer ==
    ASSUME ServerInv, ReadBucket
    PROVE  ServerInv' /\ ServerGoesOn
  <1> DEFINE m == loader.model
             n == Len(loader.bases)
             a == Len(memory) + 1
  <1>1. UNCHANGED <<port, usedPorts, models, regions>>
    BY DEF ReadBucket
  <1>2. /\ loader.phase = "reading" /\ n < BucketNum[m] /\ Len(memory) < PoolBuckets
        /\ memory' = Append(memory, <<m, n + 1>>)
        /\ loader' = [loader EXCEPT !.bases = Append(@, a)]
    BY DEF ReadBucket, Reading
  <1>3. /\ memory \in Seq(Buckets) /\ loader \in Loaders /\ loader.bases \in Seq(Addresses)
        /\ m \in Models \ DOMAIN models /\ n \in Nat /\ Len(memory) \in Nat
        /\ BucketNum[m] \in Nat /\ PoolBuckets \in Nat
    BY <1>2, CacheAssumption DEF ServerInv, ServerTyped, Loaders, ReadingLoader
  <1>4. <<m, n + 1>> \in Buckets /\ a \in Addresses
    BY <1>2, <1>3 DEF Buckets, Addresses
  <1>5. /\ memory' \in Seq(Buckets) /\ Len(memory') = a
        /\ DOMAIN memory' = 1 .. a /\ DOMAIN memory = 1 .. Len(memory)
        /\ \A i \in 1 .. Len(memory) : memory'[i] = memory[i]
        /\ memory'[a] = <<m, n + 1>>
    BY <1>2, <1>3, <1>4, AppendFacts
  <1>6. /\ loader'.bases \in Seq(Addresses) /\ Len(loader'.bases) = n + 1
        /\ DOMAIN loader'.bases = 1 .. n + 1 /\ DOMAIN loader.bases = 1 .. n
        /\ \A i \in 1 .. n : loader'.bases[i] = loader.bases[i]
        /\ loader'.bases[n + 1] = a
        /\ loader'.phase = "reading" /\ loader'.model = m /\ loader' \in Loaders
    <2>1. loader'.bases = Append(loader.bases, a)
            /\ loader' = [loader EXCEPT !.bases = loader'.bases]
      BY <1>2, <1>3 DEF Loaders
    <2>2. Append(loader.bases, a) \in Seq(Addresses)
      BY <1>3, <1>4, AppendFacts
    <2>3. loader'.phase = "reading" /\ loader'.model = m /\ loader' \in Loaders
      BY <1>2, <1>3, <2>1, <2>2 DEF Loaders
    <2> QED
      BY <1>3, <1>4, <2>1, <2>3, AppendFacts
  <1>7. ASSUME NEW x, NEW bases, Placed(x, bases) PROVE Placed(x, bases)'
    <2> SUFFICES ASSUME NEW i \in DOMAIN bases
                 PROVE  bases[i] \in DOMAIN memory' /\ memory'[bases[i]] = <<x, i>>
      BY DEF Placed
    <2>1. bases[i] \in 1 .. Len(memory) /\ memory[bases[i]] = <<x, i>>
      BY <1>5, <1>7 DEF Placed
    <2> QED
      BY <1>3, <1>5, <2>1
  <1>8. ServerTyped'
    <2>1. Len(memory') <= PoolBuckets
      BY <1>2, <1>3, <1>5
    <2> QED
      BY <1>1, <1>5, <1>6, <2>1 DEF ServerInv, ServerTyped
  <1>9. EmptyWhenDown'
    BY <1>1, <1>2 DEF ServerInv, EmptyWhenDown, NotLoading
  <1>10. PublishedWhole'
    BY <1>1, <1>7 DEF ServerInv, PublishedWhole
  <1>11. IdleLoader' /\ RegisteringLoader'
    BY <1>6 DEF IdleLoader, RegisteringLoader
  <1>12. ReadingLoader'
    <2>1. Placed(m, loader.bases)
      BY <1>2 DEF ServerInv, ReadingLoader
    <2>2. Placed(m, loader.bases)'
      <3>1. \A i \in 1 .. n : loader.bases[i] \in 1 .. Len(memory)
                                /\ memory[loader.bases[i]] = <<m, i>>
        BY <1>5, <1>6, <2>1 DEF Placed
      <3>2. ASSUME NEW i \in 1 .. n + 1
            PROVE  loader'.bases[i] \in 1 .. a /\ memory'[loader'.bases[i]] = <<m, i>>
        <4>1. CASE i = n + 1
          BY <1>3, <1>5, <1>6, <4>1
        <4>2. CASE i \in 1 .. n
          <5>1. loader'.bases[i] = loader.bases[i]
            BY <1>6, <4>2
          <5>2. loader.bases[i] \in 1 .. Len(memory) /\ memory[loader.bases[i]] = <<m, i>>
            BY <3>1, <4>2
          <5>3. loader.bases[i] \in 1 .. a
            BY <1>3, <5>2
          <5> QED
            BY <1>5, <5>1, <5>2, <5>3
        <4>3. \A k \in Nat : \A j \in 1 .. k + 1 : j = k + 1 \/ j \in 1 .. k
          OBVIOUS
        <4> QED
          BY <1>3, <3>2, <4>1, <4>2, <4>3
      <3> QED
        BY <1>5, <1>6, <3>2 DEF Placed
    <2>3. Len(loader'.bases) <= BucketNum[m]
      BY <1>2, <1>3, <1>6
    <2> QED
      BY <1>1, <1>3, <1>6, <2>2, <2>3 DEF ReadingLoader
  <1>13. OnlyPublishedIsServed'
    <2> SUFFICES ASSUME NEW r \in regions'
                 PROVE  \E x \in DOMAIN models' : \E i \in DOMAIN models'[x] :
                            models'[x][i] = r /\ memory'[r] = <<x, i>>
      BY DEF OnlyPublishedIsServed
    <2>1. PICK x \in DOMAIN models : \E i \in DOMAIN models[x] :
              models[x][i] = r /\ memory[r] = <<x, i>>
      BY <1>1 DEF ServerInv, OnlyPublishedIsServed
    <2>2. PICK i \in DOMAIN models[x] : models[x][i] = r /\ memory[r] = <<x, i>>
      BY <2>1
    <2>3. r \in 1 .. Len(memory)
      BY <1>5, <2>2 DEF ServerInv, PublishedWhole, Placed
    <2> QED
      BY <1>1, <1>3, <1>5, <2>2, <2>3
  <1>14. RegisteredOrTodo'
    BY <1>1, <1>2 DEF ServerInv, RegisteredOrTodo
  <1>15. ServerGoesOn
    BY <1>1 DEF ServerGoesOn
  <1> QED
    BY <1>8, <1>9, <1>10, <1>11, <1>12, <1>13, <1>14, <1>15 DEF ServerInv

\* A published model is whole, and all of it is to be registered.
LEMMA PublishServer ==
    ASSUME ServerInv, Publish
    PROVE  ServerInv' /\ ServerGoesOn
  <1> DEFINE m == loader.model
  <1>1. UNCHANGED <<port, usedPorts, memory, regions>>
    BY DEF Publish
  <1>2. /\ loader.phase = "reading" /\ Len(loader.bases) = BucketNum[m]
        /\ models' = With(models, m, loader.bases)
        /\ loader' = IF loader.bases = <<>> THEN NotLoading
                     ELSE [loader EXCEPT !.phase = "registering",
                                         !.todo = loader.bases]
    BY DEF Publish, Reading
  <1>3. /\ loader \in Loaders /\ loader.bases \in Seq(Addresses)
        /\ m \in Models \ DOMAIN models /\ Placed(m, loader.bases)
    BY <1>2 DEF ServerInv, ServerTyped, Loaders, ReadingLoader
  <1>4. /\ DOMAIN models' = DOMAIN models \cup {m} /\ models'[m] = loader.bases
        /\ \A x \in DOMAIN models : models'[x] = models[x]
    BY <1>2, <1>3 DEF With
  <1>5. \/ loader.bases = <<>> /\ loader' = NotLoading
        \/ /\ loader.bases # <<>> /\ loader' \in Loaders
           /\ loader'.phase = "registering" /\ loader'.model = m
           /\ loader'.todo = loader.bases
    BY <1>2, <1>3 DEF Loaders
  <1>6. ServerTyped'
    BY <1>1, <1>3, <1>4, <1>5 DEF ServerInv, ServerTyped, NotLoading, Loaders
  <1>7. EmptyWhenDown'
    BY <1>1, <1>2 DEF ServerInv, EmptyWhenDown, NotLoading
  <1>8. PublishedWhole'
    BY <1>1, <1>2, <1>3, <1>4 DEF ServerInv, PublishedWhole, Placed
  <1>9. IdleLoader' /\ ReadingLoader'
    BY <1>5 DEF IdleLoader, ReadingLoader, NotLoading
  <1>10. RegisteringLoader'
    BY <1>4, <1>5 DEF RegisteringLoader, NotLoading
  <1>11. OnlyPublishedIsServed'
    BY <1>1, <1>3, <1>4 DEF ServerInv, OnlyPublishedIsServed
  <1>12. RegisteredOrTodo'
    <2> SUFFICES ASSUME NEW x \in DOMAIN models', NEW i \in DOMAIN models'[x]
                 PROVE  \/ models'[x][i] \in regions
                        \/ /\ loader'.phase = "registering" /\ loader'.model = x
                           /\ \E j \in DOMAIN loader'.todo :
                                  loader'.todo[j] = models'[x][i]
      BY <1>1 DEF RegisteredOrTodo
    <2>1. CASE x = m
      BY <1>4, <1>5, <2>1
    <2>2. CASE x \in DOMAIN models
      BY <1>2, <1>4, <2>2 DEF ServerInv, RegisteredOrTodo
    <2> QED
      BY <1>4, <2>1, <2>2
  <1>13. ServerGoesOn
    BY <1>1, <1>4 DEF ServerGoesOn
  <1> QED
    BY <1>6, <1>7, <1>8, <1>9, <1>10, <1>11, <1>12, <1>13 DEF ServerInv

\* A registered address is one of the published model's.
LEMMA RegisterServer ==
    ASSUME ServerInv, RegisterRegion
    PROVE  ServerInv' /\ ServerGoesOn
  <1> DEFINE m == loader.model
             a == Head(loader.todo)
  <1>1. UNCHANGED <<port, usedPorts, memory, models>>
    BY DEF RegisterRegion
  <1>2. /\ loader.phase = "registering"
        /\ regions' = regions \cup {a}
        /\ loader' = IF Len(loader.todo) = 1 THEN NotLoading
                     ELSE [loader EXCEPT !.todo = Tail(@)]
    BY DEF RegisterRegion
  <1>3. /\ loader \in Loaders /\ loader.todo \in Seq(Addresses) /\ loader.todo # <<>>
        /\ m \in DOMAIN models
        /\ \A j \in DOMAIN loader.todo : \E i \in DOMAIN models[m] :
               models[m][i] = loader.todo[j]
    BY <1>2 DEF ServerInv, ServerTyped, Loaders, RegisteringLoader
  <1>4. /\ a \in Addresses /\ Tail(loader.todo) \in Seq(Addresses)
        /\ Len(loader.todo) # 1 => Tail(loader.todo) # <<>>
        /\ \A j \in DOMAIN loader.todo : loader.todo[j] = a
               \/ \E k \in DOMAIN Tail(loader.todo) : Tail(loader.todo)[k] = loader.todo[j]
        /\ \A k \in DOMAIN Tail(loader.todo) :
               \E j \in DOMAIN loader.todo : Tail(loader.todo)[k] = loader.todo[j]
        /\ Len(loader.todo) = 1 => \A j \in DOMAIN loader.todo : loader.todo[j] = a
        /\ \E j \in DOMAIN loader.todo : loader.todo[j] = a
    BY <1>3, TailFacts
  <1>5. \/ Len(loader.todo) = 1 /\ loader' = NotLoading
        \/ /\ Len(loader.todo) # 1 /\ loader' \in Loaders
           /\ loader'.phase = "registering" /\ loader'.model = m
           /\ loader'.todo = Tail(loader.todo)
    BY <1>2, <1>3, <1>4 DEF Loaders
  <1>6. ServerTyped'
    BY <1>1, <1>2, <1>4, <1>5 DEF ServerInv, ServerTyped, NotLoading, Loaders
  <1>7. EmptyWhenDown'
    BY <1>1, <1>2 DEF ServerInv, EmptyWhenDown, NotLoading
  <1>8. PublishedWhole'
    BY <1>1 DEF ServerInv, PublishedWhole, Placed
  <1>9. IdleLoader' /\ ReadingLoader'
    BY <1>5 DEF IdleLoader, ReadingLoader, NotLoading
  <1>10. RegisteringLoader'
    <2>1. CASE loader' = NotLoading
      BY <2>1 DEF RegisteringLoader, NotLoading
    <2>2. CASE Len(loader.todo) # 1 /\ loader'.todo = Tail(loader.todo) /\ loader'.model = m
      <3>1. \A k \in DOMAIN loader'.todo : \E i \in DOMAIN models[m] :
                models[m][i] = loader'.todo[k]
        BY <1>3, <1>4, <2>2
      <3> QED
        BY <1>1, <1>3, <1>4, <2>2, <3>1 DEF RegisteringLoader
    <2> QED
      BY <1>5, <2>1, <2>2
  <1>11. OnlyPublishedIsServed'
    <2>1. PICK i \in DOMAIN models[m] : models[m][i] = a
      BY <1>3, <1>4
    <2>2. memory[a] = <<m, i>>
      BY <1>3, <2>1 DEF ServerInv, PublishedWhole, Placed
    <2> QED
      BY <1>1, <1>2, <1>3, <2>1, <2>2 DEF ServerInv, OnlyPublishedIsServed
  <1>12. RegisteredOrTodo'
    <2> SUFFICES ASSUME NEW x \in DOMAIN models, NEW i \in DOMAIN models[x]
                 PROVE  \/ models[x][i] \in regions'
                        \/ /\ loader'.phase = "registering" /\ loader'.model = x
                           /\ \E j \in DOMAIN loader'.todo :
                                  loader'.todo[j] = models[x][i]
      BY <1>1 DEF RegisteredOrTodo
    <2>1. CASE models[x][i] \in regions
      BY <1>2, <2>1
    <2>2. CASE models[x][i] \notin regions
      <3>1. PICK j \in DOMAIN loader.todo : loader.todo[j] = models[x][i]
        BY <2>2 DEF ServerInv, RegisteredOrTodo
      <3>2. x = m
        BY <2>2 DEF ServerInv, RegisteredOrTodo
      <3> QED
        BY <1>2, <1>4, <1>5, <3>1, <3>2
    <2> QED
      BY <2>1, <2>2
  <1>13. ServerGoesOn
    BY <1>1 DEF ServerGoesOn
  <1> QED
    BY <1>6, <1>7, <1>8, <1>9, <1>10, <1>11, <1>12, <1>13 DEF ServerInv

\* A server that goes down leaves nothing behind.
LEMMA CrashServer ==
    ASSUME ServerInv, Crash
    PROVE  ServerInv'
  <1>1. /\ port' = NoPort /\ memory' = <<>> /\ models' = [m \in {} |-> m]
        /\ regions' = {} /\ loader' = NotLoading /\ usedPorts' = usedPorts
    BY DEF Crash
  <1>2. ServerTyped'
    BY <1>1, CacheAssumption DEF ServerInv, ServerTyped, NotLoading, Loaders
  <1>3. EmptyWhenDown' /\ IdleLoader' /\ ReadingLoader' /\ RegisteringLoader'
    BY <1>1 DEF EmptyWhenDown, IdleLoader, ReadingLoader, RegisteringLoader, NotLoading
  <1>4. PublishedWhole' /\ OnlyPublishedIsServed' /\ RegisteredOrTodo'
    BY <1>1 DEF PublishedWhole, OnlyPublishedIsServed, RegisteredOrTodo
  <1> QED
    BY <1>2, <1>3, <1>4 DEF ServerInv

-----------------------------------------------------------------------------
(* Steps of one client, or of the server towards one client.               *)

\* A step does not concern client c.
Untouched(c) ==
    /\ call'[c] = call[c]
    /\ calls'[c] = calls[c]
    /\ outcome'[c] = outcome[c]
    /\ wire'[c] = wire[c]
    /\ peers'[c] = peers[c]
    /\ c \in queries' <=> c \in queries
    /\ c \in DOMAIN answers' <=> c \in DOMAIN answers
    /\ c \in DOMAIN answers => answers'[c] = answers[c]
    /\ \A p : <<c, p>> \in rejected => <<c, p>> \in rejected'

\* What a client was told stays true while the server goes on.
LEMMA ToldStays ==
    ASSUME ServerGoesOn, NEW p, NEW m, NEW bases, Told(p, m, bases)
    PROVE  Told(p, m, bases)'
  BY DEF ServerGoesOn, Told

\* A client that a step does not concern keeps its part of the invariant.
LEMMA ClientFrame ==
    ASSUME ServerGoesOn, NEW c \in Clients, ClientInv(c), Untouched(c)
    PROVE  ClientInv(c)'
  <1>1. CallTyped(c)'
    BY DEF ClientInv, CallTyped, Untouched
  <1>2. AskedInv(c)'
    BY ToldStays DEF ClientInv, AskedInv, Untouched
  <1>3. FetchInv(c)'
    BY ToldStays DEF ClientInv, FetchInv, Untouched
  <1>4. GotInv(c)'
    BY DEF ClientInv, GotInv, Untouched
  <1>5. WireInv(c)'
    BY DEF ClientInv, WireInv, FetchInv, Told, Untouched, ServerGoesOn
  <1>6. PeersInv(c)'
    BY DEF ClientInv, PeersInv, Untouched, ServerGoesOn
  <1>7. NotLost(c)'
    BY DEF ClientInv, NotLost, Swallowed, Untouched, ServerGoesOn
  <1> QED
    BY <1>1, <1>2, <1>3, <1>4, <1>5, <1>6, <1>7 DEF ClientInv

\* A step of the server that goes on, and of no client.
LEMMA ServerStep ==
    ASSUME CacheInv, ServerInv' /\ ServerGoesOn,
           UNCHANGED <<queries, answers, clientVars>>
    PROVE  CacheInv'
  <1>1. Maps'
    BY DEF CacheInv, Maps, clientVars
  <1>2. ASSUME NEW c \in Clients PROVE Untouched(c)
    BY DEF Untouched, clientVars
  <1> QED
    BY <1>1, <1>2, ClientFrame DEF CacheInv

\* A step of client c that leaves the server alone.
LEMMA ClientStep ==
    ASSUME CacheInv, NEW c \in Clients, UNCHANGED serverVars,
           Maps', ClientInv(c)', \A d \in Clients \ {c} : Untouched(d)
    PROVE  CacheInv'
  <1>1. ServerInv' /\ ServerGoesOn
    BY ServerFrame DEF CacheInv
  <1>2. ASSUME NEW d \in Clients PROVE ClientInv(d)'
    BY <1>1, ClientFrame DEF CacheInv
  <1> QED
    BY <1>1, <1>2 DEF CacheInv

\* A query is queued.
LEMMA AskPreserves ==
    ASSUME CacheInv, NEW c \in Clients, NEW m \in Models, Ask(c, m)
    PROVE  CacheInv'
  <1>1. Maps /\ ClientInv(c)
    BY DEF CacheInv
  <1>2. UNCHANGED <<serverVars, answers, peers, wire, rejected>>
    BY DEF Ask
  <1>3. /\ call[c].pc = "idle" /\ calls[c] < MaxCalls
        /\ call' = [call EXCEPT ![c] = [NoCall EXCEPT !.pc = "asked", !.model = m]]
        /\ calls' = [calls EXCEPT ![c] = @ + 1]
        /\ outcome' = [outcome EXCEPT ![c] = "none"]
        /\ queries' = queries \cup {c}
    BY DEF Ask
  <1>4. call'[c] = [pc |-> "asked", model |-> m, port |-> NoPort,
                    bases |-> <<>>, got |-> <<>>]
    BY <1>1, <1>3 DEF Maps, NoCall
  <1>5. outcome'[c] = "none" /\ calls'[c] = calls[c] + 1
    BY <1>1, <1>3 DEF Maps
  <1>6. c \notin DOMAIN answers /\ wire[c] = Silent
    BY <1>1, <1>3 DEF ClientInv, AskedInv, WireInv
  <1>7. Maps'
    BY <1>1, <1>2, <1>3 DEF Maps
  <1>8. \A d \in Clients \ {c} : Untouched(d)
    BY <1>1, <1>2, <1>3 DEF Maps, Untouched
  <1>9. ClientInv(c)'
    <2>1. CallTyped(c)'
      <3>1. calls'[c] \in 0 .. MaxCalls
        BY <1>1, <1>3, <1>5, CacheAssumption DEF ClientInv, CallTyped
      <3> QED
        BY <1>4, <1>5, <3>1 DEF CallTyped, Calls, Outcomes
    <2>2. AskedInv(c)'
      BY <1>2, <1>4, <1>6 DEF AskedInv
    <2>5. FetchInv(c)' /\ NotLost(c)'
      BY <1>3, <1>4 DEF FetchInv, NotLost, Swallowed
    <2>3. GotInv(c)' /\ WireInv(c)'
      BY <1>2, <1>4, <1>5, <1>6 DEF GotInv, WireInv
    <2>4. PeersInv(c)'
      BY <1>1, <1>2 DEF ClientInv, PeersInv, serverVars
    <2> QED
      BY <2>1, <2>2, <2>3, <2>4, <2>5 DEF ClientInv
  <1> QED
    BY <1>2, <1>7, <1>8, <1>9, ClientStep

\* The answer names what the running server has published.
LEMMA AnswerQueryPreserves ==
    ASSUME CacheInv, NEW c \in Clients, AnswerQuery(c)
    PROVE  CacheInv'
  <1> DEFINE m == call[c].model
             known == [ok |-> TRUE, port |-> port, bases |-> models[m]]
             unknown == [ok |-> FALSE, port |-> NoPort, bases |-> <<>>]
             reply == IF m \in DOMAIN models THEN known ELSE unknown
  <1>1. Maps /\ ClientInv(c) /\ ServerInv
    BY DEF CacheInv
  <1>2. UNCHANGED <<serverVars, clientVars>> /\ port # NoPort /\ c \in queries
    BY DEF AnswerQuery, Up
  <1>3. queries' = queries \ {c} /\ answers' = With(answers, c, reply)
    BY DEF AnswerQuery
  <1>4. /\ DOMAIN answers' = DOMAIN answers \cup {c} /\ answers'[c] = reply
        /\ \A d \in DOMAIN answers : d # c => answers'[d] = answers[d]
    BY <1>3 DEF With
  <1>5. Maps'
    BY <1>1, <1>2, <1>3, <1>4 DEF Maps, clientVars
  <1>6. \A d \in Clients \ {c} : Untouched(d)
    BY <1>2, <1>3, <1>4 DEF Untouched, clientVars
  <1>7. call[c].pc = "asked" /\ call[c].got = <<>> /\ m \in Models
    BY <1>1, <1>2 DEF ClientInv, AskedInv, CallTyped
  <1>8. ClientInv(c)'
    <2>1. CallTyped(c)' /\ GotInv(c)'
      BY <1>1, <1>2 DEF ClientInv, CallTyped, GotInv, clientVars
    <2>2. answers'[c] \in Answers
      BY <1>1, <1>4, <1>7 DEF Answers, ServerInv, ServerTyped
    <2>3. ASSUME answers'[c].ok
          PROVE  Told(answers[c].port, call[c].model, answers[c].bases)'
      <3>1. m \in DOMAIN models /\ answers'[c] = known
        <4>1. m \in DOMAIN models => reply = known
          OBVIOUS
        <4>2. m \notin DOMAIN models => reply = unknown
          OBVIOUS
        <4>3. unknown.ok = FALSE
          OBVIOUS
        <4> HIDE DEF known, unknown, reply
        <4> QED
          BY <1>4, <2>3, <4>1, <4>2, <4>3
      <3>2. port \in usedPorts /\ Len(models[m]) = BucketNum[m]
        BY <1>1, <1>2, <3>1 DEF ServerInv, ServerTyped, PublishedWhole
      <3> QED
        BY <1>2, <3>1, <3>2 DEF Told, serverVars, clientVars
    <2>4. AskedInv(c)'
      BY <1>2, <1>3, <1>7, <2>2, <2>3 DEF AskedInv, clientVars
    <2>5. FetchInv(c)' /\ NotLost(c)'
      BY <1>2, <1>4, <1>7 DEF FetchInv, NotLost, Swallowed, clientVars
    <2>6. WireInv(c)' /\ PeersInv(c)'
      BY <1>1, <1>2 DEF ClientInv, WireInv, PeersInv, clientVars, serverVars
    <2> QED
      BY <2>1, <2>4, <2>5, <2>6 DEF ClientInv
  <1> QED
    BY <1>2, <1>5, <1>6, <1>8, ClientStep

\* The bytes sent are the ones wanted, because the reader's addresses are those of
\* this process.
LEMMA ServeReadPreserves ==
    ASSUME CacheInv, NEW c \in Clients, ServeRead(c)
    PROVE  CacheInv'
  <1> DEFINE m == call[c].model
             i == Len(call[c].got) + 1
  <1>1. Maps /\ ClientInv(c) /\ ServerInv
    BY DEF CacheInv
  <1>2. UNCHANGED <<serverVars, queries, answers, peers, call, calls, outcome, rejected>>
    BY DEF ServeRead
  <1>3. wire[c] = ReadRequest /\ wire' = [wire EXCEPT ![c] = Bytes(memory[Wanted(c)])]
    BY DEF ServeRead
  <1>4. call[c].pc = "reading" /\ call[c].port = port
    BY <1>1, <1>3 DEF ClientInv, WireInv, Silent, ReadRequest, Rejection, Bytes
  <1>5. /\ m \in DOMAIN models /\ call[c].bases = models[m]
        /\ Len(call[c].got) < Len(models[m])
        /\ models[m] \in Seq(Addresses) /\ call[c].got \in Seq(Buckets)
    BY <1>1, <1>4 DEF ClientInv, FetchInv, Told, CallTyped, Calls, ServerInv, ServerTyped
  <1>6. i \in DOMAIN models[m]
    BY <1>5
  <1>7. memory[Wanted(c)] = <<m, i>>
    BY <1>1, <1>5, <1>6 DEF ServerInv, PublishedWhole, Placed, Wanted
  <1>8. wire'[c] = Bytes(<<m, i>>)
    BY <1>1, <1>3, <1>7 DEF Maps
  <1>9. Maps'
    BY <1>1, <1>2, <1>3 DEF Maps
  <1>10. \A d \in Clients \ {c} : Untouched(d)
    BY <1>1, <1>2, <1>3 DEF Maps, Untouched
  <1>11. ClientInv(c)'
    <2>1. WireInv(c)'
      BY <1>2, <1>4, <1>8 DEF WireInv
    <2> QED
      BY <1>1, <1>2, <2>1 DEF ClientInv, CallTyped, AskedInv, FetchInv, Told, GotInv,
         PeersInv, NotLost, Swallowed, serverVars
  <1> QED
    BY <1>2, <1>9, <1>10, <1>11, ClientStep

\* A rejection is remembered with the connection it closed.
LEMMA RejectReadPreserves ==
    ASSUME CacheInv, NEW c \in Clients, RejectRead(c)
    PROVE  CacheInv'
  <1>1. Maps /\ ClientInv(c) /\ ServerInv
    BY DEF CacheInv
  <1>2. UNCHANGED <<serverVars, queries, answers, call, calls, outcome>>
    BY DEF RejectRead
  <1>3. /\ wire[c] = ReadRequest /\ wire' = [wire EXCEPT ![c] = Rejection]
        /\ peers' = [peers EXCEPT ![c][call[c].port] = FALSE]
        /\ rejected' = rejected \cup {<<c, call[c].port>>}
    BY DEF RejectRead
  <1>4. call[c].pc = "reading" /\ call[c].port = port
    BY <1>1, <1>3 DEF ClientInv, WireInv, Silent, ReadRequest, Rejection, Bytes
  <1>5. /\ wire'[c] = Rejection
        /\ peers'[c] = [peers[c] EXCEPT ![call[c].port] = FALSE]
    BY <1>1, <1>3 DEF Maps
  <1>6. Maps'
    BY <1>1, <1>2, <1>3 DEF Maps
  <1>7. \A d \in Clients \ {c} : Untouched(d)
    BY <1>1, <1>2, <1>3 DEF Maps, Untouched
  <1>8. ClientInv(c)'
    <2>1. WireInv(c)'
      BY <1>2, <1>4, <1>5 DEF WireInv
    <2>2. DOMAIN peers'[c] = DOMAIN peers[c]
      BY <1>5
    <2>3. PeersInv(c)'
      BY <1>1, <1>2, <1>3, <1>5, <2>2 DEF ClientInv, PeersInv, serverVars
    <2> QED
      BY <1>1, <1>2, <2>1, <2>2, <2>3 DEF ClientInv, CallTyped, AskedInv, FetchInv,
         Told, GotInv, NotLost, Swallowed, serverVars
  <1> QED
    BY <1>2, <1>6, <1>7, <1>8, ClientStep

\* An answer is taken: the client begins to fetch, or its call ends.
LEMMA TakeAnswerPreserves ==
    ASSUME CacheInv, NEW c \in Clients, TakeAnswer(c)
    PROVE  CacheInv'
  <1>1. Maps /\ ClientInv(c)
    BY DEF CacheInv
  <1>2. UNCHANGED <<serverVars, queries, peers, wire, calls, rejected>>
    BY DEF TakeAnswer
  <1>3. call[c].pc = "asked" /\ c \in DOMAIN answers /\ answers' = Without(answers, {c})
    BY DEF TakeAnswer
  <1>4. /\ DOMAIN answers' = DOMAIN answers \ {c}
        /\ \A d \in DOMAIN answers \ {c} : answers'[d] = answers[d]
    BY <1>3 DEF Without
  <1>5. /\ call[c] \in Calls /\ answers[c] \in Answers /\ call[c].got = <<>>
        /\ c \notin queries /\ wire[c] = Silent /\ outcome[c] = "none"
        /\ call[c].model \in Models
    BY <1>1, <1>3 DEF ClientInv, CallTyped, AskedInv, WireInv
  <1>6. \/ /\ answers[c].ok /\ outcome' = outcome
           /\ call' = [call EXCEPT ![c].pc = "fetching", ![c].port = answers[c].port,
                                   ![c].bases = answers[c].bases]
        \/ /\ call' = [call EXCEPT ![c].pc = "idle"]
           /\ outcome' = [outcome EXCEPT ![c] = "unknown model"]
    BY DEF TakeAnswer, End
  <1>7. Maps'
    BY <1>1, <1>2, <1>4, <1>6 DEF Maps
  <1>8. \A d \in Clients \ {c} : Untouched(d)
    BY <1>1, <1>2, <1>4, <1>6 DEF Maps, Untouched
  <1>9. PeersInv(c)' /\ WireInv(c)'
    BY <1>1, <1>2, <1>5 DEF ClientInv, PeersInv, WireInv, serverVars
  <1>10. CASE /\ answers[c].ok /\ outcome' = outcome
              /\ call' = [call EXCEPT ![c].pc = "fetching", ![c].port = answers[c].port,
                                      ![c].bases = answers[c].bases]
    <2>1. /\ call'[c] \in Calls /\ call'[c].pc = "fetching"
          /\ call'[c].port = answers[c].port /\ call'[c].bases = answers[c].bases
          /\ call'[c].got = <<>> /\ call'[c].model = call[c].model
      BY <1>1, <1>5, <1>10 DEF Maps, Calls, Answers
    <2>2. CallTyped(c)'
      BY <1>1, <1>2, <1>5, <1>10, <2>1 DEF ClientInv, CallTyped
    <2>3. AskedInv(c)' /\ NotLost(c)'
      BY <1>2, <1>4, <1>5, <2>1 DEF AskedInv, NotLost, Swallowed
    <2>4. Told(answers[c].port, call[c].model, answers[c].bases)
      BY <1>1, <1>3, <1>10 DEF ClientInv, AskedInv
    <2>5. Told(call[c].port, call[c].model, call[c].bases)'
      BY <1>2, <2>1, <2>4 DEF Told, serverVars
    <2>6. Len(call'[c].got) <= Len(call'[c].bases)
      BY <1>5, <2>1 DEF Calls, Answers
    <2>7. FetchInv(c)'
      BY <2>1, <2>5, <2>6 DEF FetchInv
    <2>8. GotInv(c)'
      BY <1>5, <1>10, <2>1 DEF GotInv
    <2>9. ClientInv(c)'
      BY <1>9, <2>2, <2>3, <2>7, <2>8 DEF ClientInv
    <2> QED
      BY <1>2, <1>7, <1>8, <2>9, ClientStep
  <1>11. CASE /\ call' = [call EXCEPT ![c].pc = "idle"]
              /\ outcome' = [outcome EXCEPT ![c] = "unknown model"]
    <2>1. /\ call'[c] \in Calls /\ call'[c].pc = "idle" /\ call'[c].got = <<>>
          /\ outcome'[c] = "unknown model"
      BY <1>1, <1>5, <1>11 DEF Maps, Calls
    <2>2. CallTyped(c)'
      BY <1>1, <1>2, <2>1 DEF ClientInv, CallTyped, Outcomes
    <2>3. AskedInv(c)' /\ NotLost(c)' /\ FetchInv(c)'
      BY <1>2, <1>4, <1>5, <2>1 DEF AskedInv, NotLost, Swallowed, FetchInv
    <2>4. GotInv(c)'
      <3>1. DOMAIN <<>> = {}
        OBVIOUS
      <3>2. outcome'[c] # "done"
        BY <2>1
      <3> QED
        BY <2>1, <3>1, <3>2 DEF GotInv
    <2>5. ClientInv(c)'
      BY <1>9, <2>2, <2>3, <2>4 DEF ClientInv
    <2> QED
      BY <1>2, <1>7, <1>8, <2>5, ClientStep
  <1> QED
    BY <1>6, <1>10, <1>11

\* A read is requested on a connection to the running server.
LEMMA SendReadPreserves ==
    ASSUME CacheInv, NEW c \in Clients, RequestOnCached(c) \/ Connect(c)
    PROVE  CacheInv'
  <1>1. Maps /\ ClientInv(c) /\ ServerInv
    BY DEF CacheInv
  <1>2. /\ call[c].pc = "fetching" /\ Len(call[c].got) < Len(call[c].bases)
        /\ call' = [call EXCEPT ![c].pc = "reading"]
        /\ wire' = [wire EXCEPT ![c] = ReadRequest]
        /\ UNCHANGED <<serverVars, queries, answers, calls, outcome, rejected>>
    BY DEF RequestOnCached, Connect, SendRead, Fetching
  <1>3. /\ call[c].port = port /\ call[c].port \in DOMAIN peers'[c]
        /\ PeersInv(c)' /\ Maps' /\ \A d \in Clients \ {c} : Untouched(d)
    <2>1. CASE RequestOnCached(c)
      <3>1. peers' = peers /\ call[c].port \in DOMAIN peers[c] /\ peers[c][call[c].port]
        BY <2>1 DEF RequestOnCached, Cached
      <3>2. call[c].port = port /\ PeersInv(c)'
        BY <1>1, <1>2, <3>1 DEF ClientInv, PeersInv, serverVars
      <3>3. Maps' /\ \A d \in Clients \ {c} : Untouched(d)
        BY <1>1, <1>2, <3>1 DEF Maps, Untouched
      <3> QED
        BY <3>1, <3>2, <3>3
    <2>2. CASE Connect(c)
      <3>1. /\ call[c].port = port /\ port # NoPort
            /\ peers' = [peers EXCEPT ![c] = With(@, port, TRUE)]
        BY <2>2 DEF Connect, Up
      <3>2. peers'[c] = With(peers[c], port, TRUE)
        BY <1>1, <3>1 DEF Maps
      <3>3. /\ DOMAIN peers'[c] = DOMAIN peers[c] \cup {port} /\ peers'[c][port] = TRUE
            /\ \A p \in DOMAIN peers[c] : p # port => peers'[c][p] = peers[c][p]
        BY <3>2 DEF With
      <3>4. PeersInv(c)'
        BY <1>1, <1>2, <3>1, <3>3 DEF ClientInv, PeersInv, serverVars, ServerInv,
           ServerTyped
      <3>5. Maps' /\ \A d \in Clients \ {c} : Untouched(d)
        BY <1>1, <1>2, <3>1 DEF Maps, Untouched
      <3> QED
        BY <3>1, <3>3, <3>4, <3>5
    <2> QED
      BY <2>1, <2>2
  <1>4. /\ call'[c] \in Calls /\ call'[c].pc = "reading"
        /\ call'[c].port = call[c].port /\ call'[c].bases = call[c].bases
        /\ call'[c].got = call[c].got /\ call'[c].model = call[c].model
        /\ wire'[c] = ReadRequest
    BY <1>1, <1>2 DEF Maps, ClientInv, CallTyped, Calls
  <1>5. CallTyped(c)'
    BY <1>1, <1>2, <1>4 DEF ClientInv, CallTyped
  <1>6. AskedInv(c)' /\ NotLost(c)'
    BY <1>1, <1>2, <1>4 DEF ClientInv, AskedInv, NotLost, Swallowed
  <1>7. FetchInv(c)'
    BY <1>1, <1>2, <1>3, <1>4 DEF ClientInv, FetchInv, Told, serverVars
  <1>8. GotInv(c)' /\ WireInv(c)'
    BY <1>1, <1>2, <1>3, <1>4 DEF ClientInv, GotInv, WireInv, serverVars
  <1>9. ClientInv(c)'
    BY <1>3, <1>5, <1>6, <1>7, <1>8 DEF ClientInv
  <1> QED
    BY <1>2, <1>3, <1>9, ClientStep

\* Received bytes are the next bucket of the model.
LEMMA TakeBytesPreserves ==
    ASSUME CacheInv, NEW c \in Clients, TakeBytes(c)
    PROVE  CacheInv'
  <1> DEFINE m == call[c].model
             n == Len(call[c].got)
             x == <<m, n + 1>>
  <1>1. Maps /\ ClientInv(c)
    BY DEF CacheInv
  <1>2. UNCHANGED <<serverVars, queries, answers, peers, calls, outcome, rejected>>
    BY DEF TakeBytes
  <1>3. /\ call[c].pc = "reading" /\ wire[c].kind = "bytes"
        /\ call' = [call EXCEPT ![c].pc = "fetching",
                                ![c].got = Append(@, wire[c].content)]
        /\ wire' = [wire EXCEPT ![c] = Silent]
    BY DEF TakeBytes
  <1>4. /\ call[c] \in Calls /\ call[c].got \in Seq(Buckets) /\ m \in Models
        /\ n \in Nat /\ n < Len(call[c].bases) /\ outcome[c] = "none"
    BY <1>1, <1>3 DEF ClientInv, CallTyped, Calls, FetchInv
  <1>5. wire[c].content = x
    BY <1>1, <1>3 DEF ClientInv, WireInv, Silent, ReadRequest, Rejection, Bytes
  <1>6. x \in Buckets
    BY <1>4 DEF Buckets
  <1>7. /\ Append(call[c].got, x) \in Seq(Buckets)
        /\ Len(Append(call[c].got, x)) = n + 1
        /\ DOMAIN Append(call[c].got, x) = 1 .. n + 1
        /\ DOMAIN call[c].got = 1 .. n
        /\ \A i \in 1 .. n : Append(call[c].got, x)[i] = call[c].got[i]
        /\ Append(call[c].got, x)[n + 1] = x
    BY <1>4, <1>6, AppendFacts
  <1>8. /\ call'[c].pc = "fetching" /\ call'[c].model = m
        /\ call'[c].port = call[c].port /\ call'[c].bases = call[c].bases
        /\ call'[c].got = Append(call[c].got, x) /\ call'[c] \in Calls
        /\ wire'[c] = Silent
    <2>1. call'[c] = [call[c] EXCEPT !.pc = "fetching", !.got = Append(@, x)]
      BY <1>1, <1>3, <1>5 DEF Maps
    <2>2. call'[c].got = Append(call[c].got, x)
      BY <1>4, <2>1 DEF Calls
    <2>3. /\ call'[c].pc = "fetching" /\ call'[c].model = m
          /\ call'[c].port = call[c].port /\ call'[c].bases = call[c].bases
      BY <1>4, <2>1 DEF Calls
    <2>4. call'[c] \in Calls
      BY <1>4, <1>7, <2>1 DEF Calls
    <2> QED
      BY <1>1, <1>3, <2>2, <2>3, <2>4 DEF Maps
  <1>9. Maps'
    BY <1>1, <1>2, <1>3 DEF Maps
  <1>10. \A d \in Clients \ {c} : Untouched(d)
    BY <1>1, <1>2, <1>3 DEF Maps, Untouched
  <1>11. CallTyped(c)'
    BY <1>1, <1>2, <1>4, <1>8 DEF ClientInv, CallTyped
  <1>12. AskedInv(c)' /\ NotLost(c)'
    BY <1>1, <1>2, <1>3, <1>8 DEF ClientInv, AskedInv, NotLost, Swallowed
  <1>13. FetchInv(c)'
    <2>1. Told(call[c].port, call[c].model, call[c].bases)
      BY <1>1, <1>3 DEF ClientInv, FetchInv
    <2>2. Told(call[c].port, call[c].model, call[c].bases)'
      BY <1>2, <1>8, <2>1 DEF Told, serverVars
    <2>3. n + 1 <= Len(call[c].bases)
      BY <1>4 DEF Calls
    <2> QED
      BY <1>7, <1>8, <2>2, <2>3 DEF FetchInv
  <1>14. GotInv(c)'
    <2>1. \A i \in 1 .. n : call[c].got[i] = <<m, i>>
      BY <1>1, <1>7 DEF ClientInv, GotInv
    <2>2. \A k \in Nat : \A i \in 1 .. k + 1 : i = k + 1 \/ i \in 1 .. k
      OBVIOUS
    <2>3. ASSUME NEW i \in 1 .. n + 1 PROVE call'[c].got[i] = <<m, i>>
      <3>1. CASE i = n + 1
        BY <1>7, <1>8, <3>1
      <3>2. CASE i \in 1 .. n
        <4>1. call'[c].got[i] = call[c].got[i]
          BY <1>7, <1>8, <3>2
        <4> QED
          BY <2>1, <3>2, <4>1
      <3> QED
        BY <1>4, <2>2, <2>3, <3>1, <3>2
    <2> QED
      BY <1>2, <1>4, <1>7, <1>8, <2>3 DEF GotInv
  <1>15. WireInv(c)' /\ PeersInv(c)'
    BY <1>1, <1>2, <1>8 DEF ClientInv, WireInv, PeersInv, serverVars
  <1>16. ClientInv(c)'
    BY <1>11, <1>12, <1>13, <1>14, <1>15 DEF ClientInv
  <1> QED
    BY <1>2, <1>9, <1>10, <1>16, ClientStep

\* However a call that fetches or reads ends, "done" is the end of a whole model.
LEMMA EndPreserves ==
    ASSUME CacheInv, NEW c \in Clients, NEW how \in Outcomes, End(c, how),
           call[c].pc \in {"fetching", "reading"},
           how = "done" => Len(call[c].got) = Len(call[c].bases),
           wire' = [wire EXCEPT ![c] = Silent],
           UNCHANGED <<serverVars, queries, answers, peers, calls, rejected>>
    PROVE  CacheInv'
  <1>1. Maps /\ ClientInv(c)
    BY DEF CacheInv
  <1>2. /\ call' = [call EXCEPT ![c].pc = "idle"]
        /\ outcome' = [outcome EXCEPT ![c] = how]
    BY DEF End
  <1>3. /\ call'[c] \in Calls /\ call'[c].pc = "idle"
        /\ call'[c].model = call[c].model /\ call'[c].got = call[c].got
        /\ outcome'[c] = how /\ wire'[c] = Silent
    BY <1>1, <1>2 DEF Maps, ClientInv, CallTyped, Calls
  <1>4. Maps' /\ \A d \in Clients \ {c} : Untouched(d)
    BY <1>1, <1>2 DEF Maps, Untouched
  <1>5. CallTyped(c)'
    BY <1>1, <1>3 DEF ClientInv, CallTyped
  <1>6. AskedInv(c)' /\ NotLost(c)' /\ FetchInv(c)'
    BY <1>1, <1>3 DEF ClientInv, AskedInv, NotLost, Swallowed, FetchInv
  <1>7. GotInv(c)'
    <2>1. Len(call[c].bases) = BucketNum[call[c].model]
      BY <1>1 DEF ClientInv, FetchInv, Told
    <2> QED
      BY <1>1, <1>3, <2>1 DEF ClientInv, GotInv
  <1>8. WireInv(c)' /\ PeersInv(c)'
    BY <1>1, <1>3 DEF ClientInv, WireInv, PeersInv, serverVars
  <1>9. ClientInv(c)'
    BY <1>5, <1>6, <1>7, <1>8 DEF ClientInv
  <1> QED
    BY <1>4, <1>9, ClientStep

\* The ways a call that fetches or reads may end.
LEMMA CallEndPreserves ==
    ASSUME CacheInv, NEW c \in Clients,
           \/ ConnectRefused(c) \/ RequestOnDead(c) \/ TakeRejection(c)
           \/ ConnectionLost(c) \/ Finish(c) \/ Abandon(c)
    PROVE  CacheInv'
  <1>1. Maps /\ ClientInv(c)
    BY DEF CacheInv
  <1>2. UNCHANGED <<serverVars, queries, answers, peers, calls, rejected>>
    BY DEF ConnectRefused, RequestOnDead, TakeRejection, ConnectionLost, Finish, Abandon
  <1>3. ASSUME call[c].pc # "reading" \/ wire[c] = Silent, wire' = wire
        PROVE  wire' = [wire EXCEPT ![c] = Silent]
    <2>1. wire[c] = Silent
      BY <1>1, <1>3 DEF ClientInv, WireInv
    <2> QED
      BY <1>1, <1>3, <2>1 DEF Maps
  <1>4. CASE ConnectRefused(c)
    <2>1. /\ End(c, "refused") /\ call[c].pc = "fetching" /\ wire' = wire
          /\ "refused" \in Outcomes
      BY <1>4 DEF ConnectRefused, Fetching, Outcomes
    <2> QED
      BY <1>2, <1>3, <2>1, EndPreserves
  <1>5. CASE RequestOnDead(c)
    <2>1. /\ End(c, "broken") /\ call[c].pc = "fetching" /\ wire' = wire
          /\ "broken" \in Outcomes
      BY <1>5 DEF RequestOnDead, Fetching, Outcomes
    <2> QED
      BY <1>2, <1>3, <2>1, EndPreserves
  <1>6. CASE TakeRejection(c)
    <2>1. /\ End(c, "rejected") /\ call[c].pc = "reading"
          /\ wire' = [wire EXCEPT ![c] = Silent] /\ "rejected" \in Outcomes
      BY <1>6 DEF TakeRejection, Outcomes
    <2> QED
      BY <1>2, <2>1, EndPreserves
  <1>7. CASE ConnectionLost(c)
    <2>1. /\ End(c, "broken") /\ call[c].pc = "reading" /\ wire' = wire
          /\ wire[c] = Silent /\ "broken" \in Outcomes
      BY <1>7 DEF ConnectionLost, Outcomes
    <2> QED
      BY <1>2, <1>3, <2>1, EndPreserves
  <1>8. CASE Finish(c)
    <2>1. /\ End(c, "done") /\ call[c].pc = "fetching" /\ wire' = wire
          /\ Len(call[c].got) = Len(call[c].bases) /\ "done" \in Outcomes
      BY <1>8 DEF Finish, Outcomes
    <2> QED
      BY <1>2, <1>3, <2>1, EndPreserves
  <1>9. CASE Abandon(c)
    <2>1. /\ End(c, "none") /\ call[c].pc = "fetching" /\ wire' = wire
          /\ "none" \in Outcomes
      BY <1>9 DEF Abandon, Outcomes
    <2> QED
      BY <1>2, <1>3, <2>1, EndPreserves
  <1> QED
    BY <1>4, <1>5, <1>6, <1>7, <1>8, <1>9

\* A new client process begins with nothing.
LEMMA RestartClientPreserves ==
    ASSUME CacheInv, NEW c \in Clients, RestartClient(c)
    PROVE  CacheInv'
  <1>1. Maps /\ ClientInv(c)
    BY DEF CacheInv
  <1>2. /\ peers' = [peers EXCEPT ![c] = [p \in {} |-> p]]
        /\ call' = [call EXCEPT ![c] = NoCall]
        /\ wire' = [wire EXCEPT ![c] = Silent]
        /\ outcome' = [outcome EXCEPT ![c] = "none"]
        /\ queries' = queries \ {c}
        /\ answers' = Without(answers, {c})
        /\ rejected' = {r \in rejected : r[1] # c}
        /\ UNCHANGED <<serverVars, calls>>
    BY DEF RestartClient
  <1>3. /\ DOMAIN answers' = DOMAIN answers \ {c}
        /\ \A d \in DOMAIN answers \ {c} : answers'[d] = answers[d]
    BY <1>2 DEF Without
  <1>4. /\ call'[c] = NoCall /\ wire'[c] = Silent /\ outcome'[c] = "none"
        /\ DOMAIN peers'[c] = {}
    BY <1>1, <1>2 DEF Maps
  <1>5. Maps'
    BY <1>1, <1>2, <1>3 DEF Maps
  <1>6. \A d \in Clients \ {c} : Untouched(d)
    BY <1>1, <1>2, <1>3 DEF Maps, Untouched
  <1>7. CallTyped(c)'
    <2>1. NoCall \in Calls /\ NoCall.pc = "idle"
      BY DEF NoCall, Calls
    <2>2. calls'[c] \in 0 .. MaxCalls
      BY <1>1, <1>2 DEF ClientInv, CallTyped
    <2> QED
      BY <1>4, <2>1, <2>2 DEF CallTyped, Outcomes
  <1>8. AskedInv(c)' /\ NotLost(c)' /\ FetchInv(c)'
    <2>1. call'[c].pc = "idle"
      BY <1>4 DEF NoCall
    <2>2. c \notin queries' /\ c \notin DOMAIN answers'
      BY <1>2, <1>3
    <2> QED
      BY <2>1, <2>2 DEF AskedInv, NotLost, Swallowed, FetchInv
  <1>9. GotInv(c)' /\ WireInv(c)' /\ PeersInv(c)'
    BY <1>4 DEF GotInv, WireInv, PeersInv, NoCall
  <1>10. ClientInv(c)'
    BY <1>7, <1>8, <1>9 DEF ClientInv
  <1> QED
    BY <1>2, <1>5, <1>6, <1>10, ClientStep

\* The server goes down: whatever a client was told before claims nothing now.
LEMMA CrashPreserves ==
    ASSUME CacheInv, Crash
    PROVE  CacheInv'
  <1>1. Maps /\ ServerInv
    BY DEF CacheInv
  <1>2. ServerInv'
    BY <1>1, CrashServer
  <1>3. port # NoPort /\ port' = NoPort /\ UNCHANGED <<usedPorts, call, calls, outcome, rejected>>
    BY DEF Crash, Up
  <1>4. /\ queries' \subseteq queries /\ DOMAIN answers' \subseteq DOMAIN answers
        /\ \A c \in DOMAIN answers' : answers'[c] = answers[c]
    BY DEF Crash, Without
  <1>5. peers' = [c \in Clients |->
                     [p \in DOMAIN peers[c] |-> peers[c][p] /\ p # port]]
    BY DEF Crash
  <1>6. PICK lostBytes \in SUBSET {c \in Clients : wire[c] # Silent} :
            wire' = [c \in Clients |->
                        IF c \in lostBytes \/ wire[c] = ReadRequest
                        THEN Silent ELSE wire[c]]
    BY DEF Crash
  <1>7. NoPort \notin usedPorts /\ port \in usedPorts
    BY <1>1, <1>3, CacheAssumption DEF ServerInv, ServerTyped
  <1>8. Maps'
    BY <1>1, <1>3, <1>4, <1>5, <1>6 DEF Maps
  <1>9. ASSUME NEW c \in Clients PROVE ClientInv(c)'
    <2>1. ClientInv(c)
      BY DEF CacheInv
    <2>2. CallTyped(c)' /\ GotInv(c)'
      BY <1>3, <2>1 DEF ClientInv, CallTyped, GotInv
    <2>3. ASSUME NEW p, NEW m, NEW bases, Told(p, m, bases)
          PROVE  Told(p, m, bases)'
      BY <1>3, <1>7, <2>3 DEF Told
    <2>4. AskedInv(c)'
      BY <1>3, <1>4, <2>1, <2>3 DEF ClientInv, AskedInv
    <2>5. DOMAIN peers'[c] = DOMAIN peers[c]
            /\ \A p \in DOMAIN peers[c] : peers'[c][p] = (peers[c][p] /\ p # port)
      BY <1>5
    <2>6. FetchInv(c)'
      BY <1>3, <2>1, <2>3, <2>5 DEF ClientInv, FetchInv
    <2>7. WireInv(c)'
      <3>1. wire'[c] = Silent \/ (wire'[c] = wire[c] /\ wire[c] # ReadRequest)
        BY <1>6
      <3> QED
        BY <1>3, <2>1, <3>1 DEF ClientInv, WireInv
    <2>8. PeersInv(c)'
      <3> SUFFICES ASSUME NEW p \in DOMAIN peers[c]
                   PROVE  /\ p \in usedPorts'
                          /\ peers'[c][p] => p = port'
                          /\ p # port'
        BY <2>5 DEF PeersInv
      <3>1. p \in usedPorts /\ (peers[c][p] => p = port)
        BY <2>1 DEF ClientInv, PeersInv
      <3>2. p # NoPort
        BY <1>7, <3>1
      <3> QED
        BY <1>3, <2>5, <3>1, <3>2
    <2>9. NotLost(c)'
      BY <1>3, <1>7 DEF NotLost
    <2> QED
      BY <2>2, <2>4, <2>6, <2>7, <2>8, <2>9 DEF ClientInv
  <1> QED
    BY <1>2, <1>8, <1>9 DEF CacheInv

-----------------------------------------------------------------------------
(* The theorems.                                                           *)

\* Every step keeps the invariant.
LEMMA CacheNextInv ==
    ASSUME CacheInv, [Next]_vars
    PROVE  CacheInv'
  <1>0. ServerInv
    BY DEF CacheInv
  <1>1. CASE Start
    BY <1>0, <1>1, StartServer, ServerStep DEF Start
  <1>2. CASE \E m \in Models : BeginLoad(m)
    BY <1>0, <1>2, BeginLoadServer, ServerStep DEF BeginLoad
  <1>3. CASE ReadBucket
    BY <1>0, <1>3, ReadBucketServer, ServerStep DEF ReadBucket
  <1>4. CASE LoadFails
    BY <1>0, <1>4, LoadFailsServer, ServerStep DEF LoadFails
  <1>5. CASE Publish
    BY <1>0, <1>5, PublishServer, ServerStep DEF Publish
  <1>6. CASE RegisterRegion
    BY <1>0, <1>6, RegisterServer, ServerStep DEF RegisterRegion
  <1>7. CASE Crash
    BY <1>7, CrashPreserves
  <1>8. ASSUME NEW c \in Clients, \E m \in Models : Ask(c, m) PROVE CacheInv'
    BY <1>8, AskPreserves
  <1>9. ASSUME NEW c \in Clients, AnswerQuery(c) PROVE CacheInv'
    BY <1>9, AnswerQueryPreserves
  <1>10. ASSUME NEW c \in Clients, Serving(c) PROVE CacheInv'
    BY <1>10, ServeReadPreserves, RejectReadPreserves DEF Serving
  <1>11. ASSUME NEW c \in Clients, Receiving(c) \/ Abandon(c) PROVE CacheInv'
    BY <1>11, TakeAnswerPreserves, SendReadPreserves, TakeBytesPreserves,
       CallEndPreserves DEF Receiving
  <1>12. ASSUME NEW c \in Clients, RestartClient(c) PROVE CacheInv'
    BY <1>12, RestartClientPreserves
  <1>13. CASE UNCHANGED vars
    <2>1. UNCHANGED serverVars /\ UNCHANGED <<queries, answers, clientVars>>
      BY <1>13 DEF vars
    <2>2. ServerInv' /\ ServerGoesOn
      BY <1>0, <2>1, ServerFrame
    <2> QED
      BY <2>1, <2>2, ServerStep
  <1> QED
    BY <1>1, <1>2, <1>3, <1>4, <1>5, <1>6, <1>7, <1>8, <1>9, <1>10, <1>11, <1>12,
       <1>13 DEF Next, Loading

\* In every reachable state the server's part and every client's part hold.
THEOREM CacheInductiveInvariant == Spec => []CacheInv
  <1>1. Init => CacheInv
    BY CacheInitInv
  <1>2. CacheInv /\ [Next]_vars => CacheInv'
    BY CacheNextInv
  <1> QED
    BY <1>1, <1>2, PTL DEF Spec

\* All variables of the server, the network and the clients keep their types.
THEOREM CacheTypeCorrect == Spec => []CacheTypeOK
  <1>1. ASSUME CacheInv PROVE CacheTypeOK
    <2>1. ServerTyped
      BY <1>1 DEF CacheInv, ServerInv
    <2>2. queries \subseteq Clients /\ DOMAIN answers \subseteq Clients
      BY <1>1 DEF CacheInv, Maps
    <2>3. usedPorts \subseteq Ports
      BY <2>1 DEF ServerTyped
    <2>4. ASSUME NEW c \in Clients
          PROVE  /\ DOMAIN peers[c] \subseteq Ports
                 /\ call[c].pc \in {"idle", "asked", "fetching", "reading"}
                 /\ wire[c].kind \in {"silent", "request", "rejected", "bytes"}
                 /\ calls[c] \in 0 .. MaxCalls
                 /\ outcome[c] \in {"none", "done", "unknown model", "refused",
                                    "rejected", "broken"}
      <3>1. ClientInv(c)
        BY <1>1 DEF CacheInv
      <3>2. DOMAIN peers[c] \subseteq Ports
        BY <2>3, <3>1 DEF ClientInv, PeersInv
      <3>3. wire[c].kind \in {"silent", "request", "rejected", "bytes"}
        BY <3>1 DEF ClientInv, WireInv, Silent, ReadRequest, Rejection, Bytes
      <3> QED
        BY <3>1, <3>2, <3>3 DEF ClientInv, CallTyped, Calls, Outcomes
    <2> QED
      BY <2>1, <2>2, <2>4 DEF CacheTypeOK, ServerTyped, Buckets, Loaders
  <1> QED
    BY <1>1, CacheInductiveInvariant, PTL

\* A client holds a prefix of the model it asked for, and all of it once its call
\* ended well: StaticWeightCacheClient.receive_weights never mixes models or server
\* processes.
THEOREM RightBytes == Spec => []NoWrongBytes
  <1>1. CacheInv => NoWrongBytes
    BY DEF CacheInv, ClientInv, GotInv, NoWrongBytes
  <1> QED
    BY <1>1, CacheInductiveInvariant, PTL

\* The data plane's regions are buckets of published models with their contents.
THEOREM ServedIsPublished == Spec => []OnlyPublishedIsServed
  <1>1. CacheInv => OnlyPublishedIsServed
    BY DEF CacheInv, ServerInv
  <1> QED
    BY <1>1, CacheInductiveInvariant, PTL

\* A query is swallowed only by a server that went down.
THEOREM SwallowedByCrash == Spec => []SwallowedOnlyByCrash
  <1>1. CacheInv => SwallowedOnlyByCrash
    BY DEF CacheInv, ClientInv, NotLost, SwallowedOnlyByCrash
  <1> QED
    BY <1>1, CacheInductiveInvariant, PTL

\* Only RejectRead puts a rejection on a connection.
LEMMA RejectionsSource ==
    ASSUME CacheInv, Next, NEW c \in Clients,
           wire[c] # Rejection, wire'[c] = Rejection
    PROVE  RejectRead(c)
  <1> USE DEF Silent, ReadRequest, Rejection, Bytes
  <1>1. Maps
    BY DEF CacheInv
  <1>2. CASE Start \/ (\E m \in Models : BeginLoad(m)) \/ Loading
    BY <1>2 DEF Start, BeginLoad, Loading, ReadBucket, LoadFails, Publish,
                RegisterRegion, clientVars
  <1>3. CASE Crash
    BY <1>3 DEF Crash
  <1>4. ASSUME NEW d \in Clients, RejectRead(d) PROVE d = c
    BY <1>1, <1>4 DEF RejectRead, Maps
  <1>5. ASSUME NEW d \in Clients, ServeRead(d) PROVE FALSE
    BY <1>1, <1>5 DEF ServeRead, Maps
  <1>6. ASSUME NEW d \in Clients, Receiving(d) PROVE FALSE
    <2>1. \/ wire' = wire \/ wire' = [wire EXCEPT ![d] = Silent]
          \/ wire' = [wire EXCEPT ![d] = ReadRequest]
      BY <1>6 DEF Receiving, TakeAnswer, RequestOnCached, Connect, SendRead,
         ConnectRefused, RequestOnDead, TakeBytes, TakeRejection, ConnectionLost, Finish
    <2> QED
      BY <1>1, <2>1 DEF Maps
  <1>7. ASSUME NEW d \in Clients,
               \/ \E m \in Models : Ask(d, m)
               \/ AnswerQuery(d) \/ Abandon(d) \/ RestartClient(d)
        PROVE  FALSE
    <2>1. wire' = wire \/ wire' = [wire EXCEPT ![d] = Silent]
      BY <1>7 DEF Ask, AnswerQuery, Abandon, RestartClient, clientVars
    <2> QED
      BY <1>1, <2>1 DEF Maps
  <1> QED
    BY <1>2, <1>3, <1>4, <1>5, <1>6, <1>7 DEF Next, Serving

\* A current client's read is rejected only between publication and registration
\* (ModelManager.load_from_named_tensors, then StaticWeightCacheServer.load_model).
THEOREM RejectionWindow == Spec => RejectedOnlyWhileRegistering
  <1>1. ASSUME CacheInv, [Next]_vars PROVE [RejectionIsEarly]_vars
    <2> SUFFICES ASSUME Next, NEW c \in Clients,
                        wire[c] # Rejection, wire'[c] = Rejection
                 PROVE  loader.model = call[c].model /\ loader.phase = "registering"
      BY <1>1 DEF RejectionIsEarly
    <2> DEFINE m == call[c].model
               i == Len(call[c].got) + 1
    <2>1. RejectRead(c) /\ ClientInv(c) /\ ServerInv
      BY <1>1, RejectionsSource DEF CacheInv
    <2>2. wire[c] = ReadRequest /\ Wanted(c) \notin regions
      BY <2>1 DEF RejectRead, IsServed
    <2>3. call[c].pc = "reading" /\ call[c].port = port
      BY <2>1, <2>2 DEF ClientInv, WireInv, Silent, ReadRequest, Rejection, Bytes
    <2>4. /\ m \in DOMAIN models /\ call[c].bases = models[m]
          /\ Len(call[c].got) < Len(models[m])
          /\ models[m] \in Seq(Addresses) /\ call[c].got \in Seq(Buckets)
      BY <2>1, <2>3 DEF ClientInv, FetchInv, Told, CallTyped, Calls, ServerInv, ServerTyped
    <2>5. i \in DOMAIN models[m] /\ models[m][i] = Wanted(c)
      BY <2>4 DEF Wanted
    <2> QED
      BY <2>1, <2>2, <2>4, <2>5 DEF ServerInv, RegisteredOrTodo
  <1> QED
    BY <1>1, CacheInductiveInvariant, PTL DEF Spec, RejectedOnlyWhileRegistering

\* Only a dead cached connection breaks a call that is about to read.
LEMMA BreaksSource ==
    ASSUME CacheInv, Next, NEW c \in Clients,
           call[c].pc = "fetching", outcome'[c] = "broken"
    PROVE  RequestOnDead(c)
  <1>1. Maps /\ outcome[c] # "broken"
    BY DEF CacheInv, ClientInv, CallTyped
  <1>2. CASE Start \/ (\E m \in Models : BeginLoad(m)) \/ Loading \/ Crash
    BY <1>1, <1>2 DEF Start, BeginLoad, Loading, ReadBucket, LoadFails, Publish,
                      RegisterRegion, Crash, clientVars
  <1>3. ASSUME NEW d \in Clients, Serving(d) PROVE FALSE
    BY <1>1, <1>3 DEF Serving, ServeRead, RejectRead
  <1>4. ASSUME NEW d \in Clients, Receiving(d) PROVE RequestOnDead(c)
    <2>1. CASE TakeAnswer(d) \/ RequestOnCached(d) \/ Connect(d) \/ ConnectRefused(d)
               \/ TakeBytes(d) \/ TakeRejection(d) \/ Finish(d)
      <3>1. \/ outcome' = outcome
            \/ \E how \in Outcomes \ {"broken"} : outcome' = [outcome EXCEPT ![d] = how]
        BY <2>1 DEF TakeAnswer, RequestOnCached, Connect, SendRead, ConnectRefused,
           TakeBytes, TakeRejection, Finish, End, Outcomes
      <3> QED
        BY <1>1, <3>1 DEF Maps
    <2>2. CASE RequestOnDead(d) \/ ConnectionLost(d)
      <3>1. outcome' = [outcome EXCEPT ![d] = "broken"]
        BY <2>2 DEF RequestOnDead, ConnectionLost, End
      <3>2. d = c
        BY <1>1, <3>1 DEF Maps
      <3> QED
        BY <2>2, <3>2 DEF ConnectionLost
    <2> QED
      BY <1>4, <2>1, <2>2 DEF Receiving
  <1>5. ASSUME NEW d \in Clients,
               \/ \E m \in Models : Ask(d, m)
               \/ AnswerQuery(d) \/ Abandon(d) \/ RestartClient(d)
        PROVE  FALSE
    <2>1. outcome' = outcome \/ outcome' = [outcome EXCEPT ![d] = "none"]
      BY <1>5 DEF Ask, AnswerQuery, Abandon, RestartClient, End, clientVars
    <2> QED
      BY <1>1, <2>1 DEF Maps
  <1> QED
    BY <1>2, <1>3, <1>4, <1>5 DEF Next

\* On the running server a call breaks only on a connection that a rejection closed
\* (TcpTransferBackend keeps the dead connection in _peers).
THEOREM BreakCause == Spec => BrokenOnlyAfterRejection
  <1>1. ASSUME CacheInv, [Next]_vars PROVE [BreakFollowsRejection]_vars
    <2> SUFFICES ASSUME Next, NEW c \in Clients, call[c].pc = "fetching",
                        outcome'[c] = "broken", call[c].port = port
                 PROVE  <<c, port>> \in rejected
      BY <1>1 DEF BreakFollowsRejection
    <2>1. RequestOnDead(c)
      BY <1>1, BreaksSource
    <2>2. ClientInv(c)
      BY <1>1 DEF CacheInv
    <2> QED
      BY <2>1, <2>2 DEF RequestOnDead, Cached, ClientInv, PeersInv
  <1> QED
    BY <1>1, CacheInductiveInvariant, PTL DEF Spec, BrokenOnlyAfterRejection

\* A published model is never read from the disk again while the server lives
\* (the check at the head of ModelManager.load_from_named_tensors).
THEOREM ReadOnce == Spec => PublishedIsReadOnce
  <1>1. ASSUME CacheInv, [Next]_vars PROVE [ReadIsOfUnpublished]_vars
    <2> SUFFICES ASSUME Next, NEW a \in DOMAIN memory' \ DOMAIN memory
                 PROVE  memory'[a][1] \notin DOMAIN models
      BY <1>1 DEF ReadIsOfUnpublished
    <2>1. ReadBucket
      <3>1. CASE Crash
        <4>1. DOMAIN memory' = {}
          BY <3>1 DEF Crash
        <4> QED
          BY <4>1
      <3>2. CASE Start \/ (\E m \in Models : BeginLoad(m)) \/ LoadFails \/ Publish
                 \/ RegisterRegion
        BY <3>2 DEF Start, BeginLoad, LoadFails, Publish, RegisterRegion
      <3>3. ASSUME NEW c \in Clients,
                   \/ \E m \in Models : Ask(c, m)
                   \/ AnswerQuery(c) \/ Serving(c) \/ Receiving(c)
                   \/ Abandon(c) \/ RestartClient(c)
            PROVE  FALSE
        BY <3>3 DEF Ask, AnswerQuery, Serving, ServeRead, RejectRead, Receiving,
           TakeAnswer, RequestOnCached, Connect, SendRead, ConnectRefused,
           RequestOnDead, TakeBytes, TakeRejection, ConnectionLost, Finish, Abandon,
           RestartClient, serverVars
      <3> QED
        BY <3>1, <3>2, <3>3 DEF Next, Loading
    <2> DEFINE x == <<loader.model, Len(loader.bases) + 1>>
    <2>2. ServerInv /\ loader.phase = "reading" /\ memory' = Append(memory, x)
      BY <1>1, <2>1 DEF CacheInv, ReadBucket, Reading
    <2>3. /\ loader.model \in Models \ DOMAIN models /\ x \in Buckets
          /\ memory \in Seq(Buckets)
      BY <2>2 DEF ServerInv, ServerTyped, ReadingLoader, Loaders, Buckets
    <2>4. DOMAIN memory' = 1 .. Len(memory) + 1 /\ DOMAIN memory = 1 .. Len(memory)
            /\ memory'[Len(memory) + 1] = x
      BY <2>2, <2>3, AppendFacts
    <2>5. a = Len(memory) + 1
      BY <2>3, <2>4
    <2> QED
      BY <2>3, <2>4, <2>5
  <1> QED
    BY <1>1, CacheInductiveInvariant, PTL DEF Spec, PublishedIsReadOnce

=============================================================================
