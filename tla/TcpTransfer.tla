----------------------------- MODULE TcpTransfer -----------------------------
(***************************************************************************)
(* The tcp data plane (TcpTransferBackend in transfer_backend.py): threads *)
(* of one process read the memory of several peers over one cached         *)
(* connection per peer, with a lock around the cache and one per           *)
(* connection; each peer serves a connection with a thread of its own.     *)
(*                                                                         *)
(* TCP is two streams of cells that arrive in order and in pieces of any   *)
(* size.  A header is HeaderCells cells; what it says is in the first one  *)
(* and can be used only when all have arrived.  A payload has a cell per   *)
(* byte.  sendall appends at once; what a peer that dies had not got onto  *)
(* the network yet is a suffix of its stream that is lost.                 *)
(***************************************************************************)
EXTENDS Naturals, Sequences, FiniteSets

CONSTANTS
    Readers,      \* threads that share one backend
    Peers,        \* the servers they read from
    Regions,      \* what a peer may register: [first, last], last exclusive
    Ranges,       \* what a reader may ask for: [first, last]
    NoPeer, NoRange, NoReader, NoConn,
    HeaderCells,  \* cells in a header
    MayFail,      \* bound: the peers that may stop, die or fall silent
    MayClose,     \* bound: whether the reading process closes its backend as well
    MaxReads,     \* bound: reads of all threads together
    MaxConns      \* bound: connections made

ASSUME TransferAssumption ==
    /\ HeaderCells \in Nat \ {0}
    /\ MayFail \subseteq Peers
    /\ MayClose \in BOOLEAN
    /\ MaxReads \in Nat
    /\ MaxConns \in Nat
    /\ NoPeer \notin Peers
    /\ NoReader \notin Readers
    /\ NoConn \notin Nat
    /\ \A range \in Regions \cup Ranges :
           /\ range.first \in Nat
           /\ range.last \in Nat
           /\ range.first <= range.last

VARIABLES
    regions,    \* peer -> its _regions
    server,     \* peer -> "up", "stopped" by close(), "closed" when its process has
                \* ended, or "silent" when its host is gone
    accepting,  \* peer -> whether its accept thread is alive
    conns,      \* every connection ever made, see NewConn
    peersTable, \* _peers: peer -> the connection cached for it
    closing,    \* the connections that close() took out of _peers and has yet to close
    peersLock,  \* who holds _peers_lock
    connLocks,  \* connection -> who holds its lock
    reader,     \* thread -> its latest read, see NewRead
    reads       \* the number of reads begun

tcpVars == <<regions, server, accepting, conns, peersTable, closing, peersLock,
             connLocks, reader, reads>>

\* requests and replies are the two streams; handler is where the peer's thread is, or
\* "backlog" before accept() has returned the connection, or "unserved" when it has and
\* no thread could be started for it;
\* open says that this process has not closed its end; late counts the reads served
\* after the peer's close().
NewConn(p) == [peer |-> p, requests |-> <<>>, replies |-> <<>>, header |-> <<>>,
               handler |-> "backlog", open |-> TRUE, late |-> 0]

\* verdict is what the peer decided of this read, if it has.
NewRead(p, range) == [pc |-> "peer", peer |-> p, want |-> range, conn |-> NoConn,
                      header |-> <<>>, target |-> <<>>, verdict |-> "pending"]

NoRead == [NewRead(NoPeer, NoRange) EXCEPT !.pc = "none"]

Ended == {"none", "done", "rejected", "failed"}

\* The cells of a header that says x.
Header(x) == [i \in 1 .. HeaderCells |-> x]

Size(range) == range.last - range.first

Payload(p, range) == [i \in 1 .. Size(range) |-> [of |-> p, byte |-> range.first + i - 1]]

\* Connection c without a handler.
Over(c, how) == [c EXCEPT !.handler = how, !.requests = <<>>, !.header = <<>>]

With(f, key, value) ==
    [k \in DOMAIN f \cup {key} |-> IF k = key THEN value ELSE f[k]]

TcpInit ==
    /\ regions = [p \in Peers |-> {}]
    /\ server = [p \in Peers |-> "up"]
    /\ accepting = [p \in Peers |-> TRUE]
    /\ conns = <<>>
    /\ peersTable = [p \in {} |-> p]
    /\ closing = {}
    /\ peersLock = NoReader
    /\ connLocks = [i \in 1 .. MaxConns |-> NoReader]
    /\ reader = [r \in Readers |-> NoRead]
    /\ reads = 0

-----------------------------------------------------------------------------
(* A thread that reads.                                                    *)

Goes(r, pc) == reader' = [reader EXCEPT ![r].pc = pc]

BeginRead(r, p, range) ==
    /\ reader[r].pc \in Ended
    /\ reads < MaxReads
    /\ reads' = reads + 1
    /\ reader' = [reader EXCEPT ![r] = NewRead(p, range)]
    /\ UNCHANGED <<regions, server, accepting, conns, peersTable, closing, peersLock,
                   connLocks>>

\* Faulty variant: the cache is looked up without holding its lock.
LookUpUnlocked(r) ==
    /\ reader[r].pc = "peer"
    /\ LET p == reader[r].peer IN
       IF p \in DOMAIN peersTable
       THEN reader' = [reader EXCEPT ![r].pc = "lock", ![r].conn = peersTable[p]]
       ELSE Goes(r, "connect")
    /\ UNCHANGED <<regions, server, accepting, conns, peersTable, closing, peersLock,
                   connLocks, reads>>

\* _peer takes the lock of the cache; it keeps it only to connect.
LookUp(r) ==
    /\ reader[r].pc = "peer"
    /\ peersLock = NoReader
    /\ LET p == reader[r].peer IN
       IF p \in DOMAIN peersTable
       THEN /\ reader' = [reader EXCEPT ![r].pc = "lock", ![r].conn = peersTable[p]]
            /\ UNCHANGED peersLock
       ELSE /\ Goes(r, "connect")
            /\ peersLock' = r
    /\ UNCHANGED <<regions, server, accepting, conns, peersTable, closing, connLocks,
                   reads>>

\* The handshake is the kernel's: it needs a listener that is open, not a thread that
\* accepts.  A listener closed under a thread blocked in accept is open until that
\* call returns.
ConnectPeer(r) ==
    LET p == reader[r].peer IN
    /\ reader[r].pc = "connect"
    /\ server[p] = "up" \/ (server[p] = "stopped" /\ accepting[p])
    /\ Len(conns) < MaxConns
    /\ conns' = Append(conns, NewConn(p))
    /\ peersTable' = With(peersTable, p, Len(conns) + 1)
    /\ peersLock' = NoReader
    /\ reader' = [reader EXCEPT ![r].pc = "lock", ![r].conn = Len(conns) + 1]
    /\ UNCHANGED <<regions, server, accepting, closing, connLocks, reads>>

\* Faulty variant: a failed connect leaves the cache locked.
ConnectFailsHolding(r) ==
    /\ reader[r].pc = "connect"
    /\ Goes(r, "failed")
    /\ UNCHANGED <<regions, server, accepting, conns, peersTable, closing, peersLock,
                   connLocks, reads>>

\* Refused, or timed out after 30 seconds: the lock is held until then.
ConnectFails(r) ==
    /\ reader[r].pc = "connect"
    /\ peersLock' = NoReader
    /\ Goes(r, "failed")
    /\ UNCHANGED <<regions, server, accepting, conns, peersTable, closing, connLocks,
                   reads>>

Mine(r) == conns[reader[r].conn]
Locked(r) == connLocks' = [connLocks EXCEPT ![reader[r].conn] = r]
Unlocked(r) == connLocks' = [connLocks EXCEPT ![reader[r].conn] = NoReader]

\* The lock, then the request.  Sending to a peer that has closed succeeds, or
\* fails as the receive that follows would.
SendRequest(r) ==
    /\ reader[r].pc = "lock"
    /\ connLocks[reader[r].conn] = NoReader
    /\ Mine(r).open
    /\ Locked(r)
    /\ conns' = IF Mine(r).handler \in {"closed", "silent"} THEN conns
                ELSE [conns EXCEPT ![reader[r].conn].requests =
                          @ \o Header([by |-> r, want |-> reader[r].want])]
    /\ Goes(r, "header")
    /\ UNCHANGED <<regions, server, accepting, peersTable, closing, peersLock, reads>>

\* The lock, then a socket that close() has closed.
SendFails(r) ==
    /\ reader[r].pc = "lock"
    /\ connLocks[reader[r].conn] = NoReader
    /\ ~Mine(r).open
    /\ Goes(r, "failed")
    /\ UNCHANGED <<regions, server, accepting, conns, peersTable, closing, peersLock,
                   connLocks, reads>>

\* recv may return any number of the cells that have arrived, up to n.
Received(stream, n) ==
    {k \in 1 .. Len(stream) : k <= n}

After(stream, k) == SubSeq(stream, k + 1, Len(stream))

RecvHeader(r) ==
    /\ reader[r].pc = "header"
    /\ \E k \in Received(Mine(r).replies, HeaderCells - Len(reader[r].header)) :
           LET got == reader[r].header \o SubSeq(Mine(r).replies, 1, k) IN
           /\ conns' = [conns EXCEPT ![reader[r].conn].replies = After(@, k)]
           /\ reader' = [reader EXCEPT
                            ![r].header = got,
                            ![r].pc = IF Len(got) = HeaderCells THEN "status" ELSE @]
    /\ UNCHANGED <<regions, server, accepting, peersTable, closing, peersLock,
                   connLocks, reads>>

\* Faulty variant: the lock is held for the header only.
ReadStatusUnlocking(r) ==
    /\ reader[r].pc = "status"
    /\ Goes(r, IF reader[r].header[1].ok THEN "payload" ELSE "rejected")
    /\ Unlocked(r)
    /\ UNCHANGED <<regions, server, accepting, conns, peersTable, closing, peersLock,
                   reads>>

\* The reply's first word: go on, or raise with the connection left in the cache.
ReadStatus(r) ==
    /\ reader[r].pc = "status"
    /\ IF reader[r].header[1].ok
       THEN Goes(r, "payload") /\ UNCHANGED connLocks
       ELSE Goes(r, "rejected") /\ Unlocked(r)
    /\ UNCHANGED <<regions, server, accepting, conns, peersTable, closing, peersLock,
                   reads>>

Missing(r) == reader[r].header[1].n - Len(reader[r].target)

RecvPayload(r) ==
    /\ reader[r].pc = "payload"
    /\ \E k \in Received(Mine(r).replies, Missing(r)) :
           /\ conns' = [conns EXCEPT ![reader[r].conn].replies = After(@, k)]
           /\ reader' = [reader EXCEPT
                            ![r].target = @ \o SubSeq(Mine(r).replies, 1, k)]
    /\ UNCHANGED <<regions, server, accepting, peersTable, closing, peersLock,
                   connLocks, reads>>

PayloadDone(r) ==
    /\ reader[r].pc = "payload"
    /\ Missing(r) = 0
    /\ Goes(r, "done")
    /\ Unlocked(r)
    /\ UNCHANGED <<regions, server, accepting, conns, peersTable, closing, peersLock,
                   reads>>

\* Faulty variant: a payload cut short is taken for a whole one.
EndOfStreamAccepted(r) ==
    /\ reader[r].pc \in {"header", "payload"}
    /\ reader[r].pc = "payload" => Missing(r) # 0
    /\ \/ Mine(r).replies = <<>> /\ Mine(r).handler = "closed"
       \/ ~Mine(r).open
    /\ Goes(r, IF reader[r].pc = "payload" THEN "done" ELSE "failed")
    /\ Unlocked(r)
    /\ UNCHANGED <<regions, server, accepting, conns, peersTable, closing, peersLock,
                   reads>>

\* The stream ends, or this process closed the socket, where more was expected:
\* ConnectionError or OSError.
EndOfStream(r) ==
    /\ reader[r].pc \in {"header", "payload"}
    /\ reader[r].pc = "payload" => Missing(r) # 0
    /\ \/ Mine(r).replies = <<>> /\ Mine(r).handler = "closed"
       \/ ~Mine(r).open
    /\ Goes(r, "failed")
    /\ Unlocked(r)
    /\ UNCHANGED <<regions, server, accepting, conns, peersTable, closing, peersLock,
                   reads>>

\* close() of the reading backend empties the cache under its lock; a later read
\* connects again.
SwapPeers ==
    /\ MayClose
    /\ peersLock = NoReader
    /\ DOMAIN peersTable # {}
    /\ closing' = closing \cup {peersTable[p] : p \in DOMAIN peersTable}
    /\ peersTable' = [p \in {} |-> p]
    /\ UNCHANGED <<regions, server, accepting, conns, peersLock, connLocks, reader,
                   reads>>

\* It then closes what was cached, one by one and without the lock.
CloseConn(i) ==
    /\ i \in closing
    /\ conns' = [conns EXCEPT ![i].open = FALSE]
    /\ closing' = closing \ {i}
    /\ UNCHANGED <<regions, server, accepting, peersTable, peersLock, connLocks, reader,
                   reads>>

-----------------------------------------------------------------------------
(* A peer.                                                                 *)

Register(p, region) ==
    /\ server[p] = "up"
    /\ regions' = [regions EXCEPT ![p] = @ \cup {region}]
    /\ UNCHANGED <<server, accepting, conns, peersTable, closing, peersLock,
                   connLocks, reader, reads>>

\* close() of the serving backend: handlers see the flag when they next look.
StopServing(p) ==
    /\ p \in MayFail
    /\ server[p] = "up"
    /\ server' = [server EXCEPT ![p] = "stopped"]
    /\ UNCHANGED <<regions, accepting, conns, peersTable, closing, peersLock, connLocks,
                   reader, reads>>

\* The accept loop of a stopped server ends at its look at the flag, or because accept
\* fails on the closed listener.
AcceptEnds(p) ==
    /\ server[p] = "stopped"
    /\ accepting[p]
    /\ accepting' = [accepting EXCEPT ![p] = FALSE]
    /\ UNCHANGED <<regions, server, conns, peersTable, closing, peersLock, connLocks, reader,
                   reads>>

\* accept fails though nobody stopped the server (no descriptor is left, say): the
\* error is logged, the loop left, and the listener stays open.
AcceptFails(p) ==
    /\ p \in MayFail
    /\ server[p] = "up"
    /\ accepting[p]
    /\ accepting' = [accepting EXCEPT ![p] = FALSE]
    /\ UNCHANGED <<regions, server, conns, peersTable, closing, peersLock, connLocks, reader,
                   reads>>

\* The process ends, which closes its sockets, or its host is gone and nothing is
\* heard of it any more.  Any suffix of what it had sent may be lost.
Die(p, how) ==
    /\ p \in MayFail
    /\ server[p] \in {"up", "stopped"}
    /\ server' = [server EXCEPT ![p] = how]
    /\ \E kept \in [DOMAIN conns -> 0 .. HeaderCells + 2] :
           /\ \A i \in DOMAIN conns : kept[i] <= Len(conns[i].replies)
           /\ conns' = [i \in DOMAIN conns |->
                  IF conns[i].peer = p /\ conns[i].handler # "closed"
                  THEN [Over(conns[i], how) EXCEPT !.replies = SubSeq(@, 1, kept[i])]
                  ELSE conns[i]]
    /\ UNCHANGED <<regions, accepting, peersTable, closing, peersLock, connLocks, reader,
                   reads>>

-----------------------------------------------------------------------------
(* The thread that serves connection i.                                    *)

Handler(i) == conns[i].handler
HandlerGoes(i, to) == conns' = [conns EXCEPT ![i].handler = to]
HandlerEnds(i) == conns' = [conns EXCEPT ![i] = Over(@, "closed")]

\* accept returns connection i and a handler is started.  The loop then ends if the
\* server was stopped.
Accept(i) ==
    LET p == conns[i].peer IN
    /\ Handler(i) = "backlog"
    /\ server[p] \in {"up", "stopped"}
    /\ accepting[p]
    /\ HandlerGoes(i, "top")
    /\ accepting' = [accepting EXCEPT ![p] = server[p] = "up"]
    /\ UNCHANGED <<regions, server, peersTable, closing, peersLock, connLocks, reader,
                   reads>>

\* Starting the handler raises, which ends the accept thread.  _handlers has the
\* handler already, and so keeps the connection open that nobody serves.
HandlerUnstarted(i) ==
    LET p == conns[i].peer IN
    /\ p \in MayFail
    /\ Handler(i) = "backlog"
    /\ server[p] \in {"up", "stopped"}
    /\ accepting[p]
    /\ HandlerGoes(i, "unserved")
    /\ accepting' = [accepting EXCEPT ![p] = FALSE]
    /\ UNCHANGED <<regions, server, peersTable, closing, peersLock, connLocks, reader,
                   reads>>

\* With its listener gone, the kernel resets what was never accepted.
ResetConn(i) ==
    /\ Handler(i) = "backlog"
    /\ server[conns[i].peer] = "stopped"
    /\ ~accepting[conns[i].peer]
    /\ HandlerEnds(i)
    /\ UNCHANGED <<regions, server, accepting, peersTable, closing, peersLock, connLocks,
                   reader, reads>>

\* Faulty variant: the loop does not look at the stop flag.
HandlerTopBlind(i) ==
    /\ Handler(i) = "top"
    /\ HandlerGoes(i, "recv")
    /\ UNCHANGED <<regions, server, accepting, peersTable, closing, peersLock,
                   connLocks, reader, reads>>

HandlerTop(i) ==
    /\ Handler(i) = "top"
    /\ IF server[conns[i].peer] = "up" THEN HandlerGoes(i, "recv") ELSE HandlerEnds(i)
    /\ UNCHANGED <<regions, server, accepting, peersTable, closing, peersLock,
                   connLocks, reader, reads>>

HandlerRecv(i) ==
    /\ Handler(i) = "recv"
    /\ \E k \in Received(conns[i].requests, HeaderCells - Len(conns[i].header)) :
           LET got == conns[i].header \o SubSeq(conns[i].requests, 1, k) IN
           conns' = [conns EXCEPT ![i].requests = After(@, k),
                                  ![i].header = got,
                                  ![i].handler = IF Len(got) = HeaderCells
                                                 THEN "check" ELSE @]
    /\ UNCHANGED <<regions, server, accepting, peersTable, closing, peersLock,
                   connLocks, reader, reads>>

\* This process closed its end, and nothing more is to come.
HandlerEof(i) ==
    /\ Handler(i) = "recv"
    /\ ~conns[i].open
    /\ conns[i].requests = <<>>
    /\ HandlerEnds(i)
    /\ UNCHANGED <<regions, server, accepting, peersTable, closing, peersLock,
                   connLocks, reader, reads>>

\* Sending to this process after it closed its end may fail: the loop is left.
HandlerSendFails(i) ==
    /\ Handler(i) = "check"
    /\ ~conns[i].open
    /\ HandlerEnds(i)
    /\ UNCHANGED <<regions, server, accepting, peersTable, closing, peersLock,
                   connLocks, reader, reads>>

\* _is_served: in full within one registered region.
IsServed(p, range) ==
    \E region \in regions[p] : region.first <= range.first /\ range.last <= region.last

Request(i) == conns[i].header[1]

\* The read the request belongs to, if its thread still waits for it on i.
Decided(i, verdict) ==
    reader' = [r \in Readers |->
        IF r = Request(i).by /\ reader[r].conn = i /\ reader[r].pc \notin Ended
        THEN [reader[r] EXCEPT !.verdict = verdict] ELSE reader[r]]

ServeRequest(i) ==
    LET p == conns[i].peer
        range == Request(i).want
    IN
    /\ Handler(i) = "check"
    /\ IsServed(p, range)
    /\ conns' = [conns EXCEPT
                    ![i].replies = @ \o Header([ok |-> TRUE, n |-> Size(range)])
                                     \o Payload(p, range),
                    ![i].header = <<>>,
                    ![i].handler = "top",
                    ![i].late = IF server[p] = "stopped" THEN @ + 1 ELSE @]
    /\ Decided(i, "granted")
    /\ UNCHANGED <<regions, server, accepting, peersTable, closing, peersLock,
                   connLocks, reads>>

\* Faulty variant: a refused request is dropped and the next one awaited.
DropRequest(i) ==
    /\ Handler(i) = "check"
    /\ ~IsServed(conns[i].peer, Request(i).want)
    /\ conns' = [conns EXCEPT ![i].header = <<>>, ![i].handler = "top"]
    /\ Decided(i, "refused")
    /\ UNCHANGED <<regions, server, accepting, peersTable, closing, peersLock,
                   connLocks, reads>>

\* Status 1, no payload, and the connection is closed.
RejectRequest(i) ==
    /\ Handler(i) = "check"
    /\ ~IsServed(conns[i].peer, Request(i).want)
    /\ conns' = [conns EXCEPT
                    ![i].replies = @ \o Header([ok |-> FALSE, n |-> 0]),
                    ![i].header = <<>>,
                    ![i].handler = "closed"]
    /\ Decided(i, "refused")
    /\ UNCHANGED <<regions, server, accepting, peersTable, closing, peersLock,
                   connLocks, reads>>

-----------------------------------------------------------------------------
Reading(r) ==
    \/ LookUp(r)
    \/ ConnectPeer(r)
    \/ ConnectFails(r)
    \/ SendRequest(r)
    \/ SendFails(r)
    \/ RecvHeader(r)
    \/ ReadStatus(r)
    \/ RecvPayload(r)
    \/ PayloadDone(r)
    \/ EndOfStream(r)

Handling(i) ==
    \/ Accept(i)
    \/ ResetConn(i)
    \/ HandlerTop(i)
    \/ HandlerRecv(i)
    \/ HandlerEof(i)
    \/ HandlerSendFails(i)
    \/ ServeRequest(i)
    \/ RejectRequest(i)

TcpNext ==
    \/ \E r \in Readers :
           \/ \E p \in Peers, range \in Ranges : BeginRead(r, p, range)
           \/ Reading(r)
    \/ SwapPeers
    \/ \E i \in closing : CloseConn(i)
    \/ \E p \in Peers :
           \/ \E region \in Regions : Register(p, region)
           \/ StopServing(p)
           \/ AcceptEnds(p)
           \/ AcceptFails(p)
           \/ \E how \in {"closed", "silent"} : Die(p, how)
    \/ \E i \in DOMAIN conns : Handling(i) \/ HandlerUnstarted(i)

TcpSpec == TcpInit /\ [][TcpNext]_tcpVars

\* A thread that can go on does, and so does the kernel.  A lock is taken by somebody
\* waiting for it; with finitely many reads everybody gets it (Python's locks promise
\* no more).  Nothing makes an accept thread fail, or wakes one that is blocked in
\* accept when its listener is closed.
TcpFairness ==
    /\ \A r \in Readers : WF_tcpVars(Reading(r))
    /\ \A i \in 1 .. MaxConns : WF_tcpVars(i \in DOMAIN conns /\ Handling(i))

TcpFairSpec == TcpSpec /\ TcpFairness

-----------------------------------------------------------------------------
\* The shape of the state, and the lock discipline: the cache is locked by the one
\* thread that connects, a connection by the one thread that awaits its reply.
TcpTypeOK ==
    /\ regions \in [Peers -> SUBSET Regions]
    /\ server \in [Peers -> {"up", "stopped", "closed", "silent"}]
    /\ accepting \in [Peers -> BOOLEAN]
    /\ closing \subseteq DOMAIN conns
    /\ Len(conns) <= MaxConns
    /\ \A i \in DOMAIN conns :
           /\ conns[i].peer \in Peers
           /\ conns[i].handler \in
                  {"backlog", "unserved", "top", "recv", "check", "closed", "silent"}
           /\ Len(conns[i].header) <= HeaderCells
    /\ \A p \in DOMAIN peersTable :
           peersTable[p] \in DOMAIN conns /\ conns[peersTable[p]].peer = p
    /\ peersLock \in Readers \cup {NoReader}
    /\ \A r \in Readers : peersLock = r <=> reader[r].pc = "connect"
    /\ connLocks \in [1 .. MaxConns -> Readers \cup {NoReader}]
    /\ \A i \in DOMAIN connLocks, r \in Readers :
           connLocks[i] = r <=>
               reader[r].conn = i /\ reader[r].pc \in {"header", "status", "payload"}
    /\ reads \in 0 .. MaxReads
    /\ \A r \in Readers :
           /\ reader[r].pc \in Ended \cup
                  {"peer", "connect", "lock", "header", "status", "payload"}
           /\ reader[r].conn \in DOMAIN conns \cup {NoConn}

\* A connection whose lock is free carries nothing of an earlier read, so the next
\* reader's reply is its own: no failed, refused or finished read leaves cells
\* behind on a connection that is used again.
CleanBetweenReads ==
    \A i \in DOMAIN conns :
        (conns[i].open /\ connLocks[i] = NoReader) =>
            /\ conns[i].requests = <<>>
            /\ conns[i].header = <<>>
            /\ conns[i].replies = <<>>

\* A connection is open as long as somebody has it: it is the one cached for its peer,
\* or close() took it out of the cache and has yet to close it.  So outside close()'s
\* hands there is one per peer at most: none is opened twice by threads that miss the
\* cache together, and lost.  While close() is between its two steps a reader may
\* open a second one.
OpenIsOwned ==
    \A i \in DOMAIN conns :
        conns[i].open <=>
            \/ i \in closing
            \/ conns[i].peer \in DOMAIN peersTable /\ peersTable[conns[i].peer] = i

\* close() of a server takes effect on a connection after one more read at most:
\* the handler looks at the flag only between two requests.
OneMoreAfterStop == \A i \in DOMAIN conns : conns[i].late <= 1

\* Nobody is there to answer on the connection of r: the host is gone without a word,
\* or the accept thread failed, either before it took the connection, in a server that
\* is up with its listener open, or when it was to start a handler for it.
NobodyAnswers(r) ==
    \/ \E p \in Peers : p = reader[r].peer /\ server[p] = "silent"
    \/ /\ reader[r].conn # NoConn
       /\ \/ Mine(r).handler = "unserved"
          \/ /\ Mine(r).handler = "backlog"
             /\ server[Mine(r).peer] = "up"
             /\ ~accepting[Mine(r).peer]

\* Every read ends, unless nobody is there to answer it, which the reader never learns
\* because no receive has a timeout.  A peer that stops, dies or refuses leaves no
\* reader waiting, stopped with connections that it has not accepted or not; and a
\* peer that leaves one waiting stalls only the readers of that connection, though
\* the lock of the cache is held across a connect.
EveryReadEnds ==
    \A r \in Readers :
        reader[r].pc \notin Ended ~> (reader[r].pc \in Ended \/ NobodyAnswers(r))

\* The data plane implements its promise: a read that returns has exactly the bytes
\* it asked for, one that is refused asked for what was not registered in full at
\* that moment, whatever is cut into pieces, shared or lost on the way.
StateOf(r) ==
    IF reader[r].pc \in Ended THEN reader[r].pc ELSE reader[r].verdict

Transfer ==
    INSTANCE TransferSpec WITH
        served <- regions,
        op <- [r \in Readers |->
                  [state |-> StateOf(r),
                   peer  |-> reader[r].peer,
                   want  |-> reader[r].want,
                   data  |-> IF reader[r].pc = "done" THEN reader[r].target ELSE <<>>]]

ImplementsTransfer == Transfer!TransferSpecification
==============================================================================
