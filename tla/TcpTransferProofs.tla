-------------------------- MODULE TcpTransferProofs --------------------------
(***************************************************************************)
(* Theorems about the tcp data plane, for any number of threads, peers,    *)
(* regions, ranges, reads and connections and for headers of any length.   *)
(* Everything follows from one picture of a connection whose lock is held: *)
(* either the holder's request is on its way, or what the holder has       *)
(* received, followed by what is still in the stream, is a prefix of the   *)
(* one answer to that request - and the whole of it while the peer lives.  *)
(***************************************************************************)
EXTENDS TcpTransfer, TLAPS

Awaiting == {"header", "status", "payload"}
OnStream == {"lock"} \cup Awaiting

\* Where the peer's end of a connection that is not over may be.
Living == {"backlog", "unserved", "top", "recv", "check"}

RequestCell == [by : Readers, want : Ranges]
ReplyCell == [ok : BOOLEAN, n : Nat] \cup [of : Peers, byte : Nat]

ConnRecord ==
    [peer : Peers, requests : Seq(RequestCell), replies : Seq(ReplyCell),
     header : Seq(RequestCell), handler : Living \cup {"closed", "silent"},
     open : BOOLEAN, late : Nat]

ReaderRecord ==
    [pc : Ended \cup {"peer", "connect", "lock"} \cup Awaiting,
     peer : Peers \cup {NoPeer}, want : Ranges \cup {NoRange}, conn : Nat \cup {NoConn},
     header : Seq(ReplyCell), target : Seq(ReplyCell),
     verdict : {"pending", "granted", "refused"}]

Shapes ==
    /\ regions \in [Peers -> SUBSET Regions]
    /\ server \in [Peers -> {"up", "stopped", "closed", "silent"}]
    /\ conns \in Seq(ConnRecord) /\ Len(conns) <= MaxConns
    /\ peersLock \in Readers \cup {NoReader}
    /\ connLocks \in [1 .. MaxConns -> Readers \cup {NoReader}]
    /\ reader \in [Readers -> ReaderRecord]
    /\ reads \in 0 .. MaxReads

\* Where a handler is says how much of a request it has.
HandlerOK(c) ==
    /\ Len(c.header) <= HeaderCells
    /\ c.header # <<>> => c.handler \in {"recv", "check"}
    /\ c.handler = "check" <=> Len(c.header) = HeaderCells

\* A read that was served after the stop sends the handler to the top of its loop.
LateOK(c, states) ==
    /\ c.late <= 1
    /\ c.late = 1 => /\ states[c.peer] # "up"
                     /\ c.handler \in {"top", "closed", "silent"}

\* Where a reader is says what it has received.
ReaderOK(x) ==
    /\ x.pc # "none" => x.peer \in Peers /\ x.want \in Ranges
    /\ x.pc \in {"peer", "connect", "lock"} =>
           x.verdict = "pending" /\ x.header = <<>> /\ x.target = <<>>
    /\ x.pc \in {"peer", "connect"} => x.conn = NoConn
    /\ x.pc = "header" => Len(x.header) < HeaderCells /\ x.target = <<>>
    /\ x.pc = "status" => Len(x.header) = HeaderCells /\ x.target = <<>>
    /\ x.pc = "payload" => Len(x.header) = HeaderCells /\ x.verdict = "granted"
    /\ x.pc = "done" => x.target = Payload(x.peer, x.want)

\* A reader's connection is one to the peer it reads from.
Linked(x, cs) ==
    /\ x.conn \in DOMAIN cs \cup {NoConn}
    /\ x.pc \in OnStream =>
           x.conn \in DOMAIN cs /\ cs[x.conn].peer = x.peer

LocksOK ==
    /\ \A r \in Readers : peersLock = r <=> reader[r].pc = "connect"
    /\ \A i \in DOMAIN connLocks, r \in Readers :
           connLocks[i] = r <=> reader[r].conn = i /\ reader[r].pc \in Awaiting

\* What is cached is open, and so is what close() has yet to close, which is not cached
\* any more.  Nothing else is.
CacheOK ==
    /\ DOMAIN peersTable \subseteq Peers
    /\ closing \subseteq DOMAIN conns
    /\ \A p \in DOMAIN peersTable :
           /\ peersTable[p] \in DOMAIN conns
           /\ conns[peersTable[p]].peer = p
           /\ conns[peersTable[p]].open
           /\ peersTable[p] \notin closing
    /\ OpenIsOwned
    /\ \A r \in Readers : reader[r].pc = "connect" => reader[r].peer \notin DOMAIN peersTable

\* The answer to a request as decided, cell by cell.
Total(x) ==
    IF x.verdict = "granted" THEN HeaderCells + Size(x.want)
    ELSE IF x.verdict = "refused" THEN HeaderCells ELSE 0

Status(x) ==
    IF x.verdict = "granted" THEN [ok |-> TRUE, n |-> Size(x.want)]
    ELSE [ok |-> FALSE, n |-> 0]

Cell(x, j) ==
    IF j <= HeaderCells THEN Status(x)
    ELSE [of |-> x.peer, byte |-> x.want.first + (j - HeaderCells) - 1]

Got(x) == Len(x.header) + Len(x.target)

\* What x has received and what the stream holds are the answer as far as they go.
Agrees(c, x) ==
    /\ \A k \in DOMAIN x.header : x.header[k] = Cell(x, k)
    /\ \A k \in DOMAIN x.target : x.target[k] = Cell(x, HeaderCells + k)
    /\ \A k \in DOMAIN c.replies : c.replies[k] = Cell(x, Got(x) + k)
    /\ Got(x) + Len(c.replies) <= Total(x)

\* Every request cell of c is r's and asks for what r wants.
OnlyOf(c, r, want) ==
    /\ \A k \in DOMAIN c.requests : c.requests[k].by = r /\ c.requests[k].want = want
    /\ \A k \in DOMAIN c.header : c.header[k].by = r /\ c.header[k].want = want

Asked(c, x, r) ==
    /\ x.verdict = "pending"
    /\ c.handler \in Living
    /\ Len(c.requests) + Len(c.header) = HeaderCells
    /\ OnlyOf(c, r, x.want)

Answered(c, x) ==
    /\ c.requests = <<>> /\ c.header = <<>>
    /\ \/ c.handler \in {"closed", "silent"}
       \/ x.verdict # "pending" /\ Got(x) + Len(c.replies) = Total(x)

Exchange(c, x, r) ==
    /\ Agrees(c, x)
    /\ Asked(c, x, r) \/ Answered(c, x)

Clean(c) == c.requests = <<>> /\ c.header = <<>> /\ c.replies = <<>>

\* No request of r is on c.
NoneOf(c, r) ==
    /\ \A k \in DOMAIN c.requests : c.requests[k].by # r
    /\ \A k \in DOMAIN c.header : c.header[k].by # r

\* A reader that waits for a connection has nothing on it; one that awaits a
\* reply is in an exchange.
SideOK(c, x, r) ==
    /\ x.pc = "lock" => NoneOf(c, r)
    /\ x.pc \in Awaiting => Exchange(c, x, r)

ConnsOK == \A i \in DOMAIN conns : HandlerOK(conns[i]) /\ LateOK(conns[i], server)

ReadersOK == \A r \in Readers : ReaderOK(reader[r]) /\ Linked(reader[r], conns)

StreamsOK ==
    /\ \A r \in Readers :
           reader[r].pc \in OnStream => SideOK(conns[reader[r].conn], reader[r], r)
    /\ \A i \in DOMAIN conns :
           conns[i].open /\ connLocks[i] = NoReader => Clean(conns[i])

TcpInv == Shapes /\ ConnsOK /\ ReadersOK /\ LocksOK /\ CacheOK /\ StreamsOK

-----------------------------------------------------------------------------
(* Sequences.                                                              *)

\* A stream cut after k cells.
LEMMA Cut ==
    ASSUME NEW S, NEW s \in Seq(S), NEW k \in 0 .. Len(s)
    PROVE  /\ SubSeq(s, 1, k) \in Seq(S) /\ Len(SubSeq(s, 1, k)) = k
           /\ \A j \in DOMAIN SubSeq(s, 1, k) : j \in DOMAIN s /\ SubSeq(s, 1, k)[j] = s[j]
           /\ After(s, k) \in Seq(S) /\ Len(After(s, k)) = Len(s) - k
           /\ \A j \in DOMAIN After(s, k) : k + j \in DOMAIN s /\ After(s, k)[j] = s[k + j]
  BY DEF After

\* One stream after another.
LEMMA Joined ==
    ASSUME NEW S, NEW s \in Seq(S), NEW t \in Seq(S)
    PROVE  /\ s \o t \in Seq(S) /\ Len(s \o t) = Len(s) + Len(t)
           /\ \A j \in DOMAIN (s \o t) :
                  \/ j \in DOMAIN s /\ (s \o t)[j] = s[j]
                  \/ j - Len(s) \in DOMAIN t /\ j = Len(s) + (j - Len(s)) /\ j > Len(s)
                     /\ (s \o t)[j] = t[j - Len(s)]
  OBVIOUS

\* The empty stream, and the length of a stream.
LEMMA EmptyStream ==
    ASSUME NEW S
    PROVE  /\ <<>> \in Seq(S) /\ Len(<<>>) = 0 /\ DOMAIN <<>> = {}
           /\ \A s \in Seq(S) : s = <<>> <=> Len(s) = 0
           /\ \A s \in Seq(S) : Len(s) \in Nat /\ DOMAIN s = 1 .. Len(s)
  OBVIOUS

\* Streams of the same cells are the same.
LEMMA SameStream ==
    ASSUME NEW S, NEW s \in Seq(S), NEW t \in Seq(S), Len(s) = Len(t),
           \A k \in 1 .. Len(s) : s[k] = t[k]
    PROVE  s = t
  OBVIOUS

\* A header is HeaderCells equal cells.
LEMMA HeaderIs ==
    ASSUME NEW S, NEW x \in S
    PROVE  /\ Header(x) \in Seq(S) /\ Len(Header(x)) = HeaderCells
           /\ DOMAIN Header(x) = 1 .. HeaderCells
           /\ \A k \in DOMAIN Header(x) : Header(x)[k] = x
  BY TransferAssumption DEF Header

\* The length of a range.
LEMMA SizeIsNat ==
    ASSUME NEW range \in Ranges
    PROVE  Size(range) \in Nat /\ range.first \in Nat
  BY TransferAssumption DEF Size

\* The payload of an answer, cell by cell.
LEMMA PayloadIs ==
    ASSUME NEW p \in Peers, NEW range \in Ranges
    PROVE  /\ Payload(p, range) \in Seq(ReplyCell)
           /\ Len(Payload(p, range)) = Size(range)
           /\ DOMAIN Payload(p, range) = 1 .. Size(range)
           /\ \A k \in 1 .. Size(range) :
                  Payload(p, range)[k] = [of |-> p, byte |-> range.first + k - 1]
  <1>1. Size(range) \in Nat /\ range.first \in Nat  BY SizeIsNat
  <1>2. \A k \in 1 .. Size(range) : [of |-> p, byte |-> range.first + k - 1] \in ReplyCell
    BY <1>1 DEF ReplyCell
  <1> QED  BY <1>1, <1>2 DEF Payload

\* The cells of an answer are reply cells.
LEMMA CellIsReply ==
    ASSUME NEW x, x.peer \in Peers, x.want \in Ranges, NEW j \in Nat \ {0}
    PROVE  /\ Cell(x, j) \in ReplyCell
           /\ Status(x) \in ReplyCell
           /\ Total(x) \in Nat
  <1>1. Size(x.want) \in Nat /\ x.want.first \in Nat  BY SizeIsNat
  <1>2. HeaderCells \in Nat \ {0}  BY TransferAssumption
  <1>3. Status(x) \in ReplyCell  BY <1>1 DEF Status, ReplyCell
  <1>4. j > HeaderCells =>
            [of |-> x.peer, byte |-> x.want.first + (j - HeaderCells) - 1] \in ReplyCell
    BY <1>1, <1>2 DEF ReplyCell
  <1>5. Total(x) \in Nat  BY <1>1, <1>2 DEF Total
  <1> QED  BY <1>2, <1>3, <1>4, <1>5 DEF Cell

-----------------------------------------------------------------------------
(* What a step that touches one reader or one connection leaves alone.     *)

\* Connections stay right that are as they were, under a server that is.
LEMMA ConnsFrame ==
    ASSUME ConnsOK, DOMAIN conns' = DOMAIN conns,
           \A i \in DOMAIN conns :
               \/ conns'[i] = conns[i] /\ server' = server
               \/ HandlerOK(conns'[i]) /\ LateOK(conns'[i], server')
    PROVE  ConnsOK'
  <1>1. \A i \in DOMAIN conns : HandlerOK(conns[i]) /\ LateOK(conns[i], server)
    BY DEF ConnsOK
  <1>2. \A i \in DOMAIN conns' : HandlerOK(conns'[i]) /\ LateOK(conns'[i], server')
    BY <1>1
  <1> QED  BY <1>2 DEF ConnsOK, HandlerOK, LateOK

\* So do readers, as long as their connections lead where they led.
LEMMA ReadersFrame ==
    ASSUME ReadersOK, DOMAIN conns \subseteq DOMAIN conns',
           \A i \in DOMAIN conns : conns'[i].peer = conns[i].peer,
           \A q \in Readers :
               \/ reader'[q] = reader[q]
               \/ ReaderOK(reader'[q]) /\ Linked(reader'[q], conns')
    PROVE  ReadersOK'
  <1>1. \A q \in Readers : ReaderOK(reader'[q])
    BY DEF ReadersOK
  <1>2. \A q \in Readers : Linked(reader'[q], conns')
    <2> SUFFICES ASSUME NEW q \in Readers, reader'[q] = reader[q]
                 PROVE  Linked(reader'[q], conns')
      OBVIOUS
    <2>1. Linked(reader[q], conns)  BY DEF ReadersOK
    <2> QED  BY <2>1 DEF Linked
  <1> QED  BY <1>1, <1>2 DEF ReadersOK, ReaderOK, Linked

\* The locks, when nobody takes or gives one.
LEMMA LocksFrame ==
    ASSUME LocksOK, UNCHANGED <<peersLock, connLocks>>,
           \A q \in Readers :
               /\ reader'[q].pc = "connect" <=> reader[q].pc = "connect"
               /\ reader'[q].pc \in Awaiting <=> reader[q].pc \in Awaiting
               /\ reader'[q].pc \in Awaiting => reader'[q].conn = reader[q].conn
    PROVE  LocksOK'
  BY DEF LocksOK

\* The cache, when nothing is connected or closed.
LEMMA CacheFrame ==
    ASSUME CacheOK, UNCHANGED <<peersTable, closing>>, DOMAIN conns' = DOMAIN conns,
           \A i \in DOMAIN conns :
               conns'[i].peer = conns[i].peer /\ conns'[i].open = conns[i].open,
           \A q \in Readers : reader'[q].pc = "connect" =>
               \/ reader[q].pc = "connect" /\ reader'[q].peer = reader[q].peer
               \/ reader'[q].peer \notin DOMAIN peersTable
    PROVE  CacheOK'
  BY DEF CacheOK, OpenIsOwned

\* The streams, when reader r acts on its own connection i, if on any.
LEMMA StreamsOfReader ==
    ASSUME ReadersOK, LocksOK, StreamsOK, NEW r \in Readers, NEW i,
           DOMAIN conns' = DOMAIN conns, DOMAIN connLocks = 1 .. MaxConns,
           DOMAIN conns \subseteq 1 .. MaxConns,
           \A q \in Readers : q # r => reader'[q] = reader[q],
           \A j \in DOMAIN conns : j # i =>
               /\ conns'[j] = conns[j]
               /\ connLocks'[j] = NoReader => connLocks[j] = NoReader,
           i \in DOMAIN conns =>
               /\ connLocks[i] \in {r, NoReader}
               /\ \A q \in Readers \ {r} : NoneOf(conns[i], q) => NoneOf(conns'[i], q)
               /\ conns'[i].open /\ connLocks'[i] = NoReader => Clean(conns'[i]),
           reader'[r].pc \in OnStream => SideOK(conns'[reader'[r].conn], reader'[r], r)
    PROVE  StreamsOK'
  <1>1. \A q \in Readers : reader'[q].pc \in OnStream =>
             SideOK(conns'[reader'[q].conn], reader'[q], q)
    <2> SUFFICES ASSUME NEW q \in Readers, q # r, reader[q].pc \in OnStream
                 PROVE  SideOK(conns'[reader[q].conn], reader[q], q)
      OBVIOUS
    <2> DEFINE j == reader[q].conn
    <2>1. j \in DOMAIN conns /\ SideOK(conns[j], reader[q], q)
      BY DEF ReadersOK, Linked, StreamsOK
    <2>2. CASE j # i  BY <2>1, <2>2
    <2>3. CASE j = i
      <3>1. connLocks[i] # q  BY <2>1, <2>3, TransferAssumption
      <3>2. reader[q].pc \notin Awaiting  BY <2>1, <2>3, <3>1 DEF LocksOK
      <3>3. NoneOf(conns[i], q)  BY <2>1, <2>3, <3>2 DEF SideOK, OnStream
      <3> QED  BY <2>1, <2>3, <3>2, <3>3 DEF SideOK
    <2> QED  BY <2>2, <2>3
  <1>2. \A j \in DOMAIN conns' :
             conns'[j].open /\ connLocks'[j] = NoReader => Clean(conns'[j])
    BY DEF StreamsOK
  <1> QED  BY <1>1, <1>2 DEF StreamsOK

\* The streams, when the handler of connection i acts.
LEMMA StreamsOfHandler ==
    ASSUME ReadersOK, StreamsOK, NEW i \in DOMAIN conns,
           DOMAIN conns' = DOMAIN conns, UNCHANGED connLocks,
           \A j \in DOMAIN conns : j # i => conns'[j] = conns[j],
           \A q \in Readers :
               /\ reader'[q].pc = reader[q].pc /\ reader'[q].conn = reader[q].conn
               /\ reader[q].conn # i => reader'[q] = reader[q],
           \A q \in Readers : reader[q].pc \in OnStream /\ reader[q].conn = i =>
               SideOK(conns'[i], reader'[q], q),
           conns'[i].open /\ connLocks[i] = NoReader => Clean(conns'[i])
    PROVE  StreamsOK'
  <1>1. \A q \in Readers : reader'[q].pc \in OnStream =>
             SideOK(conns'[reader'[q].conn], reader'[q], q)
    <2> SUFFICES ASSUME NEW q \in Readers, reader[q].pc \in OnStream
                 PROVE  SideOK(conns'[reader[q].conn], reader'[q], q)
      OBVIOUS
    <2>1. /\ reader[q].conn \in DOMAIN conns
          /\ SideOK(conns[reader[q].conn], reader[q], q)
      BY DEF ReadersOK, Linked, StreamsOK
    <2> QED  BY <2>1
  <1>2. \A j \in DOMAIN conns' :
             conns'[j].open /\ connLocks'[j] = NoReader => Clean(conns'[j])
    BY DEF StreamsOK
  <1> QED  BY <1>1, <1>2 DEF StreamsOK

-----------------------------------------------------------------------------
(* Steps of a reader that leave the streams alone.                         *)

\* The parts of the invariant that steps use, for each reader and connection.
LEMMA InvParts ==
    ASSUME TcpInv
    PROVE  /\ Shapes /\ ConnsOK /\ ReadersOK /\ LocksOK /\ CacheOK /\ StreamsOK
           /\ conns \in Seq(ConnRecord) /\ Len(conns) \in Nat /\ DOMAIN conns = 1 .. Len(conns)
           /\ DOMAIN conns \subseteq 1 .. MaxConns /\ DOMAIN connLocks = 1 .. MaxConns
           /\ \A i \in DOMAIN conns : conns[i] \in ConnRecord
           /\ \A r \in Readers :
                  /\ reader[r] \in ReaderRecord /\ ReaderOK(reader[r]) /\ Linked(reader[r], conns)
                  /\ reader[r].pc \in OnStream => SideOK(conns[reader[r].conn], reader[r], r)
  BY TransferAssumption DEF TcpInv, Shapes, ReadersOK, StreamsOK

\* A reader goes to another line; it changes nothing else.
LEMMA GoesTo ==
    ASSUME Shapes, NEW r \in Readers,
           NEW pc \in Ended \cup {"peer", "connect"} \cup OnStream, Goes(r, pc)
    PROVE  /\ reader' \in [Readers -> ReaderRecord]
           /\ \A q \in Readers : q # r => reader'[q] = reader[q]
           /\ reader'[r].pc = pc
           /\ reader'[r].peer = reader[r].peer /\ reader'[r].want = reader[r].want
           /\ reader'[r].conn = reader[r].conn /\ reader'[r].header = reader[r].header
           /\ reader'[r].target = reader[r].target /\ reader'[r].verdict = reader[r].verdict
  <1> DEFINE x == [reader[r] EXCEPT !.pc = pc]
  <1>1. reader[r] \in ReaderRecord  BY DEF Shapes
  <1>2. /\ x \in ReaderRecord /\ x.pc = pc /\ x.peer = reader[r].peer
        /\ x.want = reader[r].want /\ x.conn = reader[r].conn
        /\ x.header = reader[r].header /\ x.target = reader[r].target
        /\ x.verdict = reader[r].verdict
    BY <1>1 DEF ReaderRecord, OnStream
  <1>3. reader' = [reader EXCEPT ![r] = x]  BY DEF Goes
  <1> HIDE DEF x
  <1> QED  BY <1>2, <1>3 DEF Shapes

\* r takes, or gives back, the lock of its connection.
LEMMA LockTaken ==
    ASSUME LocksOK, NEW r \in Readers, NEW i \in DOMAIN connLocks,
           reader[r].conn = i, connLocks[i] = NoReader, Locked(r), UNCHANGED peersLock,
           reader[r].pc = "lock", reader'[r].pc \in Awaiting, reader'[r].conn = i,
           \A q \in Readers : q # r => reader'[q] = reader[q]
    PROVE  LocksOK'
  <1>1. /\ DOMAIN connLocks' = DOMAIN connLocks /\ connLocks'[i] = r
        /\ \A j \in DOMAIN connLocks : j # i => connLocks'[j] = connLocks[j]
    BY DEF Locked
  <1>2. \A j \in DOMAIN connLocks, q \in Readers :
             connLocks'[j] = q <=> reader'[q].conn = j /\ reader'[q].pc \in Awaiting
    BY <1>1, TransferAssumption DEF LocksOK, Awaiting
  <1>3. \A q \in Readers : peersLock' = q <=> reader'[q].pc = "connect"
    BY DEF LocksOK, Awaiting
  <1> QED  BY <1>1, <1>2, <1>3 DEF LocksOK

\* A reader that ends gives up the lock of its connection.
LEMMA LockGiven ==
    ASSUME LocksOK, NEW r \in Readers, NEW i \in DOMAIN connLocks,
           reader[r].conn = i, Unlocked(r), UNCHANGED peersLock,
           reader[r].pc \in Awaiting, reader'[r].pc \in Ended,
           \A q \in Readers : q # r => reader'[q] = reader[q]
    PROVE  LocksOK'
  <1>1. /\ DOMAIN connLocks' = DOMAIN connLocks /\ connLocks'[i] = NoReader
        /\ \A j \in DOMAIN connLocks : j # i => connLocks'[j] = connLocks[j]
    BY DEF Unlocked
  <1>2. connLocks[i] = r  BY DEF LocksOK
  <1>3. \A j \in DOMAIN connLocks, q \in Readers :
             connLocks'[j] = q <=> reader'[q].conn = j /\ reader'[q].pc \in Awaiting
    BY <1>1, <1>2, TransferAssumption DEF LocksOK, Awaiting, Ended
  <1>4. \A q \in Readers : peersLock' = q <=> reader'[q].pc = "connect"
    BY DEF LocksOK, Awaiting, Ended
  <1> QED  BY <1>1, <1>3, <1>4 DEF LocksOK

\* The locals of a read that begins.
LEMMA NewReadIs ==
    ASSUME NEW p \in Peers, NEW range \in Ranges
    PROVE  /\ NewRead(p, range) \in ReaderRecord
           /\ ReaderOK(NewRead(p, range)) /\ Linked(NewRead(p, range), conns)
           /\ NewRead(p, range).pc = "peer" /\ NewRead(p, range).conn = NoConn
           /\ NewRead(p, range).peer = p /\ NewRead(p, range).want = range
           /\ NewRead(p, range).verdict = "pending"
  <1>1. <<>> \in Seq(ReplyCell)  BY EmptyStream
  <1> QED  BY <1>1 DEF NewRead, ReaderRecord, ReaderOK, Linked, OnStream, Awaiting

\* A read begins.
LEMMA BeginReadInv ==
    ASSUME TcpInv, NEW r \in Readers, NEW p \in Peers, NEW range \in Ranges,
           BeginRead(r, p, range)
    PROVE  TcpInv'
  <1> DEFINE x == NewRead(p, range)
  <1>1. /\ reader[r].pc \in Ended /\ reads < MaxReads /\ reads' = reads + 1
        /\ reader' = [reader EXCEPT ![r] = x]
        /\ UNCHANGED <<regions, server, conns, peersTable, closing, peersLock,
                       connLocks>>
    BY DEF BeginRead
  <1>2. /\ x \in ReaderRecord /\ ReaderOK(x) /\ Linked(x, conns) /\ x.pc = "peer"
    BY NewReadIs
  <1> HIDE DEF x
  <1>3. reader' \in [Readers -> ReaderRecord] /\ reader'[r] = x
        /\ \A q \in Readers : q # r => reader'[q] = reader[q]
    BY <1>1, <1>2, InvParts DEF Shapes
  <1>4. Shapes'
    <2>1. reads' \in 0 .. MaxReads  BY <1>1, InvParts, TransferAssumption DEF Shapes
    <2> QED  BY <1>1, <1>3, <2>1, InvParts DEF Shapes
  <1>5. ConnsOK'  BY <1>1, InvParts, ConnsFrame
  <1>6. ReadersOK'  BY <1>1, <1>2, <1>3, InvParts, ReadersFrame
  <1>7. LocksOK'  BY <1>1, <1>2, <1>3, InvParts, LocksFrame DEF Ended, Awaiting
  <1>8. CacheOK'  BY <1>1, <1>2, <1>3, InvParts, CacheFrame
  <1>9. StreamsOK'
    <2>1. reader'[r].pc \notin OnStream  BY <1>2, <1>3 DEF OnStream, Awaiting
    <2> QED  BY <1>1, <1>3, <2>1, InvParts, StreamsOfReader DEF StreamsOK
  <1> QED  BY <1>4, <1>5, <1>6, <1>7, <1>8, <1>9 DEF TcpInv

\* A reader finds a cached connection, or is to open one.
LEMMA LookUpInv ==
    ASSUME TcpInv, NEW r \in Readers, LookUp(r)
    PROVE  TcpInv'
  <1> DEFINE p == reader[r].peer
             i == peersTable[p]
  <1>1. /\ reader[r].pc = "peer" /\ peersLock = NoReader
        /\ UNCHANGED <<regions, server, conns, peersTable, closing, connLocks, reads>>
    BY DEF LookUp
  <1>2. /\ reader[r] \in ReaderRecord /\ ReaderOK(reader[r])
        /\ reader[r].conn = NoConn /\ reader[r].verdict = "pending"
        /\ reader[r].header = <<>> /\ reader[r].target = <<>>
        /\ p \in Peers /\ reader[r].want \in Ranges
    BY <1>1, InvParts DEF ReaderOK
  <1>3. CASE p \in DOMAIN peersTable
    <2> DEFINE x == [reader[r] EXCEPT !.pc = "lock", !.conn = i]
    <2>1. reader' = [reader EXCEPT ![r] = x] /\ UNCHANGED peersLock
      BY <1>3 DEF LookUp
    <2>2. i \in DOMAIN conns /\ conns[i].peer = p /\ conns[i].open /\ i \in Nat
      BY <1>3, InvParts DEF CacheOK
    <2>3. /\ x \in ReaderRecord /\ x.pc = "lock" /\ x.conn = i /\ x.peer = p
          /\ x.want = reader[r].want /\ x.verdict = "pending"
          /\ x.header = <<>> /\ x.target = <<>>
      BY <1>2, <2>2 DEF ReaderRecord, OnStream
    <2> HIDE DEF x
    <2>4. reader' \in [Readers -> ReaderRecord] /\ reader'[r] = x
          /\ \A q \in Readers : q # r => reader'[q] = reader[q]
      BY <2>1, <2>3, InvParts DEF Shapes
    <2>5. ReaderOK(x) /\ Linked(x, conns)
      BY <1>2, <2>2, <2>3 DEF ReaderOK, Linked
    <2>6. NoneOf(conns[i], r)
      <3>1. CASE connLocks[i] = NoReader
        <4>1. Clean(conns[i])  BY <2>2, <3>1, InvParts DEF StreamsOK
        <4> QED  BY <4>1, EmptyStream DEF Clean, NoneOf
      <3>2. CASE connLocks[i] # NoReader
        <4> DEFINE q == connLocks[i]
        <4>1. i \in DOMAIN connLocks  BY <2>2, InvParts
        <4>2. q \in Readers  BY <3>2, <4>1, InvParts DEF Shapes
        <4>3. reader[q].conn = i /\ reader[q].pc \in Awaiting
          BY <4>1, <4>2, InvParts DEF LocksOK
        <4>4. q # r  BY <1>1, <4>3 DEF Awaiting
        <4>5. Exchange(conns[i], reader[q], q)
          BY <4>2, <4>3, InvParts DEF SideOK, OnStream
        <4> HIDE DEF q
        <4>6. CASE Asked(conns[i], reader[q], q)
          BY <4>4, <4>6 DEF Asked, OnlyOf, NoneOf
        <4>7. CASE Answered(conns[i], reader[q])
          BY <4>7, EmptyStream DEF Answered, NoneOf
        <4> QED  BY <4>5, <4>6, <4>7 DEF Exchange
      <3> QED  BY <3>1, <3>2
    <2>7. Shapes'  BY <1>1, <2>1, <2>4, InvParts DEF Shapes
    <2>8. ConnsOK'  BY <1>1, InvParts, ConnsFrame
    <2>9. ReadersOK'  BY <1>1, <2>4, <2>5, InvParts, ReadersFrame
    <2>10. LocksOK'
      BY <1>1, <2>1, <2>3, <2>4, InvParts, LocksFrame DEF Awaiting
    <2>11. CacheOK'  BY <1>1, <2>3, <2>4, InvParts, CacheFrame
    <2>12. StreamsOK'
      <3>1. SideOK(conns'[x.conn], x, r)
        BY <1>1, <2>3, <2>6 DEF SideOK, Awaiting
      <3> QED  BY <1>1, <2>3, <2>4, <3>1, InvParts, StreamsOfReader
    <2> QED  BY <2>7, <2>8, <2>9, <2>10, <2>11, <2>12 DEF TcpInv
  <1>4. CASE p \notin DOMAIN peersTable
    <2>1. Goes(r, "connect") /\ peersLock' = r
      BY <1>4 DEF LookUp
    <2>2. /\ reader' \in [Readers -> ReaderRecord]
          /\ \A q \in Readers : q # r => reader'[q] = reader[q]
          /\ reader'[r].pc = "connect" /\ reader'[r].peer = p
          /\ reader'[r].want = reader[r].want /\ reader'[r].conn = NoConn
          /\ reader'[r].verdict = "pending"
          /\ reader'[r].header = <<>> /\ reader'[r].target = <<>>
      BY <1>2, <2>1, GoesTo, InvParts
    <2>3. ReaderOK(reader'[r]) /\ Linked(reader'[r], conns)
      BY <1>2, <2>2 DEF ReaderOK, Linked, OnStream, Awaiting
    <2>4. Shapes'  BY <1>1, <2>1, <2>2, InvParts DEF Shapes
    <2>5. ConnsOK'  BY <1>1, InvParts, ConnsFrame
    <2>6. ReadersOK'  BY <1>1, <2>2, <2>3, InvParts, ReadersFrame
    <2>7. LocksOK'
      <3>1. \A q \in Readers : q # r => reader[q].pc # "connect"
        BY <1>1, InvParts, TransferAssumption DEF LocksOK
      <3>2. \A q \in Readers : peersLock' = q <=> reader'[q].pc = "connect"
        BY <2>1, <2>2, <3>1
      <3>3. \A j \in DOMAIN connLocks, q \in Readers :
                 connLocks[j] = q <=> reader'[q].conn = j /\ reader'[q].pc \in Awaiting
        BY <1>1, <2>2, InvParts DEF LocksOK, Awaiting
      <3> QED  BY <1>1, <3>2, <3>3 DEF LocksOK
    <2>8. CacheOK'  BY <1>1, <1>4, <2>2, InvParts, CacheFrame
    <2>9. StreamsOK'
      <3>1. reader'[r].pc \notin OnStream  BY <2>2 DEF OnStream, Awaiting
      <3> QED  BY <1>1, <2>2, <3>1, InvParts, StreamsOfReader
    <2> QED  BY <2>4, <2>5, <2>6, <2>7, <2>8, <2>9 DEF TcpInv
  <1> QED  BY <1>3, <1>4

\* The peer does not answer: the read fails and the lock of the cache is free.
LEMMA ConnectFailsInv ==
    ASSUME TcpInv, NEW r \in Readers, ConnectFails(r)
    PROVE  TcpInv'
  <1>1. /\ reader[r].pc = "connect" /\ peersLock' = NoReader /\ Goes(r, "failed")
        /\ UNCHANGED <<regions, server, conns, peersTable, closing, connLocks, reads>>
    BY DEF ConnectFails
  <1>2. /\ reader' \in [Readers -> ReaderRecord]
        /\ \A q \in Readers : q # r => reader'[q] = reader[q]
        /\ reader'[r].pc = "failed" /\ reader'[r].peer = reader[r].peer
        /\ reader'[r].want = reader[r].want /\ reader'[r].conn = reader[r].conn
    BY <1>1, GoesTo, InvParts DEF Ended
  <1>3. ReaderOK(reader'[r]) /\ Linked(reader'[r], conns)
    BY <1>1, <1>2, InvParts DEF ReaderOK, Linked, OnStream, Awaiting
  <1>4. Shapes'  BY <1>1, <1>2, InvParts DEF Shapes
  <1>5. ConnsOK'  BY <1>1, InvParts, ConnsFrame
  <1>6. ReadersOK'  BY <1>1, <1>2, <1>3, InvParts, ReadersFrame
  <1>7. LocksOK'
    <2>1. \A q \in Readers : q # r => reader[q].pc # "connect"
      BY <1>1, InvParts, TransferAssumption DEF LocksOK
    <2>2. \A q \in Readers : peersLock' = q <=> reader'[q].pc = "connect"
      BY <1>1, <1>2, <2>1, TransferAssumption
    <2>3. \A j \in DOMAIN connLocks, q \in Readers :
               connLocks[j] = q <=> reader'[q].conn = j /\ reader'[q].pc \in Awaiting
      BY <1>1, <1>2, InvParts DEF LocksOK, Awaiting
    <2> QED  BY <1>1, <2>2, <2>3 DEF LocksOK
  <1>8. CacheOK'  BY <1>1, <1>2, InvParts, CacheFrame
  <1>9. StreamsOK'
    <2>1. reader'[r].pc \notin OnStream  BY <1>2 DEF OnStream, Awaiting
    <2> QED  BY <1>1, <1>2, <2>1, InvParts, StreamsOfReader
  <1> QED  BY <1>4, <1>5, <1>6, <1>7, <1>8, <1>9 DEF TcpInv

\* The connection is broken before the request is sent.
LEMMA SendFailsInv ==
    ASSUME TcpInv, NEW r \in Readers, SendFails(r)
    PROVE  TcpInv'
  <1>1. /\ reader[r].pc = "lock" /\ Goes(r, "failed")
        /\ UNCHANGED <<regions, server, conns, peersTable, closing, peersLock,
                       connLocks, reads>>
    BY DEF SendFails
  <1>2. /\ reader' \in [Readers -> ReaderRecord]
        /\ \A q \in Readers : q # r => reader'[q] = reader[q]
        /\ reader'[r].pc = "failed" /\ reader'[r].peer = reader[r].peer
        /\ reader'[r].want = reader[r].want /\ reader'[r].conn = reader[r].conn
    BY <1>1, GoesTo, InvParts DEF Ended
  <1>3. ReaderOK(reader'[r]) /\ Linked(reader'[r], conns)
    BY <1>1, <1>2, InvParts DEF ReaderOK, Linked, OnStream, Awaiting
  <1>4. Shapes'  BY <1>1, <1>2, InvParts DEF Shapes
  <1>5. ConnsOK'  BY <1>1, InvParts, ConnsFrame
  <1>6. ReadersOK'  BY <1>1, <1>2, <1>3, InvParts, ReadersFrame
  <1>7. LocksOK'  BY <1>1, <1>2, InvParts, LocksFrame DEF Awaiting
  <1>8. CacheOK'  BY <1>1, <1>2, InvParts, CacheFrame
  <1>9. StreamsOK'
    <2>1. reader'[r].pc \notin OnStream  BY <1>2 DEF OnStream, Awaiting
    <2> QED  BY <1>1, <1>2, <2>1, InvParts, StreamsOfReader
  <1> QED  BY <1>4, <1>5, <1>6, <1>7, <1>8, <1>9 DEF TcpInv

-----------------------------------------------------------------------------
(* Steps of a reader that holds the lock of its connection.                *)

\* What a reader that awaits an answer knows of its connection.
LEMMA MineIs ==
    ASSUME TcpInv, NEW r \in Readers, reader[r].pc \in Awaiting
    PROVE  /\ reader[r].conn \in DOMAIN conns /\ reader[r].conn \in DOMAIN connLocks
           /\ connLocks[reader[r].conn] = r
           /\ Mine(r) \in ConnRecord /\ HandlerOK(Mine(r)) /\ Mine(r).peer = reader[r].peer
           /\ reader[r].peer \in Peers /\ reader[r].want \in Ranges
           /\ reader[r].header \in Seq(ReplyCell) /\ reader[r].target \in Seq(ReplyCell)
           /\ Exchange(Mine(r), reader[r], r)
  <1>1. /\ reader[r].conn \in DOMAIN conns /\ reader[r].conn \in DOMAIN connLocks
        /\ conns[reader[r].conn].peer = reader[r].peer
    BY InvParts DEF Linked, OnStream
  <1>2. reader[r].pc # "none" /\ reader[r].pc # "lock"  BY DEF Awaiting
  <1>3. reader[r].peer \in Peers /\ reader[r].want \in Ranges
    BY <1>2, InvParts DEF ReaderOK
  <1>4. connLocks[reader[r].conn] = r  BY <1>1, InvParts DEF LocksOK
  <1>5. Exchange(conns[reader[r].conn], reader[r], r)
    BY InvParts DEF SideOK, OnStream
  <1>6. reader[r] \in ReaderRecord /\ conns[reader[r].conn] \in ConnRecord
        /\ HandlerOK(conns[reader[r].conn])
    BY <1>1, InvParts DEF ConnsOK
  <1> QED  BY <1>1, <1>3, <1>4, <1>5, <1>6 DEF Mine, ReaderRecord

\* A read ends, and leaves nothing on a connection that is used again.
LEMMA LeaveInv ==
    ASSUME TcpInv, NEW r \in Readers, NEW pc \in {"done", "rejected", "failed"},
           reader[r].pc \in Awaiting, Goes(r, pc), Unlocked(r),
           UNCHANGED <<regions, server, conns, peersTable, closing, peersLock, reads>>,
           Mine(r).open => Clean(Mine(r)),
           pc = "done" => reader[r].target = Payload(reader[r].peer, reader[r].want)
    PROVE  TcpInv'
  <1> DEFINE i == reader[r].conn
  <1>1. /\ i \in DOMAIN conns /\ i \in DOMAIN connLocks /\ connLocks[i] = r
        /\ reader[r].peer \in Peers /\ reader[r].want \in Ranges
    BY MineIs
  <1>2. /\ reader' \in [Readers -> ReaderRecord]
        /\ \A q \in Readers : q # r => reader'[q] = reader[q]
        /\ reader'[r].pc = pc /\ reader'[r].peer = reader[r].peer
        /\ reader'[r].want = reader[r].want /\ reader'[r].conn = i
        /\ reader'[r].target = reader[r].target
    BY GoesTo, InvParts DEF Ended
  <1>3. pc \in Ended /\ pc \notin OnStream /\ pc \notin {"peer", "connect"}
    BY DEF Ended, OnStream, Awaiting
  <1>4. ReaderOK(reader'[r]) /\ Linked(reader'[r], conns)
    BY <1>1, <1>2, <1>3 DEF ReaderOK, Linked, OnStream, Awaiting
  <1>5. /\ connLocks' \in [1 .. MaxConns -> Readers \cup {NoReader}]
        /\ connLocks'[i] = NoReader
        /\ \A j \in DOMAIN connLocks : j # i => connLocks'[j] = connLocks[j]
    BY <1>1, InvParts DEF Unlocked, Shapes
  <1>6. Shapes'  BY <1>2, <1>5, InvParts DEF Shapes
  <1>7. ConnsOK'  BY InvParts, ConnsFrame
  <1>8. ReadersOK'  BY <1>2, <1>4, InvParts, ReadersFrame
  <1>9. LocksOK'  BY <1>1, <1>2, <1>3, InvParts, LockGiven
  <1>10. CacheOK'  BY <1>2, <1>3, InvParts, CacheFrame
  <1>11. StreamsOK'
    <2>1. conns[i].open => Clean(conns[i])  BY DEF Mine
    <2>2. \A j \in DOMAIN conns : j # i => connLocks'[j] = connLocks[j]
      BY <1>5, InvParts
    <2>3. \A q \in Readers \ {r} : NoneOf(conns[i], q) => NoneOf(conns'[i], q)
      OBVIOUS
    <2>4. reader'[r].pc \notin OnStream  BY <1>2, <1>3
    <2>5. /\ ReadersOK /\ LocksOK /\ StreamsOK /\ DOMAIN connLocks = 1 .. MaxConns
          /\ DOMAIN conns \subseteq 1 .. MaxConns
      BY InvParts
    <2> HIDE DEF i
    <2> QED  BY <1>1, <1>2, <2>1, <2>2, <2>3, <2>4, <2>5, StreamsOfReader
  <1> QED  BY <1>6, <1>7, <1>8, <1>9, <1>10, <1>11 DEF TcpInv

\* The first cell of a header that has arrived is what the peer decided.
LEMMA FirstCell ==
    ASSUME TcpInv, NEW r \in Readers, reader[r].pc \in {"status", "payload"}
    PROVE  /\ Len(reader[r].header) = HeaderCells
           /\ reader[r].header[1] = Status(reader[r])
           /\ reader[r].verdict \in {"granted", "refused"}
           /\ Answered(Mine(r), reader[r])
           /\ Got(reader[r]) = HeaderCells + Len(reader[r].target)
           /\ Got(reader[r]) + Len(Mine(r).replies) <= Total(reader[r])
  <1>1. reader[r].pc \in Awaiting  BY DEF Awaiting
  <1>2. /\ Exchange(Mine(r), reader[r], r) /\ Mine(r) \in ConnRecord
        /\ reader[r].header \in Seq(ReplyCell) /\ reader[r].target \in Seq(ReplyCell)
        /\ reader[r].want \in Ranges
    BY <1>1, MineIs
  <1>3. Len(reader[r].header) = HeaderCells  BY InvParts DEF ReaderOK
  <1>4. HeaderCells \in Nat \ {0}  BY TransferAssumption
  <1>5. 1 \in DOMAIN reader[r].header
    BY <1>2, <1>3, <1>4, EmptyStream
  <1>6. reader[r].header[1] = Status(reader[r])
    <2>1. \A k \in DOMAIN reader[r].header : reader[r].header[k] = Cell(reader[r], k)
      BY <1>2 DEF Exchange, Agrees
    <2>2. reader[r].header[1] = Cell(reader[r], 1)  BY <1>5, <2>1
    <2>3. 1 <= HeaderCells  BY <1>4
    <2> QED  BY <2>2, <2>3 DEF Cell
  <1>7. Mine(r).replies \in Seq(ReplyCell)  BY <1>2 DEF ConnRecord
  <1>8. /\ Len(reader[r].target) \in Nat /\ Len(Mine(r).replies) \in Nat
    BY <1>2, <1>7, EmptyStream
  <1>9. Got(reader[r]) = HeaderCells + Len(reader[r].target)
        /\ Got(reader[r]) + Len(Mine(r).replies) <= Total(reader[r])
    BY <1>2, <1>3 DEF Got, Exchange, Agrees
  <1>10. reader[r].verdict # "pending"
    <2> SUFFICES ASSUME reader[r].verdict = "pending"  PROVE  FALSE
      OBVIOUS
    <2>1. Total(reader[r]) = 0  BY DEF Total
    <2> DEFINE a == Len(reader[r].target)
               b == Len(Mine(r).replies)
    <2>2. a \in Nat /\ b \in Nat /\ (HeaderCells + a) + b <= 0
      BY <1>8, <1>9, <2>1
    <2> HIDE DEF a, b
    <2> QED  BY <1>4, <2>2
  <1>11. reader[r].verdict \in {"pending", "granted", "refused"}
    BY InvParts DEF ReaderRecord
  <1>12. Answered(Mine(r), reader[r])
    BY <1>2, <1>10 DEF Exchange, Asked
  <1> QED  BY <1>3, <1>6, <1>9, <1>10, <1>11, <1>12

\* The status word decides whether a payload follows.
LEMMA ReadStatusInv ==
    ASSUME TcpInv, NEW r \in Readers, ReadStatus(r)
    PROVE  TcpInv'
  <1>1. /\ reader[r].pc = "status"
        /\ UNCHANGED <<regions, server, conns, peersTable, closing, peersLock, reads>>
    BY DEF ReadStatus
  <1>2. reader[r].pc \in Awaiting  BY <1>1 DEF Awaiting
  <1>3. /\ reader[r].header[1] = Status(reader[r])
        /\ Len(reader[r].header) = HeaderCells /\ reader[r].target = <<>>
        /\ reader[r].verdict \in {"granted", "refused"}
        /\ Answered(Mine(r), reader[r])
        /\ Got(reader[r]) = HeaderCells + Len(reader[r].target)
        /\ Got(reader[r]) + Len(Mine(r).replies) <= Total(reader[r])
    BY <1>1, FirstCell, InvParts DEF ReaderOK
  <1>4. CASE reader[r].header[1].ok
    <2>1. Goes(r, "payload") /\ UNCHANGED connLocks  BY <1>4 DEF ReadStatus
    <2>2. reader[r].verdict = "granted"  BY <1>3, <1>4 DEF Status
    <2>3. /\ reader' \in [Readers -> ReaderRecord]
          /\ \A q \in Readers : q # r => reader'[q] = reader[q]
          /\ reader'[r].pc = "payload" /\ reader'[r].peer = reader[r].peer
          /\ reader'[r].want = reader[r].want /\ reader'[r].conn = reader[r].conn
          /\ reader'[r].header = reader[r].header /\ reader'[r].target = reader[r].target
          /\ reader'[r].verdict = reader[r].verdict
      BY <2>1, GoesTo, InvParts DEF OnStream, Awaiting
    <2>4. ReaderOK(reader'[r]) /\ Linked(reader'[r], conns)
      BY <1>1, <1>3, <2>2, <2>3, InvParts DEF ReaderOK, Linked, OnStream, Awaiting
    <2>5. Shapes'  BY <1>1, <2>1, <2>3, InvParts DEF Shapes
    <2>6. ConnsOK'  BY <1>1, InvParts, ConnsFrame
    <2>7. ReadersOK'  BY <1>1, <2>3, <2>4, InvParts, ReadersFrame
    <2>8. LocksOK'  BY <1>1, <2>1, <2>3, InvParts, LocksFrame DEF Awaiting
    <2>9. CacheOK'  BY <1>1, <2>3, InvParts, CacheFrame
    <2>10. StreamsOK'
      <3>1. SideOK(conns'[reader'[r].conn], reader'[r], r)
        <4>1. Exchange(Mine(r), reader[r], r)  BY <1>2, MineIs
        <4>2. Exchange(Mine(r), reader'[r], r)
          BY <4>1, <2>3
             DEF Exchange, Agrees, Asked, Answered, Got, Cell, Total, Status
        <4> QED  BY <1>1, <2>3, <4>2 DEF SideOK, Mine
      <3> QED  BY <1>1, <2>1, <2>3, <3>1, InvParts, StreamsOfReader
    <2> QED  BY <2>5, <2>6, <2>7, <2>8, <2>9, <2>10 DEF TcpInv
  <1>5. CASE ~reader[r].header[1].ok
    <2>1. Goes(r, "rejected") /\ Unlocked(r)  BY <1>5 DEF ReadStatus
    <2>2. reader[r].verdict = "refused"  BY <1>3, <1>5 DEF Status
    <2>3. Total(reader[r]) = HeaderCells  BY <2>2 DEF Total
    <2>4. /\ Mine(r).replies \in Seq(ReplyCell) /\ HeaderCells \in Nat
          /\ Len(reader[r].target) = 0
      BY <1>2, <1>3, MineIs, TransferAssumption, EmptyStream DEF ConnRecord
    <2>5. Len(Mine(r).replies) = 0  BY <1>3, <2>3, <2>4
    <2>6. Mine(r).replies = <<>>  BY <2>4, <2>5, EmptyStream
    <2>7. Clean(Mine(r))  BY <1>3, <2>6 DEF Answered, Clean
    <2> QED  BY <1>1, <1>2, <2>1, <2>7, LeaveInv
  <1> QED  BY <1>4, <1>5

\* The last byte of the payload is there, and the payload is what was asked for.
LEMMA PayloadDoneInv ==
    ASSUME TcpInv, NEW r \in Readers, PayloadDone(r)
    PROVE  /\ TcpInv'
           /\ reader[r].verdict = "granted"
           /\ reader[r].target = Payload(reader[r].peer, reader[r].want)
  <1> DEFINE x == reader[r]
             n == Size(x.want)
  <1>1. /\ x.pc = "payload" /\ Missing(r) = 0 /\ Goes(r, "done") /\ Unlocked(r)
        /\ UNCHANGED <<regions, server, conns, peersTable, closing, peersLock, reads>>
    BY DEF PayloadDone
  <1>2. x.pc \in Awaiting  BY <1>1 DEF Awaiting
  <1>3. /\ x.verdict = "granted" /\ x.header[1] = Status(x)
        /\ Answered(Mine(r), x) /\ Got(x) = HeaderCells + Len(x.target)
        /\ Got(x) + Len(Mine(r).replies) <= Total(x)
    BY <1>1, FirstCell, InvParts DEF ReaderOK
  <1>4. /\ x.peer \in Peers /\ x.want \in Ranges /\ x.target \in Seq(ReplyCell)
        /\ Mine(r).replies \in Seq(ReplyCell)
        /\ \A k \in DOMAIN x.target : x.target[k] = Cell(x, HeaderCells + k)
    BY <1>2, MineIs DEF ConnRecord, Exchange, Agrees
  <1>5. n \in Nat /\ HeaderCells \in Nat \ {0} /\ x.want.first \in Nat
    BY <1>4, SizeIsNat, TransferAssumption
  <1>6. x.header[1].n = n /\ Total(x) = HeaderCells + n
    BY <1>3 DEF Status, Total
  <1>7. Len(x.target) \in Nat /\ DOMAIN x.target = 1 .. Len(x.target)
        /\ Len(Mine(r).replies) \in Nat
    BY <1>4, EmptyStream
  <1>8. Len(x.target) = n
    <2>1. n - Len(x.target) = 0 \/ ~(Len(x.target) <= n)  BY <1>1, <1>6 DEF Missing
    <2> QED  BY <1>3, <1>5, <1>6, <1>7, <2>1
  <1>9. Len(Mine(r).replies) = 0  BY <1>3, <1>5, <1>6, <1>7, <1>8
  <1>10. Clean(Mine(r))  BY <1>3, <1>4, <1>9, EmptyStream DEF Answered, Clean
  <1>11. x.target = Payload(x.peer, x.want)
    <2> DEFINE y == Payload(x.peer, x.want)
    <2>1. y \in Seq(ReplyCell) /\ Len(y) = n /\ DOMAIN y = 1 .. n
          /\ \A k \in 1 .. n : y[k] = [of |-> x.peer, byte |-> x.want.first + k - 1]
      BY <1>4, PayloadIs
    <2>2. \A k \in 1 .. n : x.target[k] = [of |-> x.peer, byte |-> x.want.first + k - 1]
      <3> TAKE k \in 1 .. n
      <3>1. x.target[k] = Cell(x, HeaderCells + k)  BY <1>4, <1>7, <1>8
      <3>2. ~(HeaderCells + k <= HeaderCells) /\ (HeaderCells + k) - HeaderCells = k
        BY <1>5
      <3> QED  BY <3>1, <3>2 DEF Cell
    <2>3. \A k \in 1 .. Len(x.target) : x.target[k] = y[k]
      BY <1>8, <2>1, <2>2
    <2>4. Len(x.target) = Len(y) /\ x.target \in Seq(ReplyCell) /\ y \in Seq(ReplyCell)
      BY <1>4, <1>8, <2>1
    <2> HIDE DEF x, y, n
    <2>5. x.target = y  BY <2>3, <2>4, SameStream
    <2> QED  BY <2>5 DEF y
  <1> QED  BY <1>1, <1>2, <1>3, <1>10, <1>11, LeaveInv

\* The answer does not change while its cells are received.
LEMMA SameAnswer ==
    ASSUME NEW x, NEW y, y.verdict = x.verdict, y.want = x.want, y.peer = x.peer
    PROVE  Total(y) = Total(x) /\ \A j : Cell(y, j) = Cell(x, j)
  BY DEF Total, Cell, Status

\* Cells that move from the stream of a connection to its reader.
LEMMA Moved ==
    ASSUME NEW c \in ConnRecord, NEW d \in ConnRecord,
           NEW x \in ReaderRecord, NEW y \in ReaderRecord, NEW r,
           x.peer \in Peers, x.want \in Ranges,
           Exchange(c, x, r), NEW k \in 1 .. Len(c.replies),
           d.requests = c.requests, d.header = c.header, d.handler = c.handler,
           d.replies = After(c.replies, k),
           y.verdict = x.verdict, y.want = x.want, y.peer = x.peer,
           \/ /\ x.target = <<>> /\ y.target = <<>>
              /\ y.header = x.header \o SubSeq(c.replies, 1, k)
           \/ /\ Len(x.header) = HeaderCells /\ y.header = x.header
              /\ y.target = x.target \o SubSeq(c.replies, 1, k)
    PROVE  Exchange(d, y, r) /\ Got(y) = Got(x) + k
  <1> DEFINE w == c.replies
             s == SubSeq(w, 1, k)
             t == After(w, k)
             n == Len(w)
             h == Len(x.header)
             g == Len(x.target)
             h2 == Len(y.header)
             g2 == Len(y.target)
  <1>1. /\ x.header \in Seq(ReplyCell) /\ x.target \in Seq(ReplyCell)
        /\ y.header \in Seq(ReplyCell) /\ y.target \in Seq(ReplyCell)
        /\ w \in Seq(ReplyCell) /\ HeaderCells \in Nat \ {0}
    BY TransferAssumption DEF ConnRecord, ReaderRecord
  <1>2. /\ h \in Nat /\ g \in Nat /\ h2 \in Nat /\ g2 \in Nat
        /\ n \in Nat /\ DOMAIN w = 1 .. n /\ k \in 1 .. n /\ k \in 0 .. n
    BY <1>1, EmptyStream
  <1>3. /\ s \in Seq(ReplyCell) /\ Len(s) = k
        /\ \A j \in DOMAIN s : j \in DOMAIN w /\ s[j] = w[j]
        /\ t \in Seq(ReplyCell) /\ Len(t) = n - k
        /\ \A j \in DOMAIN t : k + j \in DOMAIN w /\ t[j] = w[k + j]
    <2>1. w \in Seq(ReplyCell) /\ k \in 0 .. Len(w)  BY <1>1, <1>2
    <2> HIDE DEF w
    <2> QED  BY <2>1, Cut
  <1>4. /\ \A j \in DOMAIN x.header : x.header[j] = Cell(x, j)
        /\ \A j \in DOMAIN x.target : x.target[j] = Cell(x, HeaderCells + j)
        /\ \A j \in DOMAIN w : w[j] = Cell(x, (h + g) + j)
        /\ (h + g) + n <= Total(x)
    BY DEF Exchange, Agrees, Got
  <1>5. Total(y) = Total(x) /\ \A j : Cell(y, j) = Cell(x, j)
    BY SameAnswer
  <1>6. Total(x) \in Nat /\ (x.verdict = "pending" => Total(x) = 0)
    <2>1. Total(x) \in Nat  BY CellIsReply
    <2>2. x.verdict = "pending" => Total(x) = 0  BY DEF Total
    <2> QED  BY <2>1, <2>2
  <1>7. \/ x.target = <<>> /\ y.target = <<>> /\ y.header = x.header \o s
        \/ h = HeaderCells /\ y.header = x.header /\ y.target = x.target \o s
    OBVIOUS
  <1>8. d.replies = t  OBVIOUS
  <1> HIDE DEF w, s, t, n, h, g, h2, g2
  <1>9. DOMAIN s = 1 .. k /\ DOMAIN t = 1 .. (n - k)
    BY <1>3, EmptyStream
  <1>10. x.verdict # "pending"  BY <1>2, <1>4, <1>6
  <1>11. Answered(c, x)  BY <1>10 DEF Exchange, Asked
  <1>12. /\ h2 + g2 = (h + g) + k
         /\ \A j \in DOMAIN y.header : y.header[j] = Cell(x, j)
         /\ \A j \in DOMAIN y.target : y.target[j] = Cell(x, HeaderCells + j)
    <2>1. CASE x.target = <<>> /\ y.target = <<>> /\ y.header = x.header \o s
      <3>1. g = 0 /\ g2 = 0 /\ DOMAIN y.target = {}
        BY <2>1, EmptyStream DEF g, g2
      <3>2. /\ h2 = h + k
            /\ \A j \in DOMAIN y.header :
                  \/ j \in DOMAIN x.header /\ y.header[j] = x.header[j]
                  \/ j - h \in DOMAIN s /\ j = h + (j - h) /\ y.header[j] = s[j - h]
        <4> DEFINE b == x.header
        <4>1. b \in Seq(ReplyCell) /\ s \in Seq(ReplyCell)  BY <1>1, <1>3
        <4> HIDE DEF b
        <4>2. /\ Len(b \o s) = Len(b) + Len(s)
              /\ \A j \in DOMAIN (b \o s) :
                     \/ j \in DOMAIN b /\ (b \o s)[j] = b[j]
                     \/ /\ j - Len(b) \in DOMAIN s /\ j = Len(b) + (j - Len(b))
                        /\ (b \o s)[j] = s[j - Len(b)]
          BY <4>1, Joined
        <4> QED  BY <1>3, <2>1, <4>2 DEF h, h2, b
      <3>3. \A j \in DOMAIN y.header : y.header[j] = Cell(x, j)
        <4> SUFFICES ASSUME NEW j \in DOMAIN y.header  PROVE y.header[j] = Cell(x, j)
          OBVIOUS
        <4>1. CASE j - h \in DOMAIN s /\ j = h + (j - h) /\ y.header[j] = s[j - h]
          <5>1. y.header[j] = Cell(x, (h + g) + (j - h))  BY <1>3, <1>4, <4>1
          <5>2. (h + g) + (j - h) = j  BY <1>2, <1>9, <3>1, <4>1
          <5> QED  BY <5>1, <5>2
        <4> QED  BY <1>4, <3>2, <4>1
      <3> QED  BY <1>2, <3>1, <3>2, <3>3
    <2>2. CASE h = HeaderCells /\ y.header = x.header /\ y.target = x.target \o s
      <3>1. h2 = h  BY <2>2 DEF h, h2
      <3>2. /\ g2 = g + k
            /\ \A j \in DOMAIN y.target :
                  \/ j \in DOMAIN x.target /\ y.target[j] = x.target[j]
                  \/ j - g \in DOMAIN s /\ j = g + (j - g) /\ y.target[j] = s[j - g]
        <4> DEFINE b == x.target
        <4>1. b \in Seq(ReplyCell) /\ s \in Seq(ReplyCell)  BY <1>1, <1>3
        <4> HIDE DEF b
        <4>2. /\ Len(b \o s) = Len(b) + Len(s)
              /\ \A j \in DOMAIN (b \o s) :
                     \/ j \in DOMAIN b /\ (b \o s)[j] = b[j]
                     \/ /\ j - Len(b) \in DOMAIN s /\ j = Len(b) + (j - Len(b))
                        /\ (b \o s)[j] = s[j - Len(b)]
          BY <4>1, Joined
        <4> QED  BY <1>3, <2>2, <4>2 DEF g, g2, b
      <3>3. \A j \in DOMAIN y.target : y.target[j] = Cell(x, HeaderCells + j)
        <4> SUFFICES ASSUME NEW j \in DOMAIN y.target
                     PROVE  y.target[j] = Cell(x, HeaderCells + j)
          OBVIOUS
        <4>1. CASE j - g \in DOMAIN s /\ j = g + (j - g) /\ y.target[j] = s[j - g]
          <5>1. y.target[j] = Cell(x, (h + g) + (j - g))  BY <1>3, <1>4, <4>1
          <5>2. (h + g) + (j - g) = HeaderCells + j
            BY <1>2, <1>9, <2>2, <4>1
          <5> QED  BY <5>1, <5>2
        <4> QED  BY <1>4, <3>2, <4>1
      <3>4. \A j \in DOMAIN y.header : y.header[j] = Cell(x, j)  BY <1>4, <2>2
      <3> QED  BY <1>2, <3>1, <3>2, <3>3, <3>4
    <2> QED  BY <1>7, <2>1, <2>2
  <1>13. \A j \in DOMAIN t : t[j] = Cell(x, (h2 + g2) + j)
    <2> SUFFICES ASSUME NEW j \in DOMAIN t  PROVE t[j] = Cell(x, (h2 + g2) + j)
      OBVIOUS
    <2>1. t[j] = Cell(x, (h + g) + (k + j))  BY <1>3, <1>4
    <2>2. (h + g) + (k + j) = (h2 + g2) + j  BY <1>2, <1>9, <1>12
    <2> QED  BY <2>1, <2>2
  <1>14. (h2 + g2) + Len(t) = (h + g) + n
    BY <1>2, <1>3, <1>12
  <1>15. /\ Got(x) = h + g /\ Got(y) = h2 + g2 /\ Len(c.replies) = n
    BY DEF Got, h, g, h2, g2, n, w
  <1>16. Agrees(d, y)
    <2>1. \A j \in DOMAIN d.replies : d.replies[j] = Cell(y, Got(y) + j)
      BY <1>5, <1>8, <1>13, <1>15
    <2>2. Got(y) + Len(d.replies) <= Total(y)  BY <1>4, <1>5, <1>8, <1>14, <1>15
    <2> QED  BY <1>5, <1>12, <2>1, <2>2 DEF Agrees
  <1>17. Answered(d, y)
    BY <1>5, <1>8, <1>11, <1>14, <1>15 DEF Answered
  <1> QED  BY <1>12, <1>15, <1>16, <1>17 DEF Exchange

\* One connection is replaced.
LEMMA SetConn ==
    ASSUME Shapes, NEW i \in DOMAIN conns, NEW c \in ConnRecord,
           conns' = [conns EXCEPT ![i] = c]
    PROVE  /\ conns' \in Seq(ConnRecord) /\ Len(conns') = Len(conns)
           /\ DOMAIN conns' = DOMAIN conns
           /\ conns'[i] = c
           /\ \A j \in DOMAIN conns : j # i => conns'[j] = conns[j]
  BY DEF Shapes

\* A reader receives k cells of its connection.
LEMMA ReceiveInv ==
    ASSUME TcpInv, NEW r \in Readers, reader[r].pc \in {"header", "payload"},
           NEW k \in 1 .. Len(Mine(r).replies), NEW y \in ReaderRecord,
           conns' = [conns EXCEPT ![reader[r].conn].replies = After(@, k)],
           reader' = [reader EXCEPT ![r] = y],
           UNCHANGED <<regions, server, peersTable, closing, peersLock, connLocks,
                       reads>>,
           y.verdict = reader[r].verdict, y.want = reader[r].want,
           y.peer = reader[r].peer, y.conn = reader[r].conn,
           y.pc \in Awaiting, ReaderOK(y),
           \/ /\ reader[r].target = <<>> /\ y.target = <<>>
              /\ y.header = reader[r].header \o SubSeq(Mine(r).replies, 1, k)
           \/ /\ Len(reader[r].header) = HeaderCells /\ y.header = reader[r].header
              /\ y.target = reader[r].target \o SubSeq(Mine(r).replies, 1, k)
    PROVE  TcpInv'
  <1> DEFINE i == reader[r].conn
             c == conns[i]
             d == [c EXCEPT !.replies = After(@, k)]
             x == reader[r]
  <1>1. x.pc \in Awaiting  BY DEF Awaiting
  <1>2. /\ i \in DOMAIN conns /\ i \in DOMAIN connLocks /\ connLocks[i] = r
        /\ c \in ConnRecord /\ HandlerOK(c) /\ c.peer = x.peer
        /\ x.peer \in Peers /\ x.want \in Ranges /\ x \in ReaderRecord
        /\ Exchange(c, x, r)
    BY <1>1, MineIs, InvParts DEF Mine
  <1>3. /\ d \in ConnRecord /\ d.requests = c.requests /\ d.header = c.header
        /\ d.handler = c.handler /\ d.replies = After(c.replies, k)
        /\ d.peer = c.peer /\ d.open = c.open /\ d.late = c.late
    <2>1. c.replies \in Seq(ReplyCell)  BY <1>2 DEF ConnRecord
    <2>2. k \in 1 .. Len(c.replies) /\ Len(c.replies) \in Nat
      BY <2>1, EmptyStream DEF Mine
    <2>3. k \in 0 .. Len(c.replies)  BY <2>2
    <2>4. After(c.replies, k) \in Seq(ReplyCell)  BY <2>1, <2>3, Cut
    <2> QED  BY <1>2, <2>4 DEF ConnRecord
  <1>4. Exchange(d, y, r)
    <2>1. /\ k \in 1 .. Len(c.replies)
          /\ \/ /\ x.target = <<>> /\ y.target = <<>>
                /\ y.header = x.header \o SubSeq(c.replies, 1, k)
             \/ /\ Len(x.header) = HeaderCells /\ y.header = x.header
                /\ y.target = x.target \o SubSeq(c.replies, 1, k)
          /\ y.verdict = x.verdict /\ y.want = x.want /\ y.peer = x.peer
      BY DEF Mine
    <2>2. /\ c \in ConnRecord /\ d \in ConnRecord /\ x \in ReaderRecord
          /\ x.peer \in Peers /\ x.want \in Ranges /\ Exchange(c, x, r)
      BY <1>2, <1>3
    <2>3. /\ d.requests = c.requests /\ d.header = c.header /\ d.handler = c.handler
          /\ d.replies = After(c.replies, k)
      BY <1>3
    <2> HIDE DEF c, d, x, i
    <2> QED  BY <2>1, <2>2, <2>3, Moved, Zenon
  <1>5. conns' = [conns EXCEPT ![i] = d]  BY DEF Mine
  <1>6. ConnsOK  BY InvParts
  <1>7. HandlerOK(d) /\ LateOK(d, server)
    BY <1>2, <1>3, <1>6 DEF ConnsOK, HandlerOK, LateOK
  <1> HIDE DEF d
  <1>8. /\ conns' \in Seq(ConnRecord) /\ Len(conns') = Len(conns)
        /\ DOMAIN conns' = DOMAIN conns /\ conns'[i] = d
        /\ \A j \in DOMAIN conns : j # i => conns'[j] = conns[j]
    BY <1>2, <1>3, <1>5, SetConn, InvParts
  <1>9. /\ reader' \in [Readers -> ReaderRecord] /\ reader'[r] = y
        /\ \A q \in Readers : q # r => reader'[q] = reader[q]
    BY InvParts DEF Shapes
  <1>10. Shapes'  BY <1>8, <1>9, InvParts DEF Shapes
  <1>11. ConnsOK'  BY <1>7, <1>8, InvParts, ConnsFrame
  <1>12. Linked(y, conns')  BY <1>2, <1>3, <1>8 DEF Linked
  <1>13. ReadersOK'
    <2>1. \A j \in DOMAIN conns : conns'[j].peer = conns[j].peer  BY <1>3, <1>8
    <2>2. \A q \in Readers : reader'[q] = reader[q] \/
               (ReaderOK(reader'[q]) /\ Linked(reader'[q], conns'))
      BY <1>9, <1>12
    <2> QED  BY <1>8, <2>1, <2>2, InvParts, ReadersFrame
  <1>14. LocksOK'
    <2>1. y.pc # "connect" /\ x.pc # "connect"  BY <1>1 DEF Awaiting
    <2> QED  BY <1>1, <1>9, <2>1, InvParts, LocksFrame
  <1>15. CacheOK'
    <2>1. \A j \in DOMAIN conns :
              conns'[j].peer = conns[j].peer /\ conns'[j].open = conns[j].open
      BY <1>3, <1>8
    <2>2. y.pc # "connect"  BY DEF Awaiting
    <2> QED  BY <1>8, <1>9, <2>1, <2>2, InvParts, CacheFrame
  <1>16. StreamsOK'
    <2>1. reader'[r].pc \in OnStream => SideOK(conns'[reader'[r].conn], reader'[r], r)
      BY <1>4, <1>8, <1>9 DEF SideOK, Awaiting
    <2>2. i \in DOMAIN conns =>
              /\ connLocks[i] \in {r, NoReader}
              /\ \A q \in Readers \ {r} : NoneOf(conns[i], q) => NoneOf(conns'[i], q)
              /\ conns'[i].open /\ connLocks'[i] = NoReader => Clean(conns'[i])
      <3>1. \A q \in Readers \ {r} : NoneOf(conns[i], q) => NoneOf(conns'[i], q)
        BY <1>3, <1>8 DEF NoneOf
      <3>2. connLocks'[i] # NoReader  BY <1>2, TransferAssumption
      <3> QED  BY <1>2, <3>1, <3>2
    <2>3. \A j \in DOMAIN conns : j # i =>
              /\ conns'[j] = conns[j]
              /\ connLocks'[j] = NoReader => connLocks[j] = NoReader
      BY <1>8
    <2>4. /\ ReadersOK /\ LocksOK /\ StreamsOK /\ DOMAIN connLocks = 1 .. MaxConns
          /\ DOMAIN conns \subseteq 1 .. MaxConns
      BY InvParts
    <2>5. /\ DOMAIN conns' = DOMAIN conns
          /\ \A q \in Readers : q # r => reader'[q] = reader[q]
      BY <1>8, <1>9
    <2> HIDE DEF i, c, x
    <2> QED  BY <2>1, <2>2, <2>3, <2>4, <2>5, StreamsOfReader
  <1> QED  BY <1>10, <1>11, <1>13, <1>14, <1>15, <1>16 DEF TcpInv

\* A piece of the header of the answer arrives.
LEMMA RecvHeaderInv ==
    ASSUME TcpInv, NEW r \in Readers, RecvHeader(r)
    PROVE  TcpInv'
  <1> DEFINE x == reader[r]
             w == Mine(r).replies
  <1>1. x.pc = "header"
        /\ UNCHANGED <<regions, server, peersTable, closing, peersLock, connLocks,
                       reads>>
    BY DEF RecvHeader
  <1>2. /\ x \in ReaderRecord /\ x.header \in Seq(ReplyCell) /\ w \in Seq(ReplyCell)
        /\ x.target = <<>> /\ Len(x.header) < HeaderCells /\ HeaderCells \in Nat
        /\ x.peer \in Peers /\ x.want \in Ranges
    BY <1>1, MineIs, InvParts, TransferAssumption DEF Awaiting, ConnRecord, ReaderOK
  <1>3. Len(w) \in Nat /\ DOMAIN w = 1 .. Len(w) /\ Len(x.header) \in Nat
    BY <1>2, EmptyStream
  <1>4. PICK k \in Received(w, HeaderCells - Len(x.header)) :
            LET got == x.header \o SubSeq(w, 1, k) IN
            /\ conns' = [conns EXCEPT ![reader[r].conn].replies = After(@, k)]
            /\ reader' = [reader EXCEPT
                            ![r].header = got,
                            ![r].pc = IF Len(got) = HeaderCells THEN "status" ELSE @]
    BY DEF RecvHeader
  <1>5. k \in 1 .. Len(w) /\ k <= HeaderCells - Len(x.header) /\ k \in 0 .. Len(w)
    BY <1>3 DEF Received
  <1> DEFINE got == x.header \o SubSeq(w, 1, k)
             pc == IF Len(got) = HeaderCells THEN "status" ELSE "header"
             y == [x EXCEPT !.header = got, !.pc = pc]
  <1>6. got \in Seq(ReplyCell) /\ Len(got) = Len(x.header) + k
    <2>1. SubSeq(w, 1, k) \in Seq(ReplyCell) /\ Len(SubSeq(w, 1, k)) = k
      BY <1>2, <1>5, Cut
    <2> HIDE DEF w
    <2> QED  BY <1>2, <2>1, Joined
  <1>7. pc \in {"status", "header"}
        /\ (pc = "status" => Len(got) = HeaderCells) /\ (pc = "header" => Len(got) < HeaderCells)
    BY <1>2, <1>3, <1>5, <1>6, SMTT(30)
  <1>8. reader' = [reader EXCEPT ![r] = y]
    BY <1>1, <1>4
  <1> HIDE DEF got, pc
  <1>9. /\ y \in ReaderRecord /\ y.header = got /\ y.pc = pc /\ y.target = <<>>
        /\ y.verdict = x.verdict /\ y.want = x.want /\ y.peer = x.peer /\ y.conn = x.conn
    BY <1>2, <1>6, <1>7 DEF ReaderRecord, OnStream, Awaiting
  <1>10. y.header = x.header \o SubSeq(w, 1, k)  BY <1>9 DEF got
  <1> HIDE DEF y
  <1>11. ReaderOK(y) /\ y.pc \in Awaiting
    BY <1>2, <1>7, <1>9 DEF ReaderOK, Awaiting
  <1>12. conns' = [conns EXCEPT ![reader[r].conn].replies = After(@, k)]  BY <1>4
  <1> QED  BY <1>1, <1>2, <1>5, <1>8, <1>9, <1>10, <1>11, <1>12, ReceiveInv

\* A piece of the payload arrives.
LEMMA RecvPayloadInv ==
    ASSUME TcpInv, NEW r \in Readers, RecvPayload(r)
    PROVE  TcpInv'
  <1> DEFINE x == reader[r]
             w == Mine(r).replies
  <1>1. x.pc = "payload"
        /\ UNCHANGED <<regions, server, peersTable, closing, peersLock, connLocks,
                       reads>>
    BY DEF RecvPayload
  <1>2. /\ x \in ReaderRecord /\ x.target \in Seq(ReplyCell) /\ w \in Seq(ReplyCell)
        /\ Len(x.header) = HeaderCells /\ x.verdict = "granted"
        /\ x.peer \in Peers /\ x.want \in Ranges
    BY <1>1, MineIs, InvParts DEF Awaiting, ConnRecord, ReaderOK
  <1>3. Len(w) \in Nat /\ DOMAIN w = 1 .. Len(w)
    BY <1>2, EmptyStream
  <1>4. PICK k \in Received(w, Missing(r)) :
            /\ conns' = [conns EXCEPT ![reader[r].conn].replies = After(@, k)]
            /\ reader' = [reader EXCEPT ![r].target = @ \o SubSeq(w, 1, k)]
    BY DEF RecvPayload
  <1>5. k \in 1 .. Len(w) /\ k \in 0 .. Len(w)
    BY <1>3 DEF Received
  <1> DEFINE got == x.target \o SubSeq(w, 1, k)
             y == [x EXCEPT !.target = got]
  <1>6. got \in Seq(ReplyCell)
    <2>1. SubSeq(w, 1, k) \in Seq(ReplyCell)  BY <1>2, <1>5, Cut
    <2> HIDE DEF w
    <2> QED  BY <1>2, <2>1, Joined
  <1>7. reader' = [reader EXCEPT ![r] = y]
    BY <1>1, <1>4
  <1> HIDE DEF got
  <1>8. /\ y \in ReaderRecord /\ y.header = x.header /\ y.pc = "payload" /\ y.target = got
        /\ y.verdict = x.verdict /\ y.want = x.want /\ y.peer = x.peer /\ y.conn = x.conn
    BY <1>1, <1>2, <1>6 DEF ReaderRecord
  <1>9. y.target = x.target \o SubSeq(w, 1, k)  BY <1>8 DEF got
  <1> HIDE DEF y
  <1>10. ReaderOK(y) /\ y.pc \in Awaiting
    BY <1>2, <1>8 DEF ReaderOK, Awaiting
  <1>11. conns' = [conns EXCEPT ![reader[r].conn].replies = After(@, k)]  BY <1>4
  <1> QED  BY <1>1, <1>2, <1>5, <1>7, <1>8, <1>9, <1>10, <1>11, ReceiveInv

\* The stream ends within an answer: the read fails.
LEMMA EndOfStreamInv ==
    ASSUME TcpInv, NEW r \in Readers, EndOfStream(r)
    PROVE  TcpInv'
  <1>1. /\ reader[r].pc \in Awaiting /\ Goes(r, "failed") /\ Unlocked(r)
        /\ UNCHANGED <<regions, server, conns, peersTable, closing, peersLock, reads>>
        /\ Mine(r).open => Mine(r).replies = <<>> /\ Mine(r).handler = "closed"
    BY DEF EndOfStream, Awaiting
  <1>2. Exchange(Mine(r), reader[r], r)  BY <1>1, MineIs
  <1>3. Mine(r).open => Clean(Mine(r))
    BY <1>1, <1>2 DEF Exchange, Asked, Answered, Clean, Living
  <1> QED  BY <1>1, <1>3, LeaveInv

\* The request goes out on a connection that carries nothing.
LEMMA SendRequestInv ==
    ASSUME TcpInv, NEW r \in Readers, SendRequest(r)
    PROVE  TcpInv'
  <1> DEFINE x == reader[r]
             i == x.conn
             c == conns[i]
             cell == [by |-> r, want |-> x.want]
             sent == c.requests \o Header(cell)
             d == IF c.handler \in {"closed", "silent"} THEN c
                  ELSE [c EXCEPT !.requests = sent]
  <1>1. /\ x.pc = "lock" /\ connLocks[i] = NoReader /\ c.open /\ Locked(r) /\ Goes(r, "header")
        /\ UNCHANGED <<regions, server, peersTable, closing, peersLock, reads>>
    BY DEF SendRequest, Mine
  <1>2. /\ x \in ReaderRecord /\ ReaderOK(x) /\ i \in DOMAIN conns /\ i \in DOMAIN connLocks
        /\ c.peer = x.peer /\ c \in ConnRecord
    BY <1>1, InvParts DEF Linked, OnStream
  <1>3. /\ x.want \in Ranges /\ x.peer \in Peers /\ x.verdict = "pending"
        /\ x.header = <<>> /\ x.target = <<>> /\ cell \in RequestCell
    BY <1>1, <1>2 DEF ReaderOK, RequestCell
  <1>4. Clean(c) /\ HandlerOK(c) /\ LateOK(c, server)
    BY <1>1, <1>2, InvParts DEF StreamsOK, ConnsOK
  <1>5. /\ Header(cell) \in Seq(RequestCell) /\ Len(Header(cell)) = HeaderCells
        /\ DOMAIN Header(cell) = 1 .. HeaderCells
        /\ \A k \in DOMAIN Header(cell) : Header(cell)[k] = cell
    BY <1>3, HeaderIs
  <1>6. sent = Header(cell)  BY <1>4, <1>5 DEF Clean
  <1>7. conns' = [conns EXCEPT ![i] = d]
    <2>1. CASE c.handler \in {"closed", "silent"}
      BY <1>2, <2>1, InvParts DEF SendRequest, Mine, Shapes
    <2>2. CASE c.handler \notin {"closed", "silent"}
      BY <2>2 DEF SendRequest, Mine
    <2> QED  BY <2>1, <2>2
  <1>8. /\ d \in ConnRecord /\ d.peer = c.peer /\ d.open = c.open /\ d.late = c.late
        /\ d.handler = c.handler /\ d.header = <<>> /\ d.replies = <<>>
        /\ \/ d.requests = <<>> /\ d.handler \in {"closed", "silent"}
           \/ d.requests = Header(cell) /\ d.handler \notin {"closed", "silent"}
    <2>1. CASE c.handler \in {"closed", "silent"}  BY <1>2, <1>4, <2>1 DEF Clean
    <2>2. CASE c.handler \notin {"closed", "silent"}
      <3>1. d = [c EXCEPT !.requests = Header(cell)]  BY <1>6, <2>2
      <3> QED  BY <1>2, <1>4, <1>5, <2>2, <3>1 DEF ConnRecord, Clean
    <2> QED  BY <2>1, <2>2
  <1> HIDE DEF d, sent
  <1>9. /\ conns' \in Seq(ConnRecord) /\ Len(conns') = Len(conns)
        /\ DOMAIN conns' = DOMAIN conns /\ conns'[i] = d
        /\ \A j \in DOMAIN conns : j # i => conns'[j] = conns[j]
    BY <1>2, <1>7, <1>8, SetConn, InvParts
  <1>10. /\ reader' \in [Readers -> ReaderRecord]
         /\ \A q \in Readers : q # r => reader'[q] = reader[q]
         /\ reader'[r].pc = "header" /\ reader'[r].conn = i
         /\ reader'[r].peer = x.peer /\ reader'[r].want = x.want
         /\ reader'[r].header = <<>> /\ reader'[r].target = <<>>
         /\ reader'[r].verdict = "pending"
    BY <1>1, <1>3, GoesTo, InvParts DEF OnStream, Awaiting
  <1>11. /\ connLocks' \in [1 .. MaxConns -> Readers \cup {NoReader}]
         /\ connLocks'[i] = r
         /\ \A j \in DOMAIN connLocks : j # i => connLocks'[j] = connLocks[j]
    BY <1>1, <1>2, InvParts DEF Locked, Shapes
  <1>12. HandlerOK(d) /\ LateOK(d, server)
    BY <1>4, <1>8 DEF HandlerOK, LateOK, Clean
  <1>13. ReaderOK(reader'[r]) /\ Linked(reader'[r], conns')
    <2>1. Len(<<>>) < HeaderCells  BY EmptyStream, TransferAssumption
    <2> QED  BY <1>2, <1>3, <1>8, <1>9, <1>10, <2>1 DEF ReaderOK, Linked
  <1>14. Exchange(d, reader'[r], r)
    <2> DEFINE y == reader'[r]
    <2>1. Got(y) = 0 /\ Total(y) = 0 /\ DOMAIN y.header = {} /\ DOMAIN y.target = {}
      BY <1>10, EmptyStream DEF Got, Total
    <2>2. DOMAIN d.replies = {} /\ Len(d.replies) = 0 /\ DOMAIN d.header = {} /\ Len(d.header) = 0
      BY <1>8, EmptyStream
    <2> HIDE DEF y
    <2>3. Agrees(d, y)  BY <2>1, <2>2 DEF Agrees
    <2> SUFFICES Exchange(d, y, r)  BY DEF y
    <2>4. CASE d.requests = <<>> /\ d.handler \in {"closed", "silent"}
      BY <1>8, <2>3, <2>4 DEF Exchange, Answered
    <2>5. CASE d.requests = Header(cell) /\ d.handler \notin {"closed", "silent"}
      <3>1. d.handler \in Living  BY <1>8, <2>5 DEF ConnRecord
      <3>2. Len(d.requests) + Len(d.header) = HeaderCells
        BY <1>5, <2>2, <2>5, TransferAssumption
      <3>3. OnlyOf(d, r, x.want)
        BY <1>5, <2>2, <2>5 DEF OnlyOf
      <3>4. y.verdict = "pending" /\ y.want = x.want  BY <1>10 DEF y
      <3> QED  BY <2>3, <3>1, <3>2, <3>3, <3>4 DEF Exchange, Asked
    <2> QED  BY <1>8, <2>4, <2>5
  <1>15. Shapes'  BY <1>1, <1>9, <1>10, <1>11, InvParts DEF Shapes
  <1>16. ConnsOK'  BY <1>1, <1>9, <1>12, InvParts, ConnsFrame
  <1>17. ReadersOK'
    <2>1. \A j \in DOMAIN conns : conns'[j].peer = conns[j].peer  BY <1>8, <1>9
    <2> QED  BY <1>9, <1>10, <1>13, <2>1, InvParts, ReadersFrame
  <1>18. LocksOK'
    <2>1. reader'[r].pc \in Awaiting  BY <1>10 DEF Awaiting
    <2> QED  BY <1>1, <1>2, <1>10, <2>1, InvParts, LockTaken
  <1>19. CacheOK'
    <2>1. \A j \in DOMAIN conns :
              conns'[j].peer = conns[j].peer /\ conns'[j].open = conns[j].open
      BY <1>8, <1>9
    <2> QED  BY <1>1, <1>9, <1>10, <2>1, InvParts, CacheFrame
  <1>20. StreamsOK'
    <2>1. reader'[r].pc \in OnStream => SideOK(conns'[reader'[r].conn], reader'[r], r)
      BY <1>9, <1>10, <1>14 DEF SideOK, Awaiting
    <2>2. i \in DOMAIN conns =>
              /\ connLocks[i] \in {r, NoReader}
              /\ \A q \in Readers \ {r} : NoneOf(conns[i], q) => NoneOf(conns'[i], q)
              /\ conns'[i].open /\ connLocks'[i] = NoReader => Clean(conns'[i])
      <3>1. \A q \in Readers \ {r} : NoneOf(conns'[i], q)
        BY <1>5, <1>8, <1>9, EmptyStream DEF NoneOf
      <3>2. connLocks'[i] # NoReader  BY <1>11, TransferAssumption
      <3> QED  BY <1>1, <3>1, <3>2
    <2>3. \A j \in DOMAIN conns : j # i =>
              /\ conns'[j] = conns[j]
              /\ connLocks'[j] = NoReader => connLocks[j] = NoReader
      BY <1>9, <1>11, InvParts
    <2>4. /\ ReadersOK /\ LocksOK /\ StreamsOK /\ DOMAIN connLocks = 1 .. MaxConns
          /\ DOMAIN conns \subseteq 1 .. MaxConns
      BY InvParts
    <2>5. /\ DOMAIN conns' = DOMAIN conns
          /\ \A q \in Readers : q # r => reader'[q] = reader[q]
      BY <1>9, <1>10
    <2> HIDE DEF i, c, x
    <2> QED  BY <2>1, <2>2, <2>3, <2>4, <2>5, StreamsOfReader
  <1> QED  BY <1>15, <1>16, <1>17, <1>18, <1>19, <1>20 DEF TcpInv

-----------------------------------------------------------------------------
(* Connecting and closing.                                                 *)

\* A connection is opened, cached and locked.
LEMMA ConnectPeerInv ==
    ASSUME TcpInv, NEW r \in Readers, ConnectPeer(r)
    PROVE  TcpInv'
  <1> DEFINE x == reader[r]
             p == x.peer
             n == Len(conns) + 1
             c == NewConn(p)
             y == [x EXCEPT !.pc = "lock", !.conn = n]
  <1>1. /\ x.pc = "connect" /\ Len(conns) < MaxConns
        /\ conns' = Append(conns, c) /\ peersTable' = With(peersTable, p, n)
        /\ peersLock' = NoReader /\ reader' = [reader EXCEPT ![r] = y]
        /\ UNCHANGED <<regions, server, closing, connLocks, reads>>
    BY DEF ConnectPeer
  <1>2. /\ x \in ReaderRecord /\ p \in Peers /\ x.want \in Ranges /\ x.verdict = "pending"
        /\ x.header = <<>> /\ x.target = <<>> /\ p \notin DOMAIN peersTable
        /\ MaxConns \in Nat
    BY <1>1, InvParts, TransferAssumption DEF ReaderOK, CacheOK
  <1>3. /\ n \in Nat /\ n \in 1 .. MaxConns /\ n \notin DOMAIN conns
    BY <1>1, <1>2, InvParts
  <1>4. /\ c \in ConnRecord /\ c.peer = p /\ c.open /\ c.handler = "backlog" /\ c.late = 0
        /\ c.requests = <<>> /\ c.header = <<>> /\ c.replies = <<>>
    BY <1>2, EmptyStream DEF NewConn, ConnRecord, Living
  <1>5. /\ y \in ReaderRecord /\ y.pc = "lock" /\ y.conn = n /\ y.peer = p
        /\ y.want = x.want /\ y.verdict = "pending" /\ y.header = <<>> /\ y.target = <<>>
    BY <1>2, <1>3 DEF ReaderRecord, OnStream
  <1> HIDE DEF c, y
  <1>6. /\ conns' \in Seq(ConnRecord) /\ Len(conns') = n
        /\ DOMAIN conns' = DOMAIN conns \cup {n} /\ conns'[n] = c
        /\ \A i \in DOMAIN conns : conns'[i] = conns[i]
    BY <1>1, <1>4, InvParts
  <1>7. /\ reader' \in [Readers -> ReaderRecord] /\ reader'[r] = y
        /\ \A q \in Readers : q # r => reader'[q] = reader[q]
    BY <1>1, <1>5, InvParts DEF Shapes
  <1>8. connLocks[n] = NoReader
    <2> SUFFICES ASSUME NEW q \in Readers, connLocks[n] = q  PROVE FALSE
      BY <1>3, InvParts DEF Shapes
    <2>1. reader[q].conn = n  BY <1>3, InvParts DEF LocksOK
    <2>2. reader[q].conn \in DOMAIN conns \cup {NoConn}  BY InvParts DEF Linked
    <2> QED  BY <1>3, <2>1, <2>2, TransferAssumption
  <1>9. \A q \in Readers : q # r => reader[q].pc # "connect"
    <2>1. peersLock = r  BY <1>1, InvParts DEF LocksOK
    <2> QED  BY <2>1, InvParts DEF LocksOK
  <1>10. Shapes'
    <2>1. n <= MaxConns  BY <1>3
    <2> QED  BY <1>1, <1>6, <1>7, <2>1, InvParts DEF Shapes
  <1>11. ConnsOK'
    <2>1. Len(<<>>) = 0 /\ HeaderCells \in Nat \ {0}  BY EmptyStream, TransferAssumption
    <2>2. HandlerOK(c) /\ LateOK(c, server)  BY <1>4, <2>1 DEF HandlerOK, LateOK
    <2>3. \A i \in DOMAIN conns : HandlerOK(conns[i]) /\ LateOK(conns[i], server)
      BY InvParts DEF ConnsOK
    <2>4. \A i \in DOMAIN conns' : HandlerOK(conns'[i]) /\ LateOK(conns'[i], server')
      BY <1>1, <1>6, <2>2, <2>3
    <2> QED  BY <2>4 DEF ConnsOK, HandlerOK, LateOK
  <1>12. ReadersOK'
    <2>1. ReaderOK(y)  BY <1>2, <1>5 DEF ReaderOK
    <2>2. Linked(y, conns')  BY <1>4, <1>5, <1>6 DEF Linked
    <2>3. \A i \in DOMAIN conns : conns'[i].peer = conns[i].peer  BY <1>6
    <2> QED  BY <1>6, <1>7, <2>1, <2>2, <2>3, InvParts, ReadersFrame
  <1>13. LocksOK'
    <2>1. \A q \in Readers : peersLock' = q <=> reader'[q].pc = "connect"
      BY <1>1, <1>5, <1>7, <1>9, TransferAssumption
    <2>2. \A j \in DOMAIN connLocks, q \in Readers :
               connLocks[j] = q <=> reader'[q].conn = j /\ reader'[q].pc \in Awaiting
      BY <1>1, <1>5, <1>7, InvParts DEF LocksOK, Awaiting
    <2> QED  BY <1>1, <2>1, <2>2 DEF LocksOK
  <1>14. CacheOK'
    <2>1. /\ DOMAIN peersTable' = DOMAIN peersTable \cup {p} /\ peersTable'[p] = n
          /\ \A q \in DOMAIN peersTable : peersTable'[q] = peersTable[q]
      BY <1>1, <1>2 DEF With
    <2>2. /\ closing \subseteq DOMAIN conns
          /\ \A q \in DOMAIN peersTable :
              /\ peersTable[q] \in DOMAIN conns /\ conns[peersTable[q]].peer = q
              /\ conns[peersTable[q]].open /\ peersTable[q] \notin closing
      BY InvParts DEF CacheOK
    <2>3. /\ closing' = closing /\ closing' \subseteq DOMAIN conns' /\ n \notin closing
          /\ \A q \in DOMAIN peersTable' :
              /\ peersTable'[q] \in DOMAIN conns' /\ conns'[peersTable'[q]].peer = q
              /\ conns'[peersTable'[q]].open /\ peersTable'[q] \notin closing'
      BY <1>1, <1>3, <1>4, <1>6, <2>1, <2>2
    <2>4. \A i \in DOMAIN conns : conns[i].open <=>
              \/ i \in closing
              \/ conns[i].peer \in DOMAIN peersTable /\ peersTable[conns[i].peer] = i
      BY InvParts DEF CacheOK, OpenIsOwned
    <2>5. \A i \in DOMAIN conns' : conns'[i].open <=>
              \/ i \in closing'
              \/ conns'[i].peer \in DOMAIN peersTable' /\ peersTable'[conns'[i].peer] = i
      <3> SUFFICES ASSUME NEW i \in DOMAIN conns'
                   PROVE  conns'[i].open <=>
                              \/ i \in closing'
                              \/ /\ conns'[i].peer \in DOMAIN peersTable'
                                 /\ peersTable'[conns'[i].peer] = i
        OBVIOUS
      <3>1. CASE i = n  BY <1>4, <1>6, <2>1, <3>1
      <3>2. CASE i # n
        <4>1. i \in DOMAIN conns /\ conns'[i] = conns[i]  BY <1>6, <3>2
        <4>2. conns[i].peer = p => ~conns[i].open \/ i \in closing
          BY <1>2, <2>4, <4>1
        <4> QED  BY <2>1, <2>3, <2>4, <3>2, <4>1, <4>2
      <3> QED  BY <3>1, <3>2
    <2>6. \A q \in Readers : reader'[q].pc # "connect"  BY <1>5, <1>7, <1>9
    <2>7. DOMAIN peersTable' \subseteq Peers  BY <1>2, <2>1, InvParts DEF CacheOK
    <2> QED  BY <2>3, <2>5, <2>6, <2>7 DEF CacheOK, OpenIsOwned
  <1>15. StreamsOK'
    <2>1. Clean(c) /\ NoneOf(c, r)  BY <1>4, EmptyStream DEF Clean, NoneOf
    <2>2. SideOK(c, y, r)  BY <1>5, <2>1 DEF SideOK, Awaiting
    <2>3. \A q \in Readers : reader'[q].pc \in OnStream =>
               SideOK(conns'[reader'[q].conn], reader'[q], q)
      <3> SUFFICES ASSUME NEW q \in Readers, q # r, reader[q].pc \in OnStream
                   PROVE  SideOK(conns'[reader[q].conn], reader[q], q)
        BY <1>5, <1>6, <1>7, <2>2
      <3>1. reader[q].conn \in DOMAIN conns /\ SideOK(conns[reader[q].conn], reader[q], q)
        BY InvParts DEF Linked
      <3> QED  BY <1>6, <3>1
    <2>4. \A i \in DOMAIN conns' :
               conns'[i].open /\ connLocks'[i] = NoReader => Clean(conns'[i])
      BY <1>1, <1>6, <2>1, InvParts DEF StreamsOK
    <2> QED  BY <2>3, <2>4 DEF StreamsOK
  <1> QED  BY <1>10, <1>11, <1>12, <1>13, <1>14, <1>15 DEF TcpInv

\* close() empties the cache: what was cached is its own to close.
LEMMA SwapPeersInv ==
    ASSUME TcpInv, SwapPeers
    PROVE  TcpInv'
  <1> DEFINE cached == {peersTable[p] : p \in DOMAIN peersTable}
  <1>1. /\ peersLock = NoReader /\ DOMAIN peersTable' = {}
        /\ closing' = closing \cup cached
        /\ UNCHANGED <<regions, server, conns, peersLock, connLocks, reader, reads>>
    BY DEF SwapPeers
  <1>2. Shapes'  BY <1>1, InvParts DEF Shapes
  <1>3. ConnsOK'  BY <1>1, InvParts, ConnsFrame
  <1>4. ReadersOK'  BY <1>1, InvParts, ReadersFrame
  <1>5. LocksOK'  BY <1>1, InvParts, LocksFrame
  <1>6. CacheOK'
    <2>1. \A q \in Readers : reader'[q].pc # "connect"
      BY <1>1, InvParts, TransferAssumption DEF LocksOK
    <2>2. /\ closing \subseteq DOMAIN conns
          /\ \A p \in DOMAIN peersTable :
              peersTable[p] \in DOMAIN conns /\ conns[peersTable[p]].peer = p
      BY InvParts DEF CacheOK
    <2>3. closing' \subseteq DOMAIN conns'  BY <1>1, <2>2
    <2>4. \A i \in DOMAIN conns : conns[i].open <=>
              \/ i \in closing
              \/ conns[i].peer \in DOMAIN peersTable /\ peersTable[conns[i].peer] = i
      BY InvParts DEF CacheOK, OpenIsOwned
    <2>5. \A i \in DOMAIN conns : conns[i].open <=> i \in closing \cup cached
      BY <2>2, <2>4
    <2> HIDE DEF cached
    <2> QED  BY <1>1, <2>1, <2>3, <2>5 DEF CacheOK, OpenIsOwned
  <1>7. StreamsOK'  BY <1>1, InvParts DEF StreamsOK
  <1> QED  BY <1>2, <1>3, <1>4, <1>5, <1>6, <1>7 DEF TcpInv

\* close() breaks one of the connections it took out of the cache.
LEMMA CloseConnInv ==
    ASSUME TcpInv, NEW i \in closing, CloseConn(i)
    PROVE  TcpInv'
  <1> DEFINE d == [conns[i] EXCEPT !.open = FALSE]
  <1>0. i \in DOMAIN conns  BY InvParts DEF CacheOK
  <1>1. /\ conns' = [conns EXCEPT ![i] = d] /\ closing' = closing \ {i}
        /\ UNCHANGED <<regions, server, peersTable, peersLock, connLocks, reader,
                       reads>>
    BY DEF CloseConn
  <1>2. /\ d \in ConnRecord /\ d.peer = conns[i].peer
        /\ d.requests = conns[i].requests /\ d.replies = conns[i].replies
        /\ d.header = conns[i].header /\ d.handler = conns[i].handler
        /\ d.late = conns[i].late /\ ~d.open
    BY <1>0, InvParts DEF ConnRecord
  <1> HIDE DEF d
  <1>3. /\ conns' \in Seq(ConnRecord) /\ Len(conns') = Len(conns)
        /\ DOMAIN conns' = DOMAIN conns /\ conns'[i] = d
        /\ \A j \in DOMAIN conns : j # i => conns'[j] = conns[j]
    BY <1>0, <1>1, <1>2, SetConn, InvParts
  <1>4. \A j \in DOMAIN conns :
            /\ conns'[j].peer = conns[j].peer
            /\ conns'[j].requests = conns[j].requests /\ conns'[j].replies = conns[j].replies
            /\ conns'[j].header = conns[j].header /\ conns'[j].handler = conns[j].handler
            /\ conns'[j].late = conns[j].late
    BY <1>2, <1>3
  <1>5. \A j \in DOMAIN conns : conns'[j].open <=> conns[j].open /\ j # i
    BY <1>2, <1>3
  <1>6. Shapes'  BY <1>1, <1>3, InvParts DEF Shapes
  <1>7. ConnsOK'
    <2>1. \A j \in DOMAIN conns : HandlerOK(conns'[j]) /\ LateOK(conns'[j], server')
      BY <1>1, <1>4, InvParts DEF ConnsOK, HandlerOK, LateOK
    <2> QED  BY <1>3, <2>1, InvParts, ConnsFrame
  <1>8. ReadersOK'  BY <1>1, <1>3, <1>4, InvParts, ReadersFrame
  <1>9. LocksOK'  BY <1>1, InvParts, LocksFrame
  <1>10. CacheOK'
    <2>1. /\ closing' \subseteq DOMAIN conns' /\ DOMAIN peersTable \subseteq Peers
          /\ \A p \in DOMAIN peersTable :
                 /\ peersTable[p] \in DOMAIN conns /\ conns[peersTable[p]].peer = p
                 /\ conns[peersTable[p]].open /\ peersTable[p] \notin closing
          /\ \A q \in Readers :
                 reader[q].pc = "connect" => reader[q].peer \notin DOMAIN peersTable
      BY <1>1, <1>3, InvParts DEF CacheOK
    <2>2. \A p \in DOMAIN peersTable :
              /\ peersTable[p] # i
              /\ conns'[peersTable[p]].peer = p /\ conns'[peersTable[p]].open
      BY <1>4, <1>5, <2>1
    <2>3. OpenIsOwned'
      <3>1. \A j \in DOMAIN conns : conns[j].open <=>
                \/ j \in closing
                \/ conns[j].peer \in DOMAIN peersTable /\ peersTable[conns[j].peer] = j
        BY InvParts DEF CacheOK, OpenIsOwned
      <3>2. \A j \in DOMAIN conns : conns'[j].open <=>
                \/ j \in closing'
                \/ conns'[j].peer \in DOMAIN peersTable /\ peersTable[conns'[j].peer] = j
        BY <1>1, <1>4, <1>5, <2>2, <3>1
      <3> QED  BY <1>1, <1>3, <3>2 DEF OpenIsOwned
    <2> QED  BY <1>1, <1>3, <2>1, <2>2, <2>3 DEF CacheOK
  <1>11. StreamsOK'
    <2>1. \A q \in Readers : reader'[q].pc \in OnStream =>
               SideOK(conns'[reader'[q].conn], reader'[q], q)
      <3> SUFFICES ASSUME NEW q \in Readers, reader[q].pc \in OnStream
                   PROVE  SideOK(conns'[reader[q].conn], reader[q], q)
        BY <1>1
      <3>1. reader[q].conn \in DOMAIN conns /\ SideOK(conns[reader[q].conn], reader[q], q)
        BY InvParts DEF Linked
      <3> QED
        BY <1>4, <3>1 DEF SideOK, NoneOf, Exchange, Agrees, Asked, OnlyOf, Answered
    <2>2. \A j \in DOMAIN conns' :
               conns'[j].open /\ connLocks'[j] = NoReader => Clean(conns'[j])
      BY <1>1, <1>3, <1>4, <1>5, InvParts DEF StreamsOK, Clean
    <2> QED  BY <2>1, <2>2 DEF StreamsOK
  <1> QED  BY <1>6, <1>7, <1>8, <1>9, <1>10, <1>11 DEF TcpInv

-----------------------------------------------------------------------------
(* The peer and its end.                                                   *)

\* A peer registers a region.
LEMMA RegisterInv ==
    ASSUME TcpInv, NEW p \in Peers, NEW region \in Regions, Register(p, region)
    PROVE  TcpInv'
  <1>1. /\ regions' = [regions EXCEPT ![p] = @ \cup {region}]
        /\ UNCHANGED <<server, conns, peersTable, closing, peersLock, connLocks,
                       reader, reads>>
    BY DEF Register
  <1>2. Shapes'
    <2>1. regions' \in [Peers -> SUBSET Regions]  BY <1>1, InvParts DEF Shapes
    <2> QED  BY <1>1, <2>1, InvParts DEF Shapes
  <1>3. ConnsOK'  BY <1>1, InvParts, ConnsFrame
  <1>4. ReadersOK'  BY <1>1, InvParts, ReadersFrame
  <1>5. LocksOK'  BY <1>1, InvParts, LocksFrame
  <1>6. CacheOK'  BY <1>1, InvParts, CacheFrame
  <1>7. StreamsOK'  BY <1>1, InvParts DEF StreamsOK
  <1> QED  BY <1>2, <1>3, <1>4, <1>5, <1>6, <1>7 DEF TcpInv

\* A peer sets its stop flag.
LEMMA StopServingInv ==
    ASSUME TcpInv, NEW p \in Peers, StopServing(p)
    PROVE  TcpInv'
  <1>1. /\ server[p] = "up" /\ server' = [server EXCEPT ![p] = "stopped"]
        /\ UNCHANGED <<regions, conns, peersTable, closing, peersLock, connLocks,
                       reader, reads>>
    BY DEF StopServing
  <1>2. server' \in [Peers -> {"up", "stopped", "closed", "silent"}]
        /\ \A q \in Peers : server[q] # "up" => server'[q] # "up"
    BY <1>1, InvParts DEF Shapes
  <1>3. Shapes'  BY <1>1, <1>2, InvParts DEF Shapes
  <1>4. ConnsOK'
    <2>1. \A i \in DOMAIN conns : conns[i].peer \in Peers  BY InvParts DEF ConnRecord
    <2>2. \A i \in DOMAIN conns : HandlerOK(conns'[i]) /\ LateOK(conns'[i], server')
      BY <1>1, <1>2, <2>1, InvParts DEF ConnsOK, LateOK
    <2> QED  BY <1>1, <2>2, InvParts, ConnsFrame
  <1>5. ReadersOK'  BY <1>1, InvParts, ReadersFrame
  <1>6. LocksOK'  BY <1>1, InvParts, LocksFrame
  <1>7. CacheOK'  BY <1>1, InvParts, CacheFrame
  <1>8. StreamsOK'  BY <1>1, InvParts DEF StreamsOK
  <1> QED  BY <1>3, <1>4, <1>5, <1>6, <1>7, <1>8 DEF TcpInv

\* How much of an answer a reader has.
LEMMA GotIsNat ==
    ASSUME NEW x \in ReaderRecord
    PROVE  Got(x) \in Nat
  <1>1. x.header \in Seq(ReplyCell) /\ x.target \in Seq(ReplyCell)  BY DEF ReaderRecord
  <1> DEFINE a == Len(x.header)
             b == Len(x.target)
  <1>2. a \in Nat /\ b \in Nat  BY <1>1, EmptyStream
  <1>3. Got(x) = a + b  BY DEF Got
  <1> HIDE DEF a, b
  <1> QED  BY <1>2, <1>3

\* What becomes of an exchange when the handler is gone and a suffix is lost.
LEMMA Lost ==
    ASSUME NEW c \in ConnRecord, NEW d \in ConnRecord, NEW x \in ReaderRecord, NEW r,
           SideOK(c, x, r), x.pc \in OnStream,
           x.peer \in Peers, x.want \in Ranges,
           NEW k \in 0 .. Len(c.replies), d.replies = SubSeq(c.replies, 1, k),
           d.requests = <<>>, d.header = <<>>, d.handler \in {"closed", "silent"}
    PROVE  SideOK(d, x, r)
  <1> DEFINE w == c.replies
             s == SubSeq(w, 1, k)
  <1>1. /\ w \in Seq(ReplyCell) /\ x.header \in Seq(ReplyCell) /\ x.target \in Seq(ReplyCell)
    BY DEF ConnRecord, ReaderRecord
  <1>2. Len(w) \in Nat /\ Len(s) = k /\ \A j \in DOMAIN s : j \in DOMAIN w /\ s[j] = w[j]
    <2> HIDE DEF w
    <2> QED  BY <1>1, Cut, EmptyStream DEF w
  <1>3. NoneOf(d, r)  BY EmptyStream DEF NoneOf
  <1>4. ASSUME x.pc \in Awaiting  PROVE Exchange(d, x, r)
    <2>1. Agrees(c, x)  BY <1>4 DEF SideOK, Exchange
    <2> DEFINE g == Got(x)
    <2>2. g \in Nat /\ Total(x) \in Nat
      BY GotIsNat, CellIsReply
    <2>3. g + Len(w) <= Total(x)  BY <2>1 DEF Agrees
    <2>4. \A j \in DOMAIN s : s[j] = Cell(x, g + j)  BY <1>2, <2>1 DEF Agrees
    <2>5. k \in 0 .. Len(w) /\ d.replies = s  OBVIOUS
    <2> HIDE DEF g, w, s
    <2>6. g + Len(s) <= Total(x)  BY <1>2, <2>2, <2>3, <2>5
    <2>7. Agrees(d, x)  BY <2>1, <2>4, <2>5, <2>6 DEF Agrees, g
    <2> QED  BY <2>7 DEF Exchange, Answered
  <1> QED  BY <1>3, <1>4 DEF SideOK

\* A peer is gone, with or without a word.
LEMMA DieInv ==
    ASSUME TcpInv, NEW p \in Peers, NEW how \in {"closed", "silent"}, Die(p, how)
    PROVE  TcpInv'
  <1>1. /\ server' = [server EXCEPT ![p] = how]
        /\ UNCHANGED <<regions, peersTable, closing, peersLock, connLocks, reader,
                       reads>>
    BY DEF Die
  <1>2. PICK kept \in [DOMAIN conns -> 0 .. HeaderCells + 2] :
            /\ \A i \in DOMAIN conns : kept[i] <= Len(conns[i].replies)
            /\ conns' = [i \in DOMAIN conns |->
                  IF conns[i].peer = p /\ conns[i].handler # "closed"
                  THEN [Over(conns[i], how) EXCEPT !.replies = SubSeq(@, 1, kept[i])]
                  ELSE conns[i]]
    BY DEF Die
  <1> DEFINE hit(i) == conns[i].peer = p /\ conns[i].handler # "closed"
             d(i) == [Over(conns[i], how) EXCEPT !.replies = SubSeq(@, 1, kept[i])]
  <1>3. \A i \in DOMAIN conns :
            /\ conns[i] \in ConnRecord /\ conns[i].replies \in Seq(ReplyCell)
            /\ kept[i] \in 0 .. Len(conns[i].replies)
            /\ SubSeq(conns[i].replies, 1, kept[i]) \in Seq(ReplyCell)
    <2> SUFFICES ASSUME NEW i \in DOMAIN conns
                 PROVE  /\ conns[i] \in ConnRecord /\ conns[i].replies \in Seq(ReplyCell)
                        /\ kept[i] \in 0 .. Len(conns[i].replies)
                        /\ SubSeq(conns[i].replies, 1, kept[i]) \in Seq(ReplyCell)
      OBVIOUS
    <2>1. conns[i] \in ConnRecord /\ conns[i].replies \in Seq(ReplyCell)
      BY InvParts DEF ConnRecord
    <2>2. Len(conns[i].replies) \in Nat  BY <2>1, EmptyStream
    <2>3. HeaderCells + 2 \in Nat  BY TransferAssumption
    <2>4. kept[i] \in 0 .. HeaderCells + 2 /\ kept[i] <= Len(conns[i].replies)  BY <1>2
    <2>5. kept[i] \in 0 .. Len(conns[i].replies)  BY <2>2, <2>3, <2>4
    <2> QED  BY <2>1, <2>5, Cut
  <1>4. \A i \in DOMAIN conns :
            /\ d(i) \in ConnRecord /\ d(i).peer = conns[i].peer /\ d(i).open = conns[i].open
            /\ d(i).late = conns[i].late /\ d(i).handler = how
            /\ d(i).requests = <<>> /\ d(i).header = <<>>
            /\ d(i).replies = SubSeq(conns[i].replies, 1, kept[i])
    <2> SUFFICES ASSUME NEW i \in DOMAIN conns
                 PROVE  /\ d(i) \in ConnRecord /\ d(i).peer = conns[i].peer
                        /\ d(i).open = conns[i].open
                        /\ d(i).late = conns[i].late /\ d(i).handler = how
                        /\ d(i).requests = <<>> /\ d(i).header = <<>>
                        /\ d(i).replies = SubSeq(conns[i].replies, 1, kept[i])
      OBVIOUS
    <2> DEFINE c == conns[i]
               s == SubSeq(c.replies, 1, kept[i])
    <2>1. c \in ConnRecord /\ s \in Seq(ReplyCell)  BY <1>3
    <2>2. d(i) = [c EXCEPT !.handler = how, !.requests = <<>>, !.header = <<>>, !.replies = s]
      BY <2>1 DEF Over, ConnRecord
    <2> HIDE DEF s, d
    <2>3. <<>> \in Seq(RequestCell)  BY EmptyStream
    <2>4. /\ d(i) \in ConnRecord /\ d(i).peer = c.peer /\ d(i).open = c.open
          /\ d(i).late = c.late /\ d(i).handler = how
          /\ d(i).requests = <<>> /\ d(i).header = <<>> /\ d(i).replies = s
      BY <2>1, <2>2, <2>3 DEF ConnRecord
    <2> QED  BY <2>4 DEF s
  <1>5. conns' = [i \in DOMAIN conns |-> IF hit(i) THEN d(i) ELSE conns[i]]
    BY <1>2
  <1> HIDE DEF d
  <1>6. /\ conns' \in Seq(ConnRecord) /\ Len(conns') = Len(conns)
        /\ DOMAIN conns' = DOMAIN conns
    <2>1. \A i \in DOMAIN conns : (IF hit(i) THEN d(i) ELSE conns[i]) \in ConnRecord
      BY <1>3, <1>4
    <2> HIDE DEF hit
    <2> QED  BY <1>5, <2>1, InvParts
  <1>7. \A i \in DOMAIN conns :
            /\ \/ conns'[i] = conns[i] /\ (conns[i].peer = p => conns[i].handler = "closed")
               \/ conns'[i] = d(i)
            /\ conns'[i].peer = conns[i].peer /\ conns'[i].open = conns[i].open
    BY <1>4, <1>5
  <1>8. server' \in [Peers -> {"up", "stopped", "closed", "silent"}]
        /\ \A q \in Peers : server[q] # "up" => server'[q] # "up"
    BY <1>1, InvParts DEF Shapes
  <1>9. Shapes'  BY <1>1, <1>6, <1>8, InvParts DEF Shapes
  <1>10. ConnsOK'
    <2>1. \A i \in DOMAIN conns : conns[i].peer \in Peers  BY <1>3 DEF ConnRecord
    <2>2. \A i \in DOMAIN conns : HandlerOK(conns[i]) /\ LateOK(conns[i], server')
      BY <1>8, <2>1, InvParts DEF ConnsOK, LateOK
    <2>3. \A i \in DOMAIN conns : HandlerOK(d(i)) /\ LateOK(d(i), server')
      BY <1>4, <2>2, EmptyStream, TransferAssumption DEF HandlerOK, LateOK
    <2>4. \A i \in DOMAIN conns : HandlerOK(conns'[i]) /\ LateOK(conns'[i], server')
      BY <1>7, <2>2, <2>3
    <2> QED  BY <1>6, <2>4, InvParts, ConnsFrame
  <1>11. ReadersOK'  BY <1>1, <1>6, <1>7, InvParts, ReadersFrame
  <1>12. LocksOK'  BY <1>1, InvParts, LocksFrame
  <1>13. CacheOK'  BY <1>1, <1>6, <1>7, InvParts, CacheFrame
  <1>14. StreamsOK'
    <2>1. \A q \in Readers : reader'[q].pc \in OnStream =>
               SideOK(conns'[reader'[q].conn], reader'[q], q)
      <3> SUFFICES ASSUME NEW q \in Readers, reader[q].pc \in OnStream
                   PROVE  SideOK(conns'[reader[q].conn], reader[q], q)
        BY <1>1
      <3> DEFINE i == reader[q].conn
                 x == reader[q]
      <3>1. /\ i \in DOMAIN conns /\ SideOK(conns[i], x, q) /\ x \in ReaderRecord
            /\ x.peer \in Peers /\ x.want \in Ranges
        BY InvParts DEF Linked, ReaderOK, OnStream, Awaiting
      <3>2. SideOK(d(i), x, q)
        <4>1. /\ conns[i] \in ConnRecord /\ d(i) \in ConnRecord
              /\ kept[i] \in 0 .. Len(conns[i].replies)
              /\ d(i).replies = SubSeq(conns[i].replies, 1, kept[i])
              /\ d(i).requests = <<>> /\ d(i).header = <<>>
              /\ d(i).handler \in {"closed", "silent"}
          BY <1>3, <1>4, <3>1
        <4> HIDE DEF i, x
        <4> QED  BY <3>1, <4>1, Lost DEF x
      <3> QED  BY <1>7, <3>1, <3>2
    <2>2. \A i \in DOMAIN conns' :
               conns'[i].open /\ connLocks'[i] = NoReader => Clean(conns'[i])
      <3> SUFFICES ASSUME NEW i \in DOMAIN conns, conns[i].open, connLocks[i] = NoReader
                   PROVE  Clean(conns'[i])
        BY <1>1, <1>6, <1>7
      <3>1. Clean(conns[i])  BY InvParts DEF StreamsOK
      <3>2. Clean(d(i))
        <4>1. conns[i].replies = <<>> /\ kept[i] \in 0 .. Len(conns[i].replies)
          BY <1>3, <3>1 DEF Clean
        <4>2. kept[i] = 0  BY <4>1, EmptyStream
        <4>3. SubSeq(conns[i].replies, 1, kept[i]) = <<>>  BY <4>1, <4>2
        <4> QED  BY <1>4, <4>3 DEF Clean
      <3> QED  BY <1>7, <3>1, <3>2
    <2> QED  BY <2>1, <2>2 DEF StreamsOK
  <1> QED  BY <1>9, <1>10, <1>11, <1>12, <1>13, <1>14 DEF TcpInv

-----------------------------------------------------------------------------
(* A handler.                                                              *)

\* A step of the handler of connection i, with what it decides of its reader.
LEMMA HandlerStep ==
    ASSUME TcpInv, NEW i \in DOMAIN conns, NEW d \in ConnRecord,
           conns' = [conns EXCEPT ![i] = d],
           d.peer = conns[i].peer, d.open = conns[i].open,
           HandlerOK(d), LateOK(d, server),
           UNCHANGED <<regions, server, peersTable, closing, peersLock, connLocks,
                       reads>>,
           reader' \in [Readers -> ReaderRecord],
           \A q \in Readers :
               /\ reader'[q].pc = reader[q].pc /\ reader'[q].conn = reader[q].conn
               /\ reader'[q].peer = reader[q].peer
               /\ ReaderOK(reader'[q])
               /\ reader[q].conn # i => reader'[q] = reader[q],
           \A q \in Readers : reader[q].pc \in OnStream /\ reader[q].conn = i =>
               SideOK(d, reader'[q], q),
           d.open /\ connLocks[i] = NoReader => Clean(d)
    PROVE  TcpInv'
  <1>1. /\ conns' \in Seq(ConnRecord) /\ Len(conns') = Len(conns)
        /\ DOMAIN conns' = DOMAIN conns /\ conns'[i] = d
        /\ \A j \in DOMAIN conns : j # i => conns'[j] = conns[j]
    BY SetConn, InvParts
  <1>2. \A j \in DOMAIN conns :
            conns'[j].peer = conns[j].peer /\ conns'[j].open = conns[j].open
    BY <1>1
  <1>3. Shapes'  BY <1>1, InvParts DEF Shapes
  <1>4. ConnsOK'  BY <1>1, InvParts, ConnsFrame
  <1>5. ReadersOK'
    <2>1. \A q \in Readers : Linked(reader'[q], conns')
      BY <1>1, <1>2, InvParts DEF Linked
    <2> QED  BY <1>1, <1>2, <2>1, InvParts, ReadersFrame
  <1>6. LocksOK'  BY InvParts, LocksFrame
  <1>7. CacheOK'  BY <1>1, <1>2, InvParts, CacheFrame
  <1>8. StreamsOK'  BY <1>1, InvParts, StreamsOfHandler
  <1> QED  BY <1>3, <1>4, <1>5, <1>6, <1>7, <1>8 DEF TcpInv

\* A step of a handler that decides nothing.
LEMMA QuietStep ==
    ASSUME TcpInv, NEW i \in DOMAIN conns, NEW d \in ConnRecord,
           conns' = [conns EXCEPT ![i] = d],
           d.peer = conns[i].peer, d.open = conns[i].open,
           HandlerOK(d), LateOK(d, server),
           UNCHANGED <<regions, server, peersTable, closing, peersLock, connLocks,
                       reader, reads>>,
           \A q \in Readers : reader[q].pc \in OnStream /\ reader[q].conn = i =>
               SideOK(d, reader[q], q),
           d.open /\ connLocks[i] = NoReader => Clean(d)
    PROVE  TcpInv'
  <1>1. /\ reader' \in [Readers -> ReaderRecord]
        /\ \A q \in Readers :
               /\ reader'[q].pc = reader[q].pc /\ reader'[q].conn = reader[q].conn
               /\ reader'[q].peer = reader[q].peer
               /\ ReaderOK(reader'[q])
               /\ reader[q].conn # i => reader'[q] = reader[q]
        /\ \A q \in Readers : reader[q].pc \in OnStream /\ reader[q].conn = i =>
               SideOK(d, reader'[q], q)
    BY InvParts DEF Shapes
  <1> QED  BY <1>1, HandlerStep

\* What is known of a connection and of the readers on it.
LEMMA ConnIs ==
    ASSUME TcpInv, NEW i \in DOMAIN conns
    PROVE  /\ conns[i] \in ConnRecord /\ HandlerOK(conns[i]) /\ LateOK(conns[i], server)
           /\ conns[i].peer \in Peers
           /\ conns[i].requests \in Seq(RequestCell) /\ conns[i].header \in Seq(RequestCell)
           /\ conns[i].replies \in Seq(ReplyCell)
           /\ \A q \in Readers : reader[q].pc \in OnStream /\ reader[q].conn = i =>
                  /\ SideOK(conns[i], reader[q], q) /\ reader[q] \in ReaderRecord
                  /\ reader[q].peer \in Peers /\ reader[q].want \in Ranges
                  /\ reader[q].peer = conns[i].peer
           /\ conns[i].open /\ connLocks[i] = NoReader => Clean(conns[i])
  <1>1. /\ conns[i] \in ConnRecord /\ HandlerOK(conns[i]) /\ LateOK(conns[i], server)
    BY InvParts DEF ConnsOK
  <1>2. conns[i].open /\ connLocks[i] = NoReader => Clean(conns[i])
    BY InvParts DEF StreamsOK
  <1>3. \A q \in Readers : reader[q].pc \in OnStream => reader[q].pc # "none"
    BY DEF OnStream, Awaiting
  <1>4. \A q \in Readers : reader[q].pc \in OnStream /\ reader[q].conn = i =>
            /\ SideOK(conns[i], reader[q], q) /\ reader[q] \in ReaderRecord
            /\ reader[q].peer \in Peers /\ reader[q].want \in Ranges
            /\ reader[q].peer = conns[i].peer
    BY <1>3, InvParts DEF ReaderOK, Linked
  <1> QED  BY <1>1, <1>2, <1>4 DEF ConnRecord

\* The handler of connection i ends.
LEMMA HandlerEndsInv ==
    ASSUME TcpInv, NEW i \in DOMAIN conns, HandlerEnds(i),
           UNCHANGED <<regions, server, peersTable, closing, peersLock, connLocks,
                       reader, reads>>
    PROVE  TcpInv'
  <1> DEFINE c == conns[i]
             d == [c EXCEPT !.handler = "closed", !.requests = <<>>, !.header = <<>>]
  <1>1. conns' = [conns EXCEPT ![i] = d]  BY DEF HandlerEnds, Over
  <1>2. c \in ConnRecord /\ c.replies \in Seq(ReplyCell) /\ Len(c.replies) \in Nat
    BY ConnIs, EmptyStream
  <1>3. /\ d \in ConnRecord /\ d.peer = c.peer /\ d.open = c.open /\ d.late = c.late
        /\ d.handler = "closed" /\ d.requests = <<>> /\ d.header = <<>>
        /\ d.replies = c.replies
    BY <1>2, EmptyStream DEF ConnRecord
  <1> HIDE DEF d
  <1>4. HandlerOK(d) /\ LateOK(d, server)
    BY <1>3, ConnIs, EmptyStream, TransferAssumption DEF HandlerOK, LateOK
  <1>5. d.open /\ connLocks[i] = NoReader => Clean(d)
    BY <1>3, ConnIs DEF Clean
  <1>6. SubSeq(c.replies, 1, Len(c.replies)) = c.replies
    <2> DEFINE w == c.replies
    <2>1. w \in Seq(ReplyCell)  BY <1>2
    <2> HIDE DEF w
    <2>2. SubSeq(w, 1, Len(w)) = w  BY <2>1
    <2> QED  BY <2>2 DEF w
  <1>7. \A q \in Readers : reader[q].pc \in OnStream /\ reader[q].conn = i =>
            SideOK(d, reader[q], q)
    <2> SUFFICES ASSUME NEW q \in Readers, reader[q].pc \in OnStream, reader[q].conn = i
                 PROVE  SideOK(d, reader[q], q)
      OBVIOUS
    <2> DEFINE x == reader[q]
               k == Len(c.replies)
    <2>1. /\ SideOK(c, x, q) /\ x.pc \in OnStream /\ x \in ReaderRecord
          /\ x.peer \in Peers /\ x.want \in Ranges
      BY ConnIs
    <2>2. k \in 0 .. Len(c.replies) /\ d.replies = SubSeq(c.replies, 1, k)
      BY <1>2, <1>3, <1>6
    <2>3. d.requests = <<>> /\ d.header = <<>> /\ d.handler \in {"closed", "silent"}
      BY <1>3
    <2> HIDE DEF x, c, k
    <2> QED  BY <1>2, <1>3, <2>1, <2>2, <2>3, Lost DEF x
  <1> QED  BY <1>1, <1>3, <1>4, <1>5, <1>7, QuietStep

\* Where a living handler is does not matter to a reader.
LEMMA SameSide ==
    ASSUME NEW c, NEW d, NEW x, NEW r, SideOK(c, x, r),
           c.handler \in Living, d.handler \in Living,
           d.requests = c.requests, d.header = c.header, d.replies = c.replies
    PROVE  SideOK(d, x, r)
  <1>1. NoneOf(c, r) => NoneOf(d, r)  BY DEF NoneOf
  <1>2. Agrees(c, x) => Agrees(d, x)  BY DEF Agrees
  <1>3. OnlyOf(c, r, x.want) => OnlyOf(d, r, x.want)  BY DEF OnlyOf
  <1>4. Asked(c, x, r) => Asked(d, x, r)  BY <1>3 DEF Asked
  <1>5. Answered(c, x) => Answered(d, x)  BY DEF Answered, Living
  <1> QED  BY <1>1, <1>2, <1>4, <1>5 DEF SideOK, Exchange

\* What stands in the backlog is accepted, and is served or not.
LEMMA AcceptInv ==
    ASSUME TcpInv, NEW i \in DOMAIN conns, Accept(i) \/ HandlerUnstarted(i)
    PROVE  TcpInv'
  <1> DEFINE c == conns[i]
  <1>1. PICK to \in {"top", "unserved"} : HandlerGoes(i, to)
    BY DEF Accept, HandlerUnstarted
  <1>2. /\ c.handler = "backlog"
        /\ UNCHANGED <<regions, server, peersTable, closing, peersLock, connLocks,
                       reader, reads>>
    BY DEF Accept, HandlerUnstarted, Handler
  <1> DEFINE d == [c EXCEPT !.handler = to]
  <1>3. conns' = [conns EXCEPT ![i] = d]  BY <1>1 DEF HandlerGoes
  <1>4. /\ d \in ConnRecord /\ d.peer = c.peer /\ d.open = c.open /\ d.late = c.late
        /\ d.handler = to /\ d.requests = c.requests /\ d.header = c.header
        /\ d.replies = c.replies
    BY ConnIs DEF ConnRecord, Living
  <1> HIDE DEF d
  <1>5. HandlerOK(d) /\ LateOK(d, server)
    BY <1>2, <1>4, ConnIs DEF HandlerOK, LateOK, ConnRecord
  <1>6. d.open /\ connLocks[i] = NoReader => Clean(d)
    BY <1>4, ConnIs DEF Clean
  <1>7. \A q \in Readers : reader[q].pc \in OnStream /\ reader[q].conn = i =>
            SideOK(d, reader[q], q)
    BY <1>2, <1>4, ConnIs, SameSide DEF Living
  <1> QED  BY <1>2, <1>3, <1>4, <1>5, <1>6, <1>7, QuietStep

\* What nobody will accept any more is reset.
LEMMA ResetConnInv ==
    ASSUME TcpInv, NEW i \in DOMAIN conns, ResetConn(i)
    PROVE  TcpInv'
  BY HandlerEndsInv DEF ResetConn

\* A handler at the top of its loop looks at the stop flag.
LEMMA HandlerTopInv ==
    ASSUME TcpInv, NEW i \in DOMAIN conns, HandlerTop(i)
    PROVE  TcpInv'
  <1> DEFINE c == conns[i]
             d == [c EXCEPT !.handler = "recv"]
  <1>1. /\ c.handler = "top"
        /\ UNCHANGED <<regions, server, peersTable, closing, peersLock, connLocks,
                       reader, reads>>
    BY DEF HandlerTop, Handler
  <1>2. CASE server[c.peer] = "up"
    <2>1. conns' = [conns EXCEPT ![i] = d]  BY <1>2 DEF HandlerTop, HandlerGoes
    <2>2. /\ d \in ConnRecord /\ d.peer = c.peer /\ d.open = c.open /\ d.late = c.late
          /\ d.handler = "recv" /\ d.requests = c.requests /\ d.header = c.header
          /\ d.replies = c.replies
      BY ConnIs DEF ConnRecord, Living
    <2> HIDE DEF d
    <2>3. HandlerOK(d) /\ LateOK(d, server)
      BY <1>1, <1>2, <2>2, ConnIs DEF HandlerOK, LateOK, ConnRecord
    <2>4. d.open /\ connLocks[i] = NoReader => Clean(d)
      BY <2>2, ConnIs DEF Clean
    <2>5. \A q \in Readers : reader[q].pc \in OnStream /\ reader[q].conn = i =>
              SideOK(d, reader[q], q)
      BY <1>1, <2>2, ConnIs, SameSide DEF Living
    <2> QED  BY <1>1, <2>1, <2>2, <2>3, <2>4, <2>5, QuietStep
  <1>3. CASE server[c.peer] # "up"
    <2>1. HandlerEnds(i)  BY <1>3 DEF HandlerTop
    <2> QED  BY <1>1, <2>1, HandlerEndsInv
  <1> QED  BY <1>2, <1>3

\* A handler receives a piece of a request.
LEMMA HandlerRecvInv ==
    ASSUME TcpInv, NEW i \in DOMAIN conns, HandlerRecv(i)
    PROVE  TcpInv'
  <1> DEFINE c == conns[i]
             w == c.requests
             h == c.header
  <1>1. /\ c.handler = "recv"
        /\ UNCHANGED <<regions, server, peersTable, closing, peersLock, connLocks,
                       reader, reads>>
    BY DEF HandlerRecv, Handler
  <1>2. PICK k \in Received(w, HeaderCells - Len(h)) :
            LET got == h \o SubSeq(w, 1, k) IN
            conns' = [conns EXCEPT ![i].requests = After(@, k),
                                   ![i].header = got,
                                   ![i].handler = IF Len(got) = HeaderCells
                                                  THEN "check" ELSE @]
    BY DEF HandlerRecv
  <1>3. /\ c \in ConnRecord /\ w \in Seq(RequestCell) /\ h \in Seq(RequestCell)
        /\ Len(w) \in Nat /\ DOMAIN w = 1 .. Len(w) /\ Len(h) \in Nat
        /\ DOMAIN h = 1 .. Len(h)
        /\ HandlerOK(c) /\ LateOK(c, server) /\ HeaderCells \in Nat \ {0}
    BY ConnIs, EmptyStream, TransferAssumption
  <1>4. k \in 1 .. Len(w) /\ k \in 0 .. Len(w) /\ k <= HeaderCells - Len(h)
    BY <1>3 DEF Received
  <1> DEFINE s == SubSeq(w, 1, k)
             t == After(w, k)
             got == h \o s
             handler == IF Len(got) = HeaderCells THEN "check" ELSE "recv"
             d == [c EXCEPT !.requests = t, !.header = got, !.handler = handler]
  <1>5. conns' = [conns EXCEPT ![i] = d]  BY <1>1, <1>2
  <1> HIDE DEF w, h
  <1>6. /\ s \in Seq(RequestCell) /\ Len(s) = k
        /\ \A j \in DOMAIN s : j \in DOMAIN w /\ s[j] = w[j]
        /\ t \in Seq(RequestCell) /\ Len(t) = Len(w) - k
        /\ \A j \in DOMAIN t : k + j \in DOMAIN w /\ t[j] = w[k + j]
    BY <1>3, <1>4, Cut
  <1> HIDE DEF s, t
  <1>7. /\ got \in Seq(RequestCell) /\ Len(got) = Len(h) + k
        /\ \A j \in DOMAIN got : \/ j \in DOMAIN h /\ got[j] = h[j]
                                 \/ j - Len(h) \in DOMAIN s /\ got[j] = s[j - Len(h)]
    <2>1. s \in Seq(RequestCell) /\ h \in Seq(RequestCell)  BY <1>3, <1>6
    <2>2. /\ got \in Seq(RequestCell) /\ Len(got) = Len(h) + Len(s)
          /\ \A j \in DOMAIN got :
                 \/ j \in DOMAIN h /\ got[j] = h[j]
                 \/ j - Len(h) \in DOMAIN s /\ got[j] = s[j - Len(h)]
      BY <2>1, Joined
    <2> HIDE DEF got
    <2> QED  BY <1>6, <2>2
  <1> HIDE DEF got
  <1>8. /\ handler \in {"recv", "check"} /\ Len(got) <= HeaderCells
        /\ handler = "check" <=> Len(got) = HeaderCells
    BY <1>3, <1>4, <1>7
  <1> HIDE DEF handler
  <1>9. /\ d \in ConnRecord /\ d.peer = c.peer /\ d.open = c.open /\ d.late = c.late
        /\ d.handler = handler /\ d.requests = t /\ d.header = got /\ d.replies = c.replies
    BY <1>3, <1>6, <1>7, <1>8 DEF ConnRecord, Living
  <1> HIDE DEF d
  <1>10. HandlerOK(d)  BY <1>8, <1>9 DEF HandlerOK
  <1>11. LateOK(d, server)  BY <1>1, <1>3, <1>9 DEF LateOK, ConnRecord
  <1>12. c.requests = w /\ c.header = h  BY DEF w, h
  <1>13. ~Clean(c)
    BY <1>3, <1>4, <1>12, EmptyStream DEF Clean
  <1>14. ~(d.open /\ connLocks[i] = NoReader)  BY <1>9, <1>13, ConnIs
  <1>16. /\ \A j \in DOMAIN d.requests :
                k + j \in DOMAIN c.requests /\ d.requests[j] = c.requests[k + j]
         /\ \A j \in DOMAIN d.header :
                \/ j \in DOMAIN c.header /\ d.header[j] = c.header[j]
                \/ /\ j - Len(h) \in DOMAIN c.requests
                   /\ d.header[j] = c.requests[j - Len(h)]
    BY <1>6, <1>7, <1>9, <1>12
  <1>17. Len(d.requests) + Len(d.header) = Len(c.requests) + Len(c.header)
    <2> DEFINE m == Len(w)
               n == Len(h)
    <2>1. m \in Nat /\ n \in Nat /\ k \in Nat  BY <1>3, <1>4
    <2>2. Len(d.requests) = m - k /\ Len(d.header) = n + k
      BY <1>6, <1>7, <1>9
    <2>3. Len(c.requests) = m /\ Len(c.header) = n  BY <1>12
    <2> HIDE DEF m, n
    <2>4. (m - k) + (n + k) = m + n  BY <2>1
    <2> QED  BY <2>2, <2>3, <2>4
  <1>15. \A q \in Readers : reader[q].pc \in OnStream /\ reader[q].conn = i =>
             SideOK(d, reader[q], q)
    <2> SUFFICES ASSUME NEW q \in Readers, reader[q].pc \in OnStream, reader[q].conn = i
                 PROVE  SideOK(d, reader[q], q)
      OBVIOUS
    <2> DEFINE x == reader[q]
    <2>1. SideOK(c, x, q)  BY ConnIs
    <2>2. ASSUME NoneOf(c, q)  PROVE NoneOf(d, q)
      BY <1>16, <2>2 DEF NoneOf
    <2>3. ASSUME Exchange(c, x, q)  PROVE Exchange(d, x, q)
      <3>1. Asked(c, x, q)
        BY <1>3, <1>4, <1>12, <2>3, EmptyStream DEF Exchange, Answered
      <3>2. OnlyOf(d, q, x.want)
        BY <1>16, <3>1 DEF Asked, OnlyOf
      <3>3. Len(d.requests) + Len(d.header) = HeaderCells
        BY <1>17, <3>1 DEF Asked, Living
      <3>4. Asked(d, x, q)  BY <1>8, <1>9, <3>1, <3>2, <3>3 DEF Asked, Living
      <3>5. Agrees(d, x)  BY <1>9, <2>3 DEF Exchange, Agrees
      <3> QED  BY <3>4, <3>5 DEF Exchange
    <2> QED  BY <2>1, <2>2, <2>3 DEF SideOK
  <1> QED  BY <1>1, <1>5, <1>9, <1>10, <1>11, <1>14, <1>15, QuietStep

\* A handler ends, because its stream has or because it cannot send.
LEMMA HandlerEofInv ==
    ASSUME TcpInv, NEW i \in DOMAIN conns, HandlerEof(i) \/ HandlerSendFails(i)
    PROVE  TcpInv'
  BY HandlerEndsInv DEF HandlerEof, HandlerSendFails

\* Who can be waiting when a whole request is at hand: its reader, which has
\* received nothing of the answer yet, and readers that have not asked.
LEMMA DecisionPoint ==
    ASSUME TcpInv, NEW i \in DOMAIN conns, conns[i].handler = "check"
    PROVE  /\ Request(i) \in RequestCell /\ conns[i].late = 0
           /\ ~(conns[i].open /\ connLocks[i] = NoReader)
           /\ \A q \in Readers : reader[q].conn = i /\ reader[q].pc \notin Ended =>
                  \/ reader[q].pc = "lock" /\ NoneOf(conns[i], q) /\ Request(i).by # q
                  \/ /\ reader[q].pc = "header" /\ reader[q].verdict = "pending"
                     /\ reader[q].header = <<>> /\ reader[q].target = <<>>
                     /\ Request(i).by = q /\ Request(i).want = reader[q].want
                     /\ conns[i].requests = <<>> /\ conns[i].replies = <<>>
  <1> DEFINE c == conns[i]
             w == c.header
  <1>1. /\ c \in ConnRecord /\ w \in Seq(RequestCell) /\ Len(w) = HeaderCells
        /\ HeaderCells \in Nat \ {0} /\ LateOK(c, server)
    BY ConnIs, TransferAssumption DEF HandlerOK
  <1>2. DOMAIN w = 1 .. HeaderCells /\ 1 \in DOMAIN w /\ w # <<>>
    BY <1>1, EmptyStream
  <1>3. Request(i) = w[1] /\ w[1] \in RequestCell  BY <1>1, <1>2 DEF Request
  <1>4. c.late = 0  BY <1>1 DEF LateOK, ConnRecord
  <1>5. ~Clean(c)  BY <1>2 DEF Clean
  <1>6. ~(c.open /\ connLocks[i] = NoReader)  BY <1>5, ConnIs
  <1>7. ASSUME NEW q \in Readers, reader[q].conn = i, reader[q].pc \notin Ended
        PROVE  \/ reader[q].pc = "lock" /\ NoneOf(c, q) /\ Request(i).by # q
               \/ /\ reader[q].pc = "header" /\ reader[q].verdict = "pending"
                  /\ reader[q].header = <<>> /\ reader[q].target = <<>>
                  /\ Request(i).by = q /\ Request(i).want = reader[q].want
                  /\ c.requests = <<>> /\ c.replies = <<>>
    <2> DEFINE x == reader[q]
    <2>1. x \in ReaderRecord /\ ReaderOK(x)  BY InvParts
    <2>2. x.pc \in OnStream
      <3>1. i # NoConn  BY InvParts, TransferAssumption
      <3>2. x.pc \notin {"peer", "connect"}  BY <1>7, <2>1, <3>1 DEF ReaderOK
      <3> QED  BY <1>7, <2>1, <3>2 DEF ReaderRecord, OnStream
    <2>3. SideOK(c, x, q) /\ x.want \in Ranges /\ x.peer \in Peers  BY <1>7, <2>2, ConnIs
    <2>4. CASE x.pc = "lock"
      <3>1. NoneOf(c, q)  BY <2>3, <2>4 DEF SideOK
      <3>2. Request(i).by # q  BY <1>2, <1>3, <3>1 DEF NoneOf
      <3> QED  BY <2>4, <3>1, <3>2
    <2>5. CASE x.pc \in Awaiting
      <3>1. Exchange(c, x, q)  BY <2>3, <2>5 DEF SideOK
      <3>2. Asked(c, x, q)  BY <1>2, <3>1 DEF Exchange, Answered
      <3>3. /\ x.verdict = "pending" /\ w[1].by = q /\ w[1].want = x.want
            /\ Len(c.requests) + Len(w) = HeaderCells
        BY <1>2, <3>2 DEF Asked, OnlyOf
      <3>4. Total(x) = 0  BY <3>3 DEF Total
      <3> DEFINE a == Len(c.requests)
                 h == Len(x.header)
                 t == Len(x.target)
                 n == Len(c.replies)
      <3>5. /\ c.requests \in Seq(RequestCell) /\ c.replies \in Seq(ReplyCell)
            /\ x.header \in Seq(ReplyCell) /\ x.target \in Seq(ReplyCell)
        BY <1>1, <2>1 DEF ConnRecord, ReaderRecord
      <3>6. a \in Nat /\ h \in Nat /\ t \in Nat /\ n \in Nat
        BY <3>5, EmptyStream
      <3>7. a + HeaderCells = HeaderCells /\ (h + t) + n <= 0
        BY <1>1, <3>1, <3>3, <3>4 DEF Exchange, Agrees, Got
      <3>8. a = 0 /\ h = 0 /\ t = 0 /\ n = 0
        <4> HIDE DEF a, h, t, n
        <4> QED  BY <1>1, <3>6, <3>7
      <3>9. /\ c.requests = <<>> /\ c.replies = <<>> /\ x.header = <<>> /\ x.target = <<>>
        BY <3>5, <3>8, EmptyStream
      <3>10. x.pc = "header"
        <4>1. Len(x.header) # HeaderCells  BY <1>1, <3>8
        <4> QED  BY <2>1, <2>5, <4>1 DEF ReaderOK, Awaiting
      <3> QED  BY <1>3, <3>3, <3>9, <3>10
    <2> QED  BY <2>2, <2>4, <2>5 DEF OnStream
  <1> QED  BY <1>3, <1>4, <1>6, <1>7

\* The cells of an answer in the stream.
LEMMA AnswerCells ==
    ASSUME NEW p \in Peers, NEW range \in Ranges, NEW cell \in ReplyCell
    PROVE  LET s == (<<>> \o Header(cell)) \o Payload(p, range) IN
           /\ s \in Seq(ReplyCell) /\ Len(s) = HeaderCells + Size(range)
           /\ \A k \in DOMAIN s :
                  /\ k \in Nat
                  /\ k <= HeaderCells => s[k] = cell
                  /\ ~(k <= HeaderCells) =>
                         s[k] = [of |-> p, byte |-> range.first + (k - HeaderCells) - 1]
  <1> DEFINE u == Header(cell)
             v == Payload(p, range)
             s == u \o v
  <1>1. /\ u \in Seq(ReplyCell) /\ Len(u) = HeaderCells /\ DOMAIN u = 1 .. HeaderCells
        /\ \A k \in DOMAIN u : u[k] = cell
    BY HeaderIs
  <1>2. /\ v \in Seq(ReplyCell) /\ Len(v) = Size(range) /\ DOMAIN v = 1 .. Size(range)
        /\ \A k \in 1 .. Size(range) : v[k] = [of |-> p, byte |-> range.first + k - 1]
    BY PayloadIs
  <1>3. HeaderCells \in Nat \ {0} /\ Size(range) \in Nat
    BY SizeIsNat, TransferAssumption
  <1> HIDE DEF u, v
  <1>4. /\ s \in Seq(ReplyCell) /\ Len(s) = Len(u) + Len(v)
        /\ \A k \in DOMAIN s :
               \/ k \in DOMAIN u /\ s[k] = u[k]
               \/ k - Len(u) \in DOMAIN v /\ k > Len(u) /\ s[k] = v[k - Len(u)]
        /\ DOMAIN s = 1 .. Len(s)
    <2>1. /\ s \in Seq(ReplyCell) /\ Len(s) = Len(u) + Len(v)
          /\ \A k \in DOMAIN s :
                 \/ k \in DOMAIN u /\ s[k] = u[k]
                 \/ k - Len(u) \in DOMAIN v /\ k > Len(u) /\ s[k] = v[k - Len(u)]
      <3>1. u \in Seq(ReplyCell) /\ v \in Seq(ReplyCell)  BY <1>1, <1>2
      <3>2. s \in Seq(ReplyCell) /\ Len(s) = Len(u) + Len(v)  BY <3>1, Joined
      <3>3. \A k \in DOMAIN s :
                \/ k \in DOMAIN u /\ s[k] = u[k]
                \/ k - Len(u) \in DOMAIN v /\ k > Len(u) /\ s[k] = v[k - Len(u)]
        BY <3>1, Joined
      <3> QED  BY <3>2, <3>3
    <2> HIDE DEF s
    <2>2. DOMAIN s = 1 .. Len(s)  BY <2>1, EmptyStream
    <2> QED  BY <2>1, <2>2
  <1>5. \A k \in DOMAIN s :
            /\ k \in Nat
            /\ k <= HeaderCells => s[k] = cell
            /\ ~(k <= HeaderCells) =>
                   s[k] = [of |-> p, byte |-> range.first + (k - HeaderCells) - 1]
    <2> SUFFICES ASSUME NEW k \in DOMAIN s
                 PROVE  /\ k \in Nat
                        /\ k <= HeaderCells => s[k] = cell
                        /\ ~(k <= HeaderCells) =>
                            s[k] = [of |-> p, byte |-> range.first + (k - HeaderCells) - 1]
      OBVIOUS
    <2>1. k \in Nat  BY <1>1, <1>2, <1>3, <1>4
    <2>2. CASE k \in DOMAIN u /\ s[k] = u[k]  BY <1>1, <1>3, <2>1, <2>2
    <2>3. CASE k - Len(u) \in DOMAIN v /\ k > Len(u) /\ s[k] = v[k - Len(u)]
      BY <1>1, <1>2, <1>3, <2>1, <2>3
    <2> QED  BY <1>4, <2>2, <2>3
  <1>6. <<>> \o u = u  BY <1>1
  <1> QED  BY <1>1, <1>2, <1>4, <1>5, <1>6 DEF u, v

\* A handler grants the request it has received.
LEMMA ServeRequestInv ==
    ASSUME TcpInv, NEW i \in DOMAIN conns, ServeRequest(i)
    PROVE  TcpInv'
  <1> DEFINE c == conns[i]
             p == c.peer
             range == Request(i).want
             q0 == Request(i).by
             cell == [ok |-> TRUE, n |-> Size(range)]
             sent == (c.replies \o Header(cell)) \o Payload(p, range)
             late == IF server[p] = "stopped" THEN c.late + 1 ELSE c.late
             d == [c EXCEPT !.replies = sent, !.header = <<>>, !.handler = "top", !.late = late]
             waits(q) == q = q0 /\ reader[q].conn = i /\ reader[q].pc \notin Ended
             y(q) == [reader[q] EXCEPT !.verdict = "granted"]
  <1>1. /\ c.handler = "check" /\ Decided(i, "granted") /\ conns' = [conns EXCEPT ![i] = d]
        /\ UNCHANGED <<regions, server, peersTable, closing, peersLock, connLocks,
                       reads>>
    BY DEF ServeRequest, Handler
  <1>2. /\ q0 \in Readers /\ range \in Ranges /\ c.late = 0
        /\ ~(c.open /\ connLocks[i] = NoReader)
    BY <1>1, DecisionPoint DEF RequestCell
  <1>3. /\ c \in ConnRecord /\ HandlerOK(c) /\ LateOK(c, server) /\ p \in Peers
        /\ c.replies \in Seq(ReplyCell)
    BY ConnIs
  <1>4. cell \in ReplyCell  BY <1>2, SizeIsNat DEF ReplyCell
  <1>5. sent \in Seq(ReplyCell)
    <2>1. Header(cell) \in Seq(ReplyCell)  BY <1>4, HeaderIs
    <2>2. Payload(p, range) \in Seq(ReplyCell)  BY <1>2, <1>3, PayloadIs
    <2>3. c.replies \o Header(cell) \in Seq(ReplyCell)  BY <1>3, <2>1, Joined
    <2> QED  BY <2>2, <2>3, Joined
  <1>6. late \in {0, 1} /\ (late = 1 => server[p] # "up")
    BY <1>2
  <1> HIDE DEF sent, late
  <1>7. /\ d \in ConnRecord /\ d.peer = p /\ d.open = c.open /\ d.late = late
        /\ d.handler = "top" /\ d.requests = c.requests /\ d.header = <<>> /\ d.replies = sent
    <2>1. late \in Nat /\ <<>> \in Seq(RequestCell)  BY <1>6, EmptyStream
    <2> QED  BY <1>3, <1>5, <2>1 DEF ConnRecord, Living
  <1> HIDE DEF d
  <1>8. HandlerOK(d) /\ LateOK(d, server)
    BY <1>6, <1>7, EmptyStream, TransferAssumption DEF HandlerOK, LateOK
  <1>9. \A q \in Readers :
            /\ y(q) \in ReaderRecord /\ y(q).verdict = "granted" /\ y(q).pc = reader[q].pc
            /\ y(q).peer = reader[q].peer /\ y(q).want = reader[q].want
            /\ y(q).conn = reader[q].conn /\ y(q).header = reader[q].header
            /\ y(q).target = reader[q].target
    BY InvParts DEF ReaderRecord
  <1>10. reader' = [q \in Readers |-> IF waits(q) THEN y(q) ELSE reader[q]]
    BY <1>1 DEF Decided
  <1> HIDE DEF y
  <1>11. \A q \in Readers : reader'[q] = IF waits(q) THEN y(q) ELSE reader[q]
    BY <1>10
  <1>12. reader' \in [Readers -> ReaderRecord]
    <2>1. \A q \in Readers : (IF waits(q) THEN y(q) ELSE reader[q]) \in ReaderRecord
      BY <1>9, InvParts
    <2> HIDE DEF waits
    <2> QED  BY <1>10, <2>1
  <1>13. \A q \in Readers : waits(q) =>
             /\ reader[q].pc = "header" /\ reader[q].header = <<>> /\ reader[q].target = <<>>
             /\ range = reader[q].want /\ c.requests = <<>> /\ c.replies = <<>>
    BY <1>1, DecisionPoint
  <1>14. \A q \in Readers :
             /\ reader'[q].pc = reader[q].pc /\ reader'[q].conn = reader[q].conn
             /\ reader'[q].peer = reader[q].peer
             /\ ReaderOK(reader'[q])
             /\ reader[q].conn # i => reader'[q] = reader[q]
    <2> SUFFICES ASSUME NEW q \in Readers
                 PROVE  /\ reader'[q].pc = reader[q].pc /\ reader'[q].conn = reader[q].conn
                        /\ reader'[q].peer = reader[q].peer
                        /\ ReaderOK(reader'[q])
                        /\ reader[q].conn # i => reader'[q] = reader[q]
      OBVIOUS
    <2>1. ReaderOK(reader[q])  BY InvParts
    <2>2. CASE waits(q)
      <3>1. reader'[q] = y(q)  BY <1>11, <2>2
      <3>2. ReaderOK(y(q))
        BY <1>9, <1>13, <2>1, <2>2 DEF ReaderOK
      <3> QED  BY <1>9, <2>2, <3>1, <3>2
    <2>3. CASE ~waits(q)
      <3>1. reader'[q] = reader[q]  BY <1>11, <2>3
      <3> QED  BY <2>1, <3>1
    <2> QED  BY <2>2, <2>3
  <1>15. \A q \in Readers : reader[q].pc \in OnStream /\ reader[q].conn = i =>
             SideOK(d, reader'[q], q)
    <2> SUFFICES ASSUME NEW q \in Readers, reader[q].pc \in OnStream, reader[q].conn = i
                 PROVE  SideOK(d, reader'[q], q)
      OBVIOUS
    <2>1. reader[q].pc \notin Ended  BY DEF OnStream, Awaiting, Ended
    <2>2. CASE reader[q].pc = "lock"
      <3>1. NoneOf(c, q) /\ q0 # q  BY <1>1, <2>1, <2>2, DecisionPoint
      <3>2. reader'[q] = reader[q]  BY <1>11, <3>1
      <3>3. NoneOf(d, q)  BY <1>7, <3>1, EmptyStream DEF NoneOf
      <3> QED  BY <2>2, <3>2, <3>3 DEF SideOK, Awaiting
    <2>3. CASE reader[q].pc # "lock"
      <3>1. waits(q)  BY <1>1, <2>1, <2>3, DecisionPoint
      <3> DEFINE x == y(q)
      <3>2. /\ reader'[q] = x /\ x.verdict = "granted" /\ x.want = range /\ x.peer = p
            /\ x.header = <<>> /\ x.target = <<>> /\ c.replies = <<>> /\ c.requests = <<>>
            /\ x.pc = "header"
        BY <1>9, <1>11, <1>13, <3>1, ConnIs
      <3> HIDE DEF x, y
      <3>3. /\ Len(sent) = HeaderCells + Size(range)
            /\ \A k \in DOMAIN sent :
                  /\ k \in Nat
                  /\ k <= HeaderCells => sent[k] = cell
                  /\ ~(k <= HeaderCells) =>
                         sent[k] = [of |-> p, byte |-> range.first + (k - HeaderCells) - 1]
        <4>1. sent = (<<>> \o Header(cell)) \o Payload(p, range)  BY <3>2 DEF sent
        <4>2. p \in Peers /\ range \in Ranges /\ cell \in ReplyCell  BY <1>2, <1>3, <1>4
        <4> HIDE DEF cell, p, range
        <4> QED  BY <4>1, <4>2, AnswerCells
      <3>4. /\ Got(x) = 0 /\ Total(x) = HeaderCells + Size(range)
            /\ DOMAIN x.header = {} /\ DOMAIN x.target = {}
        BY <3>2, EmptyStream DEF Got, Total
      <3>5. HeaderCells + Size(range) \in Nat  BY <1>2, SizeIsNat, TransferAssumption
      <3>6. \A k \in DOMAIN sent : sent[k] = Cell(x, Got(x) + k)
        <4> SUFFICES ASSUME NEW k \in DOMAIN sent  PROVE sent[k] = Cell(x, k)
          BY <3>3, <3>4
        <4>1. Status(x) = cell  BY <3>2 DEF Status
        <4> QED  BY <3>2, <3>3, <4>1 DEF Cell
      <3>7. Agrees(d, x)  BY <1>7, <3>3, <3>4, <3>5, <3>6 DEF Agrees
      <3>8. Answered(d, x)  BY <1>7, <3>2, <3>3, <3>4, <3>5 DEF Answered
      <3> QED  BY <3>2, <3>7, <3>8 DEF SideOK, Exchange
    <2> QED  BY <2>2, <2>3
  <1>16. ~(d.open /\ connLocks[i] = NoReader)  BY <1>2, <1>7
  <1> QED
    BY <1>1, <1>7, <1>8, <1>12, <1>14, <1>15, <1>16, HandlerStep

\* A handler refuses the request it has received.
LEMMA RejectRequestInv ==
    ASSUME TcpInv, NEW i \in DOMAIN conns, RejectRequest(i)
    PROVE  TcpInv'
  <1> DEFINE c == conns[i]
             p == c.peer
             q0 == Request(i).by
             cell == [ok |-> FALSE, n |-> 0]
             sent == c.replies \o Header(cell)
             d == [c EXCEPT !.replies = sent, !.header = <<>>, !.handler = "closed"]
             waits(q) == q = q0 /\ reader[q].conn = i /\ reader[q].pc \notin Ended
             y(q) == [reader[q] EXCEPT !.verdict = "refused"]
  <1>1. /\ c.handler = "check" /\ Decided(i, "refused") /\ conns' = [conns EXCEPT ![i] = d]
        /\ UNCHANGED <<regions, server, peersTable, closing, peersLock, connLocks,
                       reads>>
    BY DEF RejectRequest, Handler
  <1>2. /\ q0 \in Readers /\ c.late = 0 /\ ~(c.open /\ connLocks[i] = NoReader)
    BY <1>1, DecisionPoint DEF RequestCell
  <1>3. /\ c \in ConnRecord /\ HandlerOK(c) /\ LateOK(c, server) /\ p \in Peers
        /\ c.replies \in Seq(ReplyCell)
    BY ConnIs
  <1>4. /\ cell \in ReplyCell /\ Header(cell) \in Seq(ReplyCell)
        /\ Len(Header(cell)) = HeaderCells /\ DOMAIN Header(cell) = 1 .. HeaderCells
        /\ \A k \in DOMAIN Header(cell) : Header(cell)[k] = cell
    <2>1. cell \in ReplyCell  BY DEF ReplyCell
    <2> QED  BY <2>1, HeaderIs
  <1>5. sent \in Seq(ReplyCell)  BY <1>3, <1>4, Joined
  <1> HIDE DEF sent
  <1>6. /\ d \in ConnRecord /\ d.peer = p /\ d.open = c.open /\ d.late = 0
        /\ d.handler = "closed" /\ d.requests = c.requests /\ d.header = <<>>
        /\ d.replies = sent
    BY <1>2, <1>3, <1>5, EmptyStream DEF ConnRecord
  <1> HIDE DEF d
  <1>7. HandlerOK(d) /\ LateOK(d, server)
    BY <1>6, EmptyStream, TransferAssumption DEF HandlerOK, LateOK
  <1>8. \A q \in Readers :
            /\ y(q) \in ReaderRecord /\ y(q).verdict = "refused" /\ y(q).pc = reader[q].pc
            /\ y(q).peer = reader[q].peer /\ y(q).want = reader[q].want
            /\ y(q).conn = reader[q].conn /\ y(q).header = reader[q].header
            /\ y(q).target = reader[q].target
    BY InvParts DEF ReaderRecord
  <1>9. reader' = [q \in Readers |-> IF waits(q) THEN y(q) ELSE reader[q]]
    BY <1>1 DEF Decided
  <1> HIDE DEF y
  <1>10. \A q \in Readers : reader'[q] = IF waits(q) THEN y(q) ELSE reader[q]
    BY <1>9
  <1>11. reader' \in [Readers -> ReaderRecord]
    <2>1. \A q \in Readers : (IF waits(q) THEN y(q) ELSE reader[q]) \in ReaderRecord
      BY <1>8, InvParts
    <2> HIDE DEF waits
    <2> QED  BY <1>9, <2>1
  <1>12. \A q \in Readers : waits(q) =>
             /\ reader[q].pc = "header" /\ reader[q].header = <<>> /\ reader[q].target = <<>>
             /\ c.requests = <<>> /\ c.replies = <<>>
    BY <1>1, DecisionPoint
  <1>13. \A q \in Readers :
             /\ reader'[q].pc = reader[q].pc /\ reader'[q].conn = reader[q].conn
             /\ reader'[q].peer = reader[q].peer
             /\ ReaderOK(reader'[q])
             /\ reader[q].conn # i => reader'[q] = reader[q]
    <2> SUFFICES ASSUME NEW q \in Readers
                 PROVE  /\ reader'[q].pc = reader[q].pc /\ reader'[q].conn = reader[q].conn
                        /\ reader'[q].peer = reader[q].peer
                        /\ ReaderOK(reader'[q])
                        /\ reader[q].conn # i => reader'[q] = reader[q]
      OBVIOUS
    <2>1. ReaderOK(reader[q])  BY InvParts
    <2>2. CASE waits(q)
      <3>1. reader'[q] = y(q)  BY <1>10, <2>2
      <3>2. ReaderOK(y(q))
        BY <1>8, <1>12, <2>1, <2>2 DEF ReaderOK
      <3> QED  BY <1>8, <2>2, <3>1, <3>2
    <2>3. CASE ~waits(q)
      <3>1. reader'[q] = reader[q]  BY <1>10, <2>3
      <3> QED  BY <2>1, <3>1
    <2> QED  BY <2>2, <2>3
  <1>14. \A q \in Readers : reader[q].pc \in OnStream /\ reader[q].conn = i =>
             SideOK(d, reader'[q], q)
    <2> SUFFICES ASSUME NEW q \in Readers, reader[q].pc \in OnStream, reader[q].conn = i
                 PROVE  SideOK(d, reader'[q], q)
      OBVIOUS
    <2>1. reader[q].pc \notin Ended  BY DEF OnStream, Awaiting, Ended
    <2>2. CASE reader[q].pc = "lock"
      <3>1. NoneOf(c, q) /\ q0 # q  BY <1>1, <2>1, <2>2, DecisionPoint
      <3>2. reader'[q] = reader[q]  BY <1>10, <3>1
      <3>3. NoneOf(d, q)  BY <1>6, <3>1, EmptyStream DEF NoneOf
      <3> QED  BY <2>2, <3>2, <3>3 DEF SideOK, Awaiting
    <2>3. CASE reader[q].pc # "lock"
      <3>1. waits(q)  BY <1>1, <2>1, <2>3, DecisionPoint
      <3> DEFINE x == y(q)
      <3>2. /\ reader'[q] = x /\ x.verdict = "refused" /\ x.header = <<>> /\ x.target = <<>>
            /\ c.replies = <<>> /\ c.requests = <<>> /\ x.pc = "header"
        BY <1>8, <1>10, <1>12, <3>1
      <3> HIDE DEF x, y
      <3>3. sent = Header(cell)  BY <1>4, <3>2 DEF sent
      <3>4. /\ Got(x) = 0 /\ Total(x) = HeaderCells
            /\ DOMAIN x.header = {} /\ DOMAIN x.target = {}
        BY <3>2, EmptyStream DEF Got, Total
      <3>5. HeaderCells \in Nat  BY TransferAssumption
      <3>6. \A k \in DOMAIN sent : sent[k] = Cell(x, Got(x) + k)
        <4> SUFFICES ASSUME NEW k \in DOMAIN sent  PROVE sent[k] = Cell(x, Got(x) + k)
          OBVIOUS
        <4>2. k \in 1 .. HeaderCells /\ sent[k] = cell  BY <1>4, <3>3
        <4>3. Got(x) + k = k  BY <3>4, <3>5, <4>2
        <4>1. Status(x) = cell  BY <3>2 DEF Status
        <4> QED  BY <3>5, <4>1, <4>2, <4>3 DEF Cell
      <3>7. Agrees(d, x)  BY <1>4, <1>6, <3>3, <3>4, <3>5, <3>6 DEF Agrees
      <3>8. Answered(d, x)  BY <1>6, <3>2 DEF Answered
      <3> QED  BY <3>2, <3>7, <3>8 DEF SideOK, Exchange
    <2> QED  BY <2>2, <2>3
  <1>15. ~(d.open /\ connLocks[i] = NoReader)  BY <1>2, <1>6
  <1> QED
    BY <1>1, <1>6, <1>7, <1>11, <1>13, <1>14, <1>15, HandlerStep

-----------------------------------------------------------------------------
(* The invariant.                                                          *)

\* No reader reads and no connection is open.
LEMMA InitInv ==
    ASSUME TcpInit
    PROVE  TcpInv
  <1>1. /\ regions = [p \in Peers |-> {}] /\ server = [p \in Peers |-> "up"]
        /\ conns = <<>> /\ DOMAIN peersTable = {} /\ closing = {} /\ peersLock = NoReader
        /\ connLocks = [i \in 1 .. MaxConns |-> NoReader]
        /\ reader = [r \in Readers |-> NoRead] /\ reads = 0
    BY DEF TcpInit
  <1>2. /\ NoRead \in ReaderRecord /\ NoRead.pc = "none" /\ NoRead.conn = NoConn
    <2>1. <<>> \in Seq(ReplyCell)  BY EmptyStream
    <2> QED  BY <2>1 DEF NoRead, NewRead, ReaderRecord, Ended
  <1>3. DOMAIN conns = {} /\ Len(conns) = 0 /\ conns \in Seq(ConnRecord)
    BY <1>1, EmptyStream
  <1>4. \A r \in Readers : reader[r] = NoRead  BY <1>1
  <1>5. Shapes
    <2>1. reads \in 0 .. MaxReads /\ Len(conns) <= MaxConns
      BY <1>1, <1>3, TransferAssumption
    <2>2. reader \in [Readers -> ReaderRecord]  BY <1>1, <1>2
    <2> QED  BY <1>1, <1>3, <2>1, <2>2 DEF Shapes
  <1>6. ConnsOK  BY <1>3 DEF ConnsOK
  <1>7. ReadersOK  BY <1>2, <1>4 DEF ReadersOK, ReaderOK, Linked, OnStream, Awaiting
  <1>8. LocksOK  BY <1>1, <1>2, <1>4, TransferAssumption DEF LocksOK, Awaiting
  <1>9. CacheOK  BY <1>1, <1>2, <1>3, <1>4 DEF CacheOK, OpenIsOwned
  <1>10. StreamsOK  BY <1>2, <1>3, <1>4 DEF StreamsOK, OnStream, Awaiting
  <1> QED  BY <1>5, <1>6, <1>7, <1>8, <1>9, <1>10 DEF TcpInv

\* Nothing in the invariant depends on the accept threads.
LEMMA UnseenInv ==
    ASSUME TcpInv,
           UNCHANGED <<regions, server, conns, peersTable, closing, peersLock,
                       connLocks, reader, reads>>
    PROVE  TcpInv'
  <1>2. Shapes'  BY InvParts DEF Shapes
  <1>3. ConnsOK'  BY InvParts, ConnsFrame
  <1>4. ReadersOK'  BY InvParts, ReadersFrame
  <1>5. LocksOK'  BY InvParts, LocksFrame
  <1>6. CacheOK'  BY InvParts, CacheFrame
  <1>7. StreamsOK'  BY InvParts DEF StreamsOK
  <1> QED  BY <1>2, <1>3, <1>4, <1>5, <1>6, <1>7 DEF TcpInv

\* Every step, and a stutter, keeps the invariant.
LEMMA NextInv ==
    ASSUME TcpInv, [TcpNext]_tcpVars
    PROVE  TcpInv'
  <1>1. ASSUME NEW r \in Readers, Reading(r)  PROVE TcpInv'
    BY <1>1, LookUpInv, ConnectPeerInv, ConnectFailsInv, SendRequestInv, SendFailsInv,
       RecvHeaderInv, ReadStatusInv, RecvPayloadInv, PayloadDoneInv, EndOfStreamInv
       DEF Reading
  <1>2. ASSUME NEW i \in DOMAIN conns, Handling(i)  PROVE TcpInv'
    BY <1>2, AcceptInv, ResetConnInv, HandlerTopInv, HandlerRecvInv, HandlerEofInv, ServeRequestInv,
       RejectRequestInv DEF Handling
  <1>3. ASSUME NEW r \in Readers, NEW p \in Peers, NEW range \in Ranges,
               BeginRead(r, p, range)
        PROVE  TcpInv'
    BY <1>3, BeginReadInv
  <1>4. ASSUME SwapPeers \/ \E i \in closing : CloseConn(i)  PROVE TcpInv'
    BY <1>4, SwapPeersInv, CloseConnInv
  <1>5. ASSUME NEW p \in Peers, NEW region \in Regions, Register(p, region)
        PROVE  TcpInv'
    BY <1>5, RegisterInv
  <1>6. ASSUME NEW p \in Peers, StopServing(p)  PROVE TcpInv'
    BY <1>6, StopServingInv
  <1>9. ASSUME NEW p \in Peers, AcceptEnds(p) \/ AcceptFails(p)  PROVE TcpInv'
    BY <1>9, UnseenInv DEF AcceptEnds, AcceptFails
  <1>10. ASSUME NEW i \in DOMAIN conns, HandlerUnstarted(i)  PROVE TcpInv'
    BY <1>10, AcceptInv
  <1>7. ASSUME NEW p \in Peers, NEW how \in {"closed", "silent"}, Die(p, how)
        PROVE  TcpInv'
    BY <1>7, DieInv
  <1>8. ASSUME UNCHANGED tcpVars  PROVE TcpInv'
    BY <1>8, UnseenInv DEF tcpVars
  <1> QED  BY <1>1, <1>2, <1>3, <1>4, <1>5, <1>6, <1>7, <1>8, <1>9, <1>10 DEF TcpNext

\* The picture of a locked connection, and the discipline it rests on, hold in every
\* state of readers, handlers and peers in any interleaving.
THEOREM TcpInductiveInvariant == TcpSpec => []TcpInv
  <1>1. TcpInit => TcpInv  BY InitInv
  <1>2. TcpInv /\ [TcpNext]_tcpVars => TcpInv'  BY NextInv
  <1> QED  BY <1>1, <1>2, PTL DEF TcpSpec

\* Every peer has an accept thread, alive or not.
LEMMA AcceptingOK == TcpSpec => [](accepting \in [Peers -> BOOLEAN])
  <1> DEFINE OK == accepting \in [Peers -> BOOLEAN]
  <1>1. TcpInit => OK  BY DEF TcpInit
  <1>2. OK /\ [TcpNext]_tcpVars => OK'
    <2> SUFFICES ASSUME OK, [TcpNext]_tcpVars  PROVE OK'
      OBVIOUS
    <2>1. ASSUME NEW r \in Readers,
                 \/ \E p \in Peers, range \in Ranges : BeginRead(r, p, range)
                 \/ Reading(r)
          PROVE  UNCHANGED accepting
      BY <2>1 DEF BeginRead, Reading, LookUp, ConnectPeer, ConnectFails, SendRequest,
                  SendFails, RecvHeader, ReadStatus, RecvPayload, PayloadDone, EndOfStream
    <2>2. ASSUME SwapPeers \/ \E i \in closing : CloseConn(i)
          PROVE  UNCHANGED accepting
      BY <2>2 DEF SwapPeers, CloseConn
    <2>3. ASSUME NEW p \in Peers,
                 \/ \E region \in Regions : Register(p, region)
                 \/ StopServing(p)
                 \/ \E how \in {"closed", "silent"} : Die(p, how)
          PROVE  UNCHANGED accepting
      BY <2>3 DEF Register, StopServing, Die
    <2>4. ASSUME NEW p \in Peers, AcceptEnds(p) \/ AcceptFails(p)
          PROVE  OK'
      BY <2>4 DEF AcceptEnds, AcceptFails
    <2>5. ASSUME NEW i \in DOMAIN conns, Accept(i) \/ HandlerUnstarted(i)
          PROVE  OK'
      BY <2>5 DEF Accept, HandlerUnstarted
    <2>6. ASSUME NEW i \in DOMAIN conns, Handling(i), ~Accept(i)
          PROVE  UNCHANGED accepting
      BY <2>6 DEF Handling, ResetConn, HandlerTop, HandlerRecv, HandlerEof,
                  HandlerSendFails, ServeRequest, RejectRequest
    <2> QED  BY <2>1, <2>2, <2>3, <2>4, <2>5, <2>6 DEF TcpNext, tcpVars
  <1> QED  BY <1>1, <1>2, PTL DEF TcpSpec

\* The state has its shape, and a lock is held by exactly the thread that is between
\* its acquire and its release in _peer and read.
THEOREM TcpTypeCorrect == TcpSpec => []TcpTypeOK
  <1>1. TcpInv /\ accepting \in [Peers -> BOOLEAN] => TcpTypeOK
    <2> SUFFICES ASSUME TcpInv, accepting \in [Peers -> BOOLEAN]  PROVE TcpTypeOK
      OBVIOUS
    <2>1. \A i \in DOMAIN conns :
              /\ conns[i].peer \in Peers
              /\ conns[i].handler \in
                     {"backlog", "unserved", "top", "recv", "check", "closed", "silent"}
              /\ Len(conns[i].header) <= HeaderCells
      BY InvParts DEF ConnRecord, Living, ConnsOK, HandlerOK
    <2>2. \A r \in Readers :
              /\ reader[r].pc \in Ended \cup
                     {"peer", "connect", "lock", "header", "status", "payload"}
              /\ reader[r].conn \in DOMAIN conns \cup {NoConn}
      BY InvParts DEF ReaderRecord, Linked, Awaiting
    <2>3. \A i \in DOMAIN connLocks, r \in Readers :
              connLocks[i] = r <=>
                  reader[r].conn = i /\ reader[r].pc \in {"header", "status", "payload"}
      BY InvParts DEF LocksOK, Awaiting
    <2>4. \A r \in Readers : peersLock = r <=> reader[r].pc = "connect"
      BY InvParts DEF LocksOK
    <2>5. /\ closing \subseteq DOMAIN conns
          /\ \A p \in DOMAIN peersTable :
                 peersTable[p] \in DOMAIN conns /\ conns[peersTable[p]].peer = p
      BY InvParts DEF CacheOK
    <2> QED  BY <2>1, <2>2, <2>3, <2>4, <2>5, InvParts DEF TcpTypeOK, Shapes
  <1> QED  BY <1>1, AcceptingOK, TcpInductiveInvariant, PTL

\* The next thread to take the lock of a connection in read finds nothing of anybody
\* else's reply on it.
THEOREM CleanHandover == TcpSpec => []CleanBetweenReads
  <1>1. TcpInv => CleanBetweenReads
    BY DEF TcpInv, StreamsOK, Clean, CleanBetweenReads
  <1> QED  BY <1>1, TcpInductiveInvariant, PTL

\* Threads that miss the cache of _peer together do not open two connections, and what
\* close() takes out of it is open until close() closes it, whoever connects meanwhile.
THEOREM OneConnection == TcpSpec => []OpenIsOwned
  <1>1. TcpInv => OpenIsOwned
    BY DEF TcpInv, CacheOK
  <1> QED  BY <1>1, TcpInductiveInvariant, PTL

\* _handle_connection serves at most one read after close().
THEOREM StopTakesEffect == TcpSpec => []OneMoreAfterStop
  <1>1. TcpInv => OneMoreAfterStop
    BY DEF TcpInv, ConnsOK, LateOK, OneMoreAfterStop
  <1> QED  BY <1>1, TcpInductiveInvariant, PTL

-----------------------------------------------------------------------------
(* The data plane implements its promise.  A read is granted or refused    *)
(* when the handler decides it, so the abstract step is the handler's; all *)
(* the cutting, locking and connecting in between is stuttering.           *)

OpOf(x) ==
    [state |-> IF x.pc \in Ended THEN x.pc ELSE x.verdict,
     peer  |-> x.peer,
     want  |-> x.want,
     data  |-> IF x.pc = "done" THEN x.target ELSE <<>>]

\* What op stands for in the instance Transfer.
Ops == [r \in Readers |->
           [state |-> StateOf(r),
            peer  |-> reader[r].peer,
            want  |-> reader[r].want,
            data  |-> IF reader[r].pc = "done" THEN reader[r].target ELSE <<>>]]

\* The abstract reads, before and after a step.
LEMMA OpsAre ==
    /\ Ops = [r \in Readers |-> OpOf(reader[r])]
    /\ Ops' = [r \in Readers |-> OpOf(reader'[r])]
  BY DEF Ops, OpOf, StateOf

\* A step of one reader changes its abstract read alone.
LEMMA OneReader ==
    ASSUME NEW r \in Readers, \A q \in Readers : q # r => reader'[q] = reader[q]
    PROVE  /\ Ops[r] = OpOf(reader[r])
           /\ Ops' = [Ops EXCEPT ![r] = OpOf(reader'[r])]
  BY OpsAre

\* Initially no abstract read is under way.
LEMMA AbstractInit ==
    ASSUME TcpInit
    PROVE  Transfer!TransferInit
  <1>1. \A r \in Readers : reader[r] = NoRead  BY DEF TcpInit
  <1>2. /\ NoRead.pc = "none" /\ NoRead.peer = NoPeer /\ NoRead.want = NoRange
    BY DEF NoRead, NewRead
  <1>3. OpOf(NoRead) = [state |-> "none", peer |-> NoPeer, want |-> NoRange, data |-> <<>>]
    BY <1>2 DEF OpOf, Ended
  <1>4. Ops = [r \in Readers |->
                  [state |-> "none", peer |-> NoPeer, want |-> NoRange, data |-> <<>>]]
    BY <1>1, <1>3, OpsAre
  <1>5. regions = [p \in Peers |-> {}]  BY DEF TcpInit
  <1> QED  BY <1>4, <1>5 DEF Transfer!TransferInit, Ops

\* A step that changes no abstract read is a stutter.
LEMMA AbstractStutter ==
    ASSUME regions' = regions, Ops' = Ops
    PROVE  UNCHANGED Transfer!transferVars
  BY DEF Transfer!transferVars, Ops

\* A read that has ended is followed by another.
LEMMA AbstractAsk ==
    ASSUME NEW r \in Readers, NEW p \in Peers, NEW range \in Ranges, regions' = regions,
           Ops[r].state \in Ended,
           Ops' = [Ops EXCEPT ![r] =
                      [state |-> "pending", peer |-> p, want |-> range, data |-> <<>>]]
    PROVE  Transfer!TransferNext
  <1>1. Transfer!AskFor(r, p, range)  BY DEF Transfer!AskFor, Transfer!Ended, Ended, Ops
  <1> QED  BY <1>1 DEF Transfer!TransferNext

\* A read fails, or a refused one is told so.
LEMMA AbstractEnd ==
    ASSUME NEW r \in Readers, regions' = regions,
           \/ /\ Ops[r].state \notin Ended
              /\ Ops' = [Ops EXCEPT ![r].state = "failed"]
           \/ /\ Ops[r].state = "refused"
              /\ Ops' = [Ops EXCEPT ![r].state = "rejected"]
    PROVE  Transfer!TransferNext
  <1>1. Transfer!Fail(r) \/ Transfer!Reject(r)
    BY DEF Transfer!Fail, Transfer!Reject, Transfer!Becomes, Transfer!Ended, Ended, Ops
  <1> QED  BY <1>1 DEF Transfer!TransferNext

\* A granted read ends with its bytes.
LEMMA AbstractComplete ==
    ASSUME NEW r \in Readers, regions' = regions, Ops[r].state = "granted",
           Ops' = [Ops EXCEPT ![r].state = "done",
                              ![r].data = Payload(Ops[r].peer, Ops[r].want)]
    PROVE  Transfer!TransferNext
  <1>1. Transfer!Content(Ops[r].peer, Ops[r].want) = Payload(Ops[r].peer, Ops[r].want)
    BY DEF Transfer!Content, Payload, Size
  <1>2. Transfer!Complete(r)  BY <1>1 DEF Transfer!Complete, Ops
  <1> QED  BY <1>2 DEF Transfer!TransferNext

\* A pending read is granted or refused, as its range is registered or not.
LEMMA AbstractDecide ==
    ASSUME NEW r \in Readers, regions' = regions, Ops[r].state = "pending",
           \/ /\ IsServed(Ops[r].peer, Ops[r].want)
              /\ Ops' = [Ops EXCEPT ![r].state = "granted"]
           \/ /\ ~IsServed(Ops[r].peer, Ops[r].want)
              /\ Ops' = [Ops EXCEPT ![r].state = "refused"]
    PROVE  Transfer!TransferNext
  <1>1. Transfer!Covers(regions[Ops[r].peer], Ops[r].want)
            <=> IsServed(Ops[r].peer, Ops[r].want)
    BY DEF Transfer!Covers, IsServed
  <1>2. Transfer!Grant(r) \/ Transfer!Refuse(r)
    BY <1>1 DEF Transfer!Grant, Transfer!Refuse, Transfer!Becomes, Ops
  <1> QED  BY <1>2 DEF Transfer!TransferNext

\* A region is registered.
LEMMA AbstractRegister ==
    ASSUME NEW p \in Peers, NEW region \in Regions, Ops' = Ops,
           regions' = [regions EXCEPT ![p] = @ \cup {region}]
    PROVE  Transfer!TransferNext
  <1>1. Transfer!RegisterRegion(p, region)  BY DEF Transfer!RegisterRegion, Ops
  <1> QED  BY <1>1 DEF Transfer!TransferNext

\* A step of r inside a read, before or after the decision.
LEMMA Within ==
    ASSUME TcpInv, NEW r \in Readers, \A q \in Readers : q # r => reader'[q] = reader[q],
           reader[r].pc \notin Ended, reader'[r].pc \notin Ended, regions' = regions,
           reader'[r].peer = reader[r].peer, reader'[r].want = reader[r].want,
           reader'[r].verdict = reader[r].verdict
    PROVE  UNCHANGED Transfer!transferVars
  <1>1. OpOf(reader'[r]) = OpOf(reader[r])  BY DEF OpOf, Ended
  <1>2. \A q \in Readers : OpOf(reader'[q]) = OpOf(reader[q])  BY <1>1
  <1>3. Ops' = Ops  BY <1>2, OpsAre
  <1> QED  BY <1>3, AbstractStutter

\* A read that fails.
LEMMA Failing ==
    ASSUME TcpInv, NEW r \in Readers, reader[r].pc \notin Ended, Goes(r, "failed"),
           regions' = regions
    PROVE  Transfer!TransferNext
  <1>1. /\ \A q \in Readers : q # r => reader'[q] = reader[q]
        /\ reader'[r].pc = "failed" /\ reader'[r].peer = reader[r].peer
        /\ reader'[r].want = reader[r].want
    BY GoesTo, InvParts DEF Ended
  <1>2. Ops[r] = OpOf(reader[r]) /\ Ops' = [Ops EXCEPT ![r] = OpOf(reader'[r])]
    BY <1>1, OneReader
  <1>3. reader[r].verdict \notin Ended  BY InvParts DEF ReaderRecord, Ended
  <1>4. Ops[r].state \notin Ended  BY <1>2, <1>3 DEF OpOf
  <1>5. OpOf(reader'[r]) = [OpOf(reader[r]) EXCEPT !.state = "failed"]
    BY <1>1 DEF OpOf, Ended
  <1>6. Ops' = [Ops EXCEPT ![r].state = "failed"]  BY <1>2, <1>5
  <1> QED  BY <1>4, <1>6, AbstractEnd

\* To begin a read is to ask.
LEMMA BeginReadStep ==
    ASSUME TcpInv, NEW r \in Readers, NEW p \in Peers, NEW range \in Ranges,
           BeginRead(r, p, range)
    PROVE  Transfer!TransferNext
  <1>1. /\ reader[r].pc \in Ended /\ regions' = regions
        /\ reader' = [reader EXCEPT ![r] = NewRead(p, range)]
    BY DEF BeginRead
  <1>2. /\ \A q \in Readers : q # r => reader'[q] = reader[q]
        /\ reader'[r] = NewRead(p, range)
    BY <1>1, InvParts DEF Shapes
  <1>3. Ops[r] = OpOf(reader[r]) /\ Ops' = [Ops EXCEPT ![r] = OpOf(NewRead(p, range))]
    BY <1>2, OneReader
  <1>4. OpOf(NewRead(p, range)) =
            [state |-> "pending", peer |-> p, want |-> range, data |-> <<>>]
    BY DEF OpOf, NewRead, Ended
  <1>5. Ops[r].state \in Ended  BY <1>1, <1>3 DEF OpOf
  <1> QED  BY <1>1, <1>3, <1>4, <1>5, AbstractAsk

\* A reader that goes on within a read, its verdict unchanged.
LEMMA Replaced ==
    ASSUME TcpInv, NEW r \in Readers, NEW x, reader' = [reader EXCEPT ![r] = x],
           reader[r].pc \notin Ended, x.pc \notin Ended, regions' = regions,
           x.peer = reader[r].peer, x.want = reader[r].want,
           x.verdict = reader[r].verdict
    PROVE  UNCHANGED Transfer!transferVars
  <1>1. reader \in [Readers -> ReaderRecord]  BY InvParts DEF Shapes
  <1>2. reader'[r] = x /\ \A q \in Readers : q # r => reader'[q] = reader[q]
    BY <1>1
  <1> QED  BY <1>2, Within

\* Looking up, connecting, sending and receiving: steps of r that only it sees.
LEMMA ReadingStutter ==
    ASSUME TcpInv, NEW r \in Readers,
           \/ LookUp(r) \/ ConnectPeer(r) \/ SendRequest(r) \/ RecvHeader(r)
           \/ RecvPayload(r) \/ (ReadStatus(r) /\ reader[r].header[1].ok)
    PROVE  UNCHANGED Transfer!transferVars
  <1>1. reader[r] \in ReaderRecord  BY InvParts
  <1>2. regions' = regions /\ reader[r].pc \notin Ended
    BY DEF LookUp, ConnectPeer, SendRequest, RecvHeader, RecvPayload, ReadStatus, Ended
  <1>3. CASE LookUp(r)
    <2> DEFINE x == [reader[r] EXCEPT !.pc = "lock", !.conn = peersTable[reader[r].peer]]
               y == [reader[r] EXCEPT !.pc = "connect"]
    <2>1. reader' = [reader EXCEPT ![r] = x] \/ reader' = [reader EXCEPT ![r] = y]
      BY <1>3 DEF LookUp, Goes
    <2>2. /\ x.pc \notin Ended /\ x.peer = reader[r].peer
          /\ x.want = reader[r].want /\ x.verdict = reader[r].verdict
          /\ y.pc \notin Ended /\ y.peer = reader[r].peer
          /\ y.want = reader[r].want /\ y.verdict = reader[r].verdict
      BY <1>1 DEF ReaderRecord, Ended
    <2> HIDE DEF x, y
    <2> QED  BY <1>2, <2>1, <2>2, Replaced
  <1>4. CASE ConnectPeer(r)
    <2> DEFINE x == [reader[r] EXCEPT !.pc = "lock", !.conn = Len(conns) + 1]
    <2>1. reader' = [reader EXCEPT ![r] = x]  BY <1>4 DEF ConnectPeer
    <2>2. /\ x.pc \notin Ended /\ x.peer = reader[r].peer
          /\ x.want = reader[r].want /\ x.verdict = reader[r].verdict
      BY <1>1 DEF ReaderRecord, Ended
    <2> HIDE DEF x
    <2> QED  BY <1>2, <2>1, <2>2, Replaced
  <1>5. CASE SendRequest(r) \/ (ReadStatus(r) /\ reader[r].header[1].ok)
    <2> DEFINE x == [reader[r] EXCEPT !.pc = "header"]
               y == [reader[r] EXCEPT !.pc = "payload"]
    <2>1. reader' = [reader EXCEPT ![r] = x] \/ reader' = [reader EXCEPT ![r] = y]
      BY <1>5 DEF SendRequest, ReadStatus, Goes
    <2>2. /\ x.pc \notin Ended /\ x.peer = reader[r].peer
          /\ x.want = reader[r].want /\ x.verdict = reader[r].verdict
          /\ y.pc \notin Ended /\ y.peer = reader[r].peer
          /\ y.want = reader[r].want /\ y.verdict = reader[r].verdict
      BY <1>1 DEF ReaderRecord, Ended
    <2> HIDE DEF x, y
    <2> QED  BY <1>2, <2>1, <2>2, Replaced
  <1>6. CASE RecvHeader(r)
    <2>1. PICK k \in Received(Mine(r).replies, HeaderCells - Len(reader[r].header)) :
              LET got == reader[r].header \o SubSeq(Mine(r).replies, 1, k) IN
              reader' = [reader EXCEPT
                            ![r].header = got,
                            ![r].pc = IF Len(got) = HeaderCells THEN "status" ELSE @]
      BY <1>6 DEF RecvHeader
    <2> DEFINE got == reader[r].header \o SubSeq(Mine(r).replies, 1, k)
               pc == IF Len(got) = HeaderCells THEN "status" ELSE reader[r].pc
               x == [reader[r] EXCEPT !.header = got, !.pc = pc]
    <2>2. reader' = [reader EXCEPT ![r] = x]  BY <2>1
    <2>3. pc \notin Ended  BY <1>2 DEF Ended
    <2> HIDE DEF got, pc
    <2>4. /\ x.pc \notin Ended /\ x.peer = reader[r].peer
          /\ x.want = reader[r].want /\ x.verdict = reader[r].verdict
      BY <1>1, <2>3 DEF ReaderRecord
    <2> HIDE DEF x
    <2> QED  BY <1>2, <2>2, <2>4, Replaced
  <1>7. CASE RecvPayload(r)
    <2>1. PICK k \in Received(Mine(r).replies, Missing(r)) :
              reader' = [reader EXCEPT
                            ![r].target = @ \o SubSeq(Mine(r).replies, 1, k)]
      BY <1>7 DEF RecvPayload
    <2> DEFINE got == reader[r].target \o SubSeq(Mine(r).replies, 1, k)
               x == [reader[r] EXCEPT !.target = got]
    <2>2. reader' = [reader EXCEPT ![r] = x]  BY <2>1
    <2> HIDE DEF got
    <2>3. /\ x.pc \notin Ended /\ x.peer = reader[r].peer
          /\ x.want = reader[r].want /\ x.verdict = reader[r].verdict
      BY <1>1, <1>2 DEF ReaderRecord
    <2> HIDE DEF x
    <2> QED  BY <1>2, <2>2, <2>3, Replaced
  <1> QED  BY <1>3, <1>4, <1>5, <1>6, <1>7, Zenon

\* The end of a read, and its refusal as the reader learns it.
LEMMA EndingStep ==
    ASSUME TcpInv, NEW r \in Readers,
           \/ ConnectFails(r) \/ SendFails(r) \/ EndOfStream(r)
           \/ PayloadDone(r) \/ (ReadStatus(r) /\ ~reader[r].header[1].ok)
    PROVE  Transfer!TransferNext
  <1>1. CASE ConnectFails(r) \/ SendFails(r) \/ EndOfStream(r)
    <2>1. reader[r].pc \notin Ended /\ Goes(r, "failed") /\ regions' = regions
      BY <1>1 DEF ConnectFails, SendFails, EndOfStream, Ended
    <2> QED  BY <2>1, Failing
  <1>2. CASE PayloadDone(r)
    <2>1. reader[r].pc = "payload" /\ Goes(r, "done") /\ regions' = regions
      BY <1>2 DEF PayloadDone
    <2>2. /\ \A q \in Readers : q # r => reader'[q] = reader[q]
          /\ reader'[r].pc = "done" /\ reader'[r].peer = reader[r].peer
          /\ reader'[r].want = reader[r].want /\ reader'[r].target = reader[r].target
      BY <2>1, GoesTo, InvParts DEF Ended
    <2>3. /\ reader[r].verdict = "granted"
          /\ reader[r].target = Payload(reader[r].peer, reader[r].want)
      BY <1>2, PayloadDoneInv
    <2>4. Ops[r] = OpOf(reader[r]) /\ Ops' = [Ops EXCEPT ![r] = OpOf(reader'[r])]
      BY <2>2, OneReader
    <2>5. /\ Ops[r].state = "granted" /\ Ops[r].peer = reader[r].peer
          /\ Ops[r].want = reader[r].want
      BY <2>1, <2>3, <2>4 DEF OpOf, Ended
    <2> DEFINE w == [state |-> "done", peer |-> reader[r].peer,
                     want |-> reader[r].want, data |-> reader[r].target]
    <2>6. OpOf(reader'[r]) = w  BY <2>2 DEF OpOf, Ended
    <2>7. w = [Ops[r] EXCEPT !.state = "done",
                             !.data = Payload(Ops[r].peer, Ops[r].want)]
      <3> DEFINE o == Ops[r]
                 p == reader[r].peer
                 v == reader[r].want
                 z == Payload(p, v)
                 before == "granted"
                 after == "done"
                 nothing == <<>>
      <3>1. w = [state |-> after, peer |-> p, want |-> v, data |-> z]
        BY <2>3
      <3>2. o = [state |-> before, peer |-> p, want |-> v, data |-> nothing]
        BY <2>1, <2>3, <2>4 DEF OpOf, Ended
      <3>3. o.peer = p /\ o.want = v  BY <2>5
      <3> HIDE DEF o, p, v, z, w, before, after, nothing
      <3> DEFINE of(i) == IF i = "data" THEN z ELSE IF i = "state" THEN after ELSE o[i]
      <3>4. [o EXCEPT !.state = after, !.data = z]
                = [i \in {"state", "peer", "want", "data"} |-> of(i)]
        BY <3>2
      <3>5. w = [i \in {"state", "peer", "want", "data"} |-> of(i)]
        BY <3>1, <3>2
      <3>6. [o EXCEPT !.state = after, !.data = z] = w  BY <3>4, <3>5
      <3> QED  BY <3>3, <3>6 DEF o, z, after
    <2> HIDE DEF w
    <2>8. Ops' = [Ops EXCEPT ![r].state = "done",
                             ![r].data = Payload(Ops[r].peer, Ops[r].want)]
      BY <2>4, <2>6, <2>7
    <2> QED  BY <2>1, <2>5, <2>8, AbstractComplete
  <1>3. CASE ReadStatus(r) /\ ~reader[r].header[1].ok
    <2>1. reader[r].pc = "status" /\ Goes(r, "rejected") /\ regions' = regions
      BY <1>3 DEF ReadStatus
    <2>2. /\ \A q \in Readers : q # r => reader'[q] = reader[q]
          /\ reader'[r].pc = "rejected" /\ reader'[r].peer = reader[r].peer
          /\ reader'[r].want = reader[r].want
      BY <2>1, GoesTo, InvParts DEF Ended
    <2>3. reader[r].verdict = "refused"
      <3>1. /\ reader[r].header[1] = Status(reader[r])
            /\ reader[r].verdict \in {"granted", "refused"}
        BY <2>1, FirstCell
      <3> QED  BY <1>3, <3>1 DEF Status
    <2>4. Ops[r] = OpOf(reader[r]) /\ Ops' = [Ops EXCEPT ![r] = OpOf(reader'[r])]
      BY <2>2, OneReader
    <2>5. Ops[r].state = "refused"  BY <2>1, <2>3, <2>4 DEF OpOf, Ended
    <2>6. OpOf(reader'[r]) = [OpOf(reader[r]) EXCEPT !.state = "rejected"]
      BY <2>1, <2>2 DEF OpOf, Ended
    <2>7. Ops' = [Ops EXCEPT ![r].state = "rejected"]  BY <2>4, <2>6
    <2> QED  BY <2>1, <2>5, <2>7, AbstractEnd
  <1> QED  BY <1>1, <1>2, <1>3, Zenon

\* The handler decides: for a reader that still waits this is the grant or the
\* refusal, for one that has given up it is nothing.
LEMMA DecidingStep ==
    ASSUME TcpInv, NEW i \in DOMAIN conns, ServeRequest(i) \/ RejectRequest(i)
    PROVE  [Transfer!TransferNext]_Transfer!transferVars
  <1> DEFINE p == conns[i].peer
             range == Request(i).want
  <1>1. /\ conns[i].handler = "check" /\ regions' = regions
    BY DEF ServeRequest, RejectRequest, Handler
  <1>2. PICK v \in {"granted", "refused"} :
            /\ Decided(i, v)
            /\ v = "granted" <=> IsServed(p, range)
    BY DEF ServeRequest, RejectRequest
  <1> DEFINE waits(q) == reader[q].conn = i /\ reader[q].pc \notin Ended
  <1>3. \A q \in Readers :
            reader'[q] = IF q = Request(i).by /\ waits(q)
                         THEN [reader[q] EXCEPT !.verdict = v] ELSE reader[q]
    BY <1>2 DEF Decided
  <1>4. CASE \E q \in Readers : q = Request(i).by /\ waits(q)
    <2>1. PICK q \in Readers : q = Request(i).by /\ waits(q)  BY <1>4
    <2>2. reader[q] \in ReaderRecord  BY InvParts
    <2>3. reader[q].verdict = "pending" /\ reader[q].want = range /\ reader[q].pc = "header"
      BY <1>1, <2>1, DecisionPoint
    <2>4. reader[q].peer = p  BY <2>1, <2>3, ConnIs DEF OnStream, Awaiting
    <2>5. reader'[q] = [reader[q] EXCEPT !.verdict = v]  BY <1>3, <2>1
    <2>6. \A o \in Readers : o # q => reader'[o] = reader[o]  BY <1>3, <2>1
    <2>7. Ops[q] = OpOf(reader[q]) /\ Ops' = [Ops EXCEPT ![q] = OpOf(reader'[q])]
      BY <2>6, OneReader
    <2>8. Ops[q].state = "pending" /\ Ops[q].peer = p /\ Ops[q].want = range
      BY <2>3, <2>4, <2>7 DEF OpOf, Ended
    <2>9. /\ reader'[q].pc = "header" /\ reader'[q].peer = reader[q].peer
          /\ reader'[q].want = reader[q].want /\ reader'[q].verdict = v
      BY <2>2, <2>3, <2>5 DEF ReaderRecord
    <2>10. OpOf(reader'[q]) = [OpOf(reader[q]) EXCEPT !.state = v]
      BY <2>3, <2>9 DEF OpOf, Ended
    <2>11. Ops' = [Ops EXCEPT ![q].state = v]  BY <2>7, <2>10
    <2> HIDE DEF p, range, waits
    <2> QED  BY <1>1, <1>2, <2>8, <2>11, AbstractDecide
  <1>5. CASE ~\E q \in Readers : q = Request(i).by /\ waits(q)
    <2>1. \A q \in Readers : OpOf(reader'[q]) = OpOf(reader[q])  BY <1>3, <1>5
    <2>2. Ops' = Ops  BY <2>1, OpsAre
    <2> QED  BY <1>1, <2>2, AbstractStutter
  <1> QED  BY <1>4, <1>5

\* What leaves readers and regions alone is invisible.
LEMMA UnseenStep ==
    ASSUME UNCHANGED <<regions, reader>>
    PROVE  UNCHANGED Transfer!transferVars
  <1>1. Ops' = Ops  BY OpsAre
  <1> QED  BY <1>1, AbstractStutter

\* Every step of the data plane is a step of the abstract one, or a stutter.
LEMMA AbstractNext ==
    ASSUME TcpInv, [TcpNext]_tcpVars
    PROVE  [Transfer!TransferNext]_Transfer!transferVars
  <1>1. ASSUME NEW r \in Readers, Reading(r)
        PROVE  [Transfer!TransferNext]_Transfer!transferVars
    <2>1. CASE \/ LookUp(r) \/ ConnectPeer(r) \/ SendRequest(r) \/ RecvHeader(r)
               \/ RecvPayload(r) \/ (ReadStatus(r) /\ reader[r].header[1].ok)
      <3>1. UNCHANGED Transfer!transferVars  BY <2>1, ReadingStutter, Zenon
      <3> QED  BY <3>1
    <2>2. CASE \/ ConnectFails(r) \/ SendFails(r) \/ EndOfStream(r)
               \/ PayloadDone(r) \/ (ReadStatus(r) /\ ~reader[r].header[1].ok)
      <3>1. Transfer!TransferNext  BY <2>2, EndingStep, Zenon
      <3> QED  BY <3>1
    <2> QED  BY <1>1, <2>1, <2>2, Zenon DEF Reading
  <1>2. ASSUME NEW i \in DOMAIN conns, Handling(i)
        PROVE  [Transfer!TransferNext]_Transfer!transferVars
    <2>1. CASE ServeRequest(i) \/ RejectRequest(i)  BY <2>1, DecidingStep
    <2>2. CASE \/ Accept(i) \/ ResetConn(i) \/ HandlerTop(i) \/ HandlerRecv(i)
               \/ HandlerEof(i) \/ HandlerSendFails(i)
      <3>1. UNCHANGED <<regions, reader>>
        BY <2>2 DEF Accept, ResetConn, HandlerTop, HandlerRecv, HandlerEof, HandlerSendFails
      <3> QED  BY <3>1, UnseenStep
    <2> QED  BY <1>2, <2>1, <2>2, Zenon DEF Handling
  <1>3. ASSUME NEW r \in Readers, NEW p \in Peers, NEW range \in Ranges,
               BeginRead(r, p, range)
        PROVE  [Transfer!TransferNext]_Transfer!transferVars
    BY <1>3, BeginReadStep
  <1>4. ASSUME NEW p \in Peers, NEW region \in Regions, Register(p, region)
        PROVE  [Transfer!TransferNext]_Transfer!transferVars
    <2>1. regions' = [regions EXCEPT ![p] = @ \cup {region}] /\ reader' = reader
      BY <1>4 DEF Register
    <2>2. Ops' = Ops  BY <2>1, OpsAre
    <2> QED  BY <2>1, <2>2, AbstractRegister
  <1>5. ASSUME \/ SwapPeers
               \/ \E i \in closing : CloseConn(i)
               \/ \E i \in DOMAIN conns : HandlerUnstarted(i)
               \/ \E p \in Peers : StopServing(p) \/ AcceptEnds(p) \/ AcceptFails(p)
               \/ \E p \in Peers, how \in {"closed", "silent"} : Die(p, how)
               \/ UNCHANGED tcpVars
        PROVE  [Transfer!TransferNext]_Transfer!transferVars
    <2>1. UNCHANGED <<regions, reader>>
      BY <1>5 DEF SwapPeers, CloseConn, HandlerUnstarted, StopServing, AcceptEnds,
                  AcceptFails, Die, tcpVars
    <2> QED  BY <2>1, UnseenStep
  <1> QED  BY <1>1, <1>2, <1>3, <1>4, <1>5, Zenon DEF TcpNext

\* The framing, the pieces, the shared connections and the failures of
\* TcpTransferBackend.read and _handle_connection implement the promise: a read is
\* granted or refused at one moment, and a granted one that returns has exactly the
\* bytes it asked for.
THEOREM TcpImplementsTransfer == TcpSpec => ImplementsTransfer
  <1>1. TcpInit => Transfer!TransferInit  BY AbstractInit
  <1>2. TcpInv /\ [TcpNext]_tcpVars => [Transfer!TransferNext]_Transfer!transferVars
    BY AbstractNext
  <1> QED
    BY <1>1, <1>2, TcpInductiveInvariant, PTL
       DEF TcpSpec, ImplementsTransfer, Transfer!TransferSpecification
==============================================================================
