--------------------------- MODULE ServerLifecycle ---------------------------
(***************************************************************************)
(* How the server starts and stops, thread by thread (server.py and the    *)
(* TcpTransferBackend of transfer_backend.py): the main thread, the        *)
(* control thread, the accept thread, and a handler for each connection.   *)
(* stop() closes and unsets the control socket and the listener while the  *)
(* threads that use them may be anywhere in their loops.                   *)
(*                                                                         *)
(* A program runs the server in one of two ways.  main() waits for the     *)
(* control thread, and its process ends after stop(); a program that       *)
(* embeds the server (the smoke test) goes on, and drops the server and    *)
(* its pool some time after stop().                                        *)
(*                                                                         *)
(* Three facts about the calls the threads block in.  zmq leaves undefined *)
(* what becomes of a receive when another thread closes the socket: here   *)
(* it fails or never returns.  On Linux, closing a listener does not wake  *)
(* a thread that is in accept(); the kernel listens on until it returns.   *)
(* A control socket that is open raises no ZMQError: it has no timeout,    *)
(* and the loop sends and receives in turn, as a REP socket must.          *)
(***************************************************************************)
EXTENDS Naturals, FiniteSets

CONSTANTS
    Queries,     \* what clients send on the control plane, each once
    Undecodable, \* those that recv_pyobj cannot unpickle
    Conns,       \* the connections clients make to the data plane
    MayClose,    \* bound: the connections a client may close
    MaxRequests  \* bound: connection -> the read requests made on it

ASSUME LifecycleAssumption ==
    /\ Undecodable \subseteq Queries
    /\ MayClose \subseteq Conns
    /\ MaxRequests \in [Conns -> Nat]

VARIABLES
    embedded,   \* is the server embedded in a program that goes on
    main,       \* what the main thread does next
    loaded,     \* has load_model returned
    _stop,      \* WeightCacheServer._stop is set
    socket,     \* control_socket: "none", "open", "closed", "unset"
    control,    \* where the control thread is
    query,      \* query -> what has become of it
    dataStop,   \* TcpTransferBackend._stop is set
    listener,   \* _listener: "none", "open", "closed", "unset"
    accept,     \* where the accept thread is
    conn        \* connection -> its handler and its client, see NoConnection

controlVars == <<_stop, socket, control, query>>
dataVars == <<dataStop, listener, accept, conn>>
lifeVars == <<embedded, main, loaded, controlVars, dataVars>>

\* late: accepted after the stop flag was set.  afterStop and afterDrop are history:
\* the reads served after that, and after the pool was gone.
NoConnection ==
    [handler |-> "none", requests |-> 0, sent |-> 0, open |-> FALSE,
     late |-> FALSE, afterStop |-> 0, afterDrop |-> 0]

\* A thread stops in order, fails with an error it logs, or dies of one nobody
\* catches.
ThreadEnded == {"stopped", "failed", "died"}

\* The order of stop().
Stopping == {"set stop", "close socket", "unset socket", "terminate",
             "stop data", "close listener", "unset listener"}

LifeInit ==
    /\ embedded \in BOOLEAN
    /\ main = "start data"
    /\ loaded = FALSE
    /\ _stop = FALSE
    /\ socket = "none"
    /\ control = "none"
    /\ query = [q \in Queries |-> "unsent"]
    /\ dataStop = FALSE
    /\ listener = "none"
    /\ accept = "none"
    /\ conn = [c \in Conns |-> NoConnection]

\* The process of main() ends with it, and all its threads.
Alive == main # "exited"

-----------------------------------------------------------------------------
(* The main thread starts.                                                 *)

MainGoes(from, to) == main = from /\ main' = to

\* Faulty variant: the accept thread is started before _listener is assigned.
StartDataUnlistening ==
    /\ MainGoes("start data", "start control")
    /\ accept' = "begin"
    /\ UNCHANGED <<embedded, loaded, controlVars, dataStop, listener, conn>>

StartData ==
    /\ MainGoes("start data", "start control")
    /\ listener' = "open"
    /\ accept' = "begin"
    /\ UNCHANGED <<embedded, loaded, controlVars, dataStop, conn>>

StartControl ==
    /\ MainGoes("start control", "load")
    /\ socket' = "open"
    /\ control' = "begin"
    /\ UNCHANGED <<embedded, loaded, _stop, query, dataVars>>

Load ==
    /\ MainGoes("load", IF embedded THEN "work" ELSE "join")
    /\ loaded' = TRUE
    /\ UNCHANGED <<embedded, controlVars, dataVars>>

\* A port is taken or the load raises; stop() follows in the finally clause.  A
\* control socket that could not be bound is there already, its thread is not.
StartFails ==
    /\ main \in {"start data", "start control", "load"}
    /\ main' = "set stop"
    /\ socket' \in IF main = "start control" THEN {"none", "open"} ELSE {socket}
    /\ UNCHANGED <<embedded, loaded, _stop, control, query, dataVars>>

\* The program is interrupted, or the embedding one is done with the server.
StopAsked ==
    /\ main \in {"join", "work"}
    /\ main' = "set stop"
    /\ UNCHANGED <<embedded, loaded, controlVars, dataVars>>

\* serve_forever returns when the control thread has ended, for whatever reason.
JoinReturns ==
    /\ MainGoes("join", "set stop")
    /\ control \in ThreadEnded
    /\ UNCHANGED <<embedded, loaded, controlVars, dataVars>>

-----------------------------------------------------------------------------
(* The main thread stops.                                                  *)

\* Faulty variant: closing the socket is relied on to end the loop.
SetStopForgotten ==
    /\ MainGoes("set stop", "close socket")
    /\ UNCHANGED <<embedded, loaded, controlVars, dataVars>>

SetStop ==
    /\ MainGoes("set stop", "close socket")
    /\ _stop' = TRUE
    /\ UNCHANGED <<embedded, loaded, socket, control, query, dataVars>>

\* Queries nobody received and replies that are not on the network.
Buffered(q) == query[q] \in {"queued", "replied"}

\* Faulty variant: close() without linger=0 keeps the replies to be sent.
CloseSocketLingering ==
    /\ MainGoes("close socket", "unset socket")
    /\ socket' = IF socket = "open" THEN "closed" ELSE socket
    /\ query' = [q \in Queries |-> IF query[q] = "queued" THEN "lost" ELSE query[q]]
    /\ UNCHANGED <<embedded, loaded, _stop, control, dataVars>>

\* close(linger=0) drops what the socket holds.
CloseSocket ==
    /\ MainGoes("close socket", "unset socket")
    /\ socket' = IF socket = "open" THEN "closed" ELSE socket
    /\ query' = [q \in Queries |-> IF Buffered(q) THEN "lost" ELSE query[q]]
    /\ UNCHANGED <<embedded, loaded, _stop, control, dataVars>>

UnsetSocket ==
    /\ MainGoes("unset socket", "terminate")
    /\ socket' = IF socket = "closed" THEN "unset" ELSE socket
    /\ UNCHANGED <<embedded, loaded, _stop, control, query, dataVars>>

\* term() waits until every socket is closed and has sent what it keeps.
Terminate ==
    /\ MainGoes("terminate", "stop data")
    /\ socket # "open"
    /\ \A q \in Queries : query[q] # "replied"
    /\ UNCHANGED <<embedded, loaded, controlVars, dataVars>>

SetDataStop ==
    /\ MainGoes("stop data", "close listener")
    /\ dataStop' = TRUE
    /\ UNCHANGED <<embedded, loaded, controlVars, listener, accept, conn>>

\* Connections nobody has accepted when the kernel stops listening are reset.
Reset(conns) ==
    [c \in Conns |-> IF conns[c].handler = "backlog"
                     THEN [conns[c] EXCEPT !.handler = "closed"] ELSE conns[c]]

CloseListener ==
    /\ MainGoes("close listener", "unset listener")
    /\ listener' = IF listener = "open" THEN "closed" ELSE listener
    /\ conn' = IF accept = "accept" THEN conn ELSE Reset(conn)
    /\ UNCHANGED <<embedded, loaded, controlVars, dataStop, accept>>

\* The connections the backend made as a reader, and the pool's mlock, are let go
\* of as well; the pool itself stays until the server object goes.
UnsetListener ==
    /\ MainGoes("unset listener", IF embedded THEN "ended" ELSE "exited")
    /\ listener' = IF listener = "closed" THEN "unset" ELSE listener
    /\ UNCHANGED <<embedded, loaded, controlVars, dataStop, accept, conn>>

\* The embedding program drops the server object, to which a control thread that runs
\* still refers.  No thread of the data plane refers to the pool, which is freed.
Drop ==
    /\ MainGoes("ended", "dropped")
    /\ control \in ThreadEnded \cup {"none"}
    /\ UNCHANGED <<embedded, loaded, controlVars, dataVars>>

MainStops ==
    \/ SetStop
    \/ CloseSocket
    \/ UnsetSocket
    \/ Terminate
    \/ SetDataStop
    \/ CloseListener
    \/ UnsetListener

Main ==
    \/ StartData
    \/ StartControl
    \/ Load
    \/ StartFails
    \/ StopAsked
    \/ JoinReturns
    \/ MainStops
    \/ Drop

-----------------------------------------------------------------------------
(* The control thread: one turn of _serve_control_loop.                    *)

ControlGoes(from, to) ==
    /\ Alive
    /\ control = from
    /\ control' = to

\* What a ZMQError ends the loop as.
OnError(stop) == IF stop THEN "stopped" ELSE "failed"

\* The thread asserts that there is a socket; stop() may have come first.
ControlBegin ==
    /\ ControlGoes("begin", IF socket = "unset" THEN "died" ELSE "top")
    /\ UNCHANGED <<embedded, main, loaded, _stop, socket, query, dataVars>>

ControlTop ==
    /\ ControlGoes("top", IF _stop THEN "stopped" ELSE "get")
    /\ UNCHANGED <<embedded, main, loaded, _stop, socket, query, dataVars>>

\* self.control_socket is None by now: AttributeError, which is not caught.  A
\* closed socket refuses to receive.
ControlGet ==
    /\ ControlGoes("get", CASE socket = "open"   -> "recv"
                            [] socket = "closed" -> OnError(_stop)
                            [] socket = "unset"  -> "died")
    /\ UNCHANGED <<embedded, main, loaded, _stop, socket, query, dataVars>>

\* A query that does not unpickle raises what the loop does not catch.
ControlRecv(q) ==
    /\ ControlGoes("recv", IF q \in Undecodable THEN "died" ELSE "answer")
    /\ socket = "open"
    /\ query[q] = "queued"
    /\ query' = [query EXCEPT ![q] = IF q \in Undecodable THEN "undecodable"
                                     ELSE "received"]
    /\ UNCHANGED <<embedded, main, loaded, _stop, socket, dataVars>>

\* The socket was closed under the receive.
ControlRecvFails ==
    /\ ControlGoes("recv", OnError(_stop))
    /\ socket \in {"closed", "unset"}
    /\ UNCHANGED <<embedded, main, loaded, _stop, socket, query, dataVars>>

\* Faulty variant: handle_query lets the error of an unknown model out.
ControlAnswerRaising ==
    /\ ControlGoes("answer", IF socket = "unset" \/ ~loaded THEN "died" ELSE "send")
    /\ UNCHANGED <<embedded, main, loaded, _stop, socket, query, dataVars>>

\* The socket is looked up for the reply before handle_query runs; that swallows
\* every error, so an unknown model is answered too.
ControlAnswer ==
    /\ ControlGoes("answer", IF socket = "unset" THEN "died" ELSE "send")
    /\ UNCHANGED <<embedded, main, loaded, _stop, socket, query, dataVars>>

ControlSend ==
    /\ ControlGoes("send", IF socket = "open" THEN "top" ELSE OnError(_stop))
    /\ query' = [q \in Queries |->
                    IF query[q] = "received"
                    THEN IF socket = "open" THEN "replied" ELSE "lost"
                    ELSE query[q]]
    /\ UNCHANGED <<embedded, main, loaded, _stop, socket, dataVars>>

Control ==
    \/ ControlBegin
    \/ ControlTop
    \/ ControlGet
    \/ \E q \in Queries : ControlRecv(q)
    \/ ControlAnswer
    \/ ControlSend

-----------------------------------------------------------------------------
(* The accept thread, and the thread that serves connection c.             *)

AcceptGoes(from, to) ==
    /\ Alive
    /\ accept = from
    /\ accept' = to

\* The thread asserts that there is a listener; stop() may have come first.
AcceptBegin ==
    /\ AcceptGoes("begin", IF listener = "unset" THEN "died" ELSE "top")
    /\ UNCHANGED <<embedded, main, loaded, controlVars, dataStop, listener, conn>>

\* Faulty variant: the loop does not look at the flag.
AcceptTopBlind ==
    /\ AcceptGoes("top", "get")
    /\ UNCHANGED <<embedded, main, loaded, controlVars, dataStop, listener, conn>>

AcceptTop ==
    /\ AcceptGoes("top", IF dataStop THEN "stopped" ELSE "get")
    /\ UNCHANGED <<embedded, main, loaded, controlVars, dataStop, listener, conn>>

AcceptGet ==
    /\ AcceptGoes("get", CASE listener = "open"   -> "accept"
                           [] listener = "closed" -> OnError(dataStop)
                           [] listener = "unset"  -> "died")
    /\ UNCHANGED <<embedded, main, loaded, controlVars, dataStop, listener, conn>>

\* When accept() returns and the listener has been closed, the kernel stops listening.
Listening(conns) == IF listener = "open" THEN conns ELSE Reset(conns)

\* A thread that is in accept() takes a connection even when the listener has been
\* closed.
Takes(c, handler) ==
    /\ conn[c].handler = "backlog"
    /\ conn' = Listening([conn EXCEPT ![c].handler = handler, ![c].late = dataStop])
    /\ UNCHANGED <<embedded, main, loaded, controlVars, dataStop, listener>>

AcceptConn(c) ==
    /\ AcceptGoes("accept", "top")
    /\ Takes(c, "top")

\* The handler's thread cannot be started, which nobody catches.  _handlers has it
\* already, so that the connection stays open, unserved.
HandlerUnstarted(c) ==
    /\ AcceptGoes("accept", "died")
    /\ Takes(c, "unserved")

\* accept() raises (no descriptor is left, say): the loop ends, and leaves the listener
\* as it is.
AcceptFails ==
    /\ AcceptGoes("accept", OnError(dataStop))
    /\ conn' = Listening(conn)
    /\ UNCHANGED <<embedded, main, loaded, controlVars, dataStop, listener>>

ConnStep(c, from) ==
    /\ Alive
    /\ conn[c].handler = from
    /\ UNCHANGED <<embedded, main, loaded, controlVars, dataStop, listener, accept>>

HandlerTop(c) ==
    /\ ConnStep(c, "top")
    /\ conn' = [conn EXCEPT ![c].handler = IF dataStop THEN "closed" ELSE "recv"]

HandlerRecv(c) ==
    /\ ConnStep(c, "recv")
    /\ conn[c].requests > 0
    /\ conn' = [conn EXCEPT ![c].handler = "read", ![c].requests = @ - 1]

HandlerEof(c) ==
    /\ ConnStep(c, "recv")
    /\ conn[c].requests = 0
    /\ ~conn[c].open
    /\ conn' = [conn EXCEPT ![c].handler = "closed"]

\* The bytes at the address are sent, whether or not the pool is there.
HandlerRead(c) ==
    /\ ConnStep(c, "read")
    /\ conn' = [conn EXCEPT ![c].handler = "top",
                            ![c].afterStop = IF dataStop THEN @ + 1 ELSE @,
                            ![c].afterDrop = IF main = "dropped" THEN @ + 1 ELSE @]

Handling(c) == HandlerTop(c) \/ HandlerRecv(c) \/ HandlerEof(c) \/ HandlerRead(c)

-----------------------------------------------------------------------------
(* The clients, and what the network does for them.                        *)

\* A query sent earlier waits at its client until the server is there.
SendQuery(q) ==
    /\ query[q] = "unsent"
    /\ socket = "open"
    /\ query' = [query EXCEPT ![q] = "queued"]
    /\ UNCHANGED <<embedded, main, loaded, _stop, socket, control, dataVars>>

\* The reply leaves the socket's buffer.  A client that does not take it keeps it
\* there.
ReplyTaken(q) ==
    /\ Alive
    /\ query[q] = "replied"
    /\ query' = [query EXCEPT ![q] = "answered"]
    /\ UNCHANGED <<embedded, main, loaded, _stop, socket, control, dataVars>>

ConnectTo(c) ==
    /\ ConnStep(c, "none")
    /\ listener = "open" \/ (listener \in {"closed", "unset"} /\ accept = "accept")
    /\ conn' = [conn EXCEPT ![c].handler = "backlog", ![c].open = TRUE]

\* A client sends its next request when it has the reply to the last.
SendRequest(c) ==
    /\ \E at \in {"backlog", "unserved", "top", "recv"} : ConnStep(c, at)
    /\ conn[c].open
    /\ conn[c].requests = 0
    /\ conn[c].sent < MaxRequests[c]
    /\ conn' = [conn EXCEPT ![c].requests = @ + 1, ![c].sent = @ + 1]

CloseConn(c) ==
    /\ \E at \in {"backlog", "unserved", "top", "recv", "read"} : ConnStep(c, at)
    /\ c \in MayClose
    /\ conn[c].open
    /\ conn' = [conn EXCEPT ![c].open = FALSE]

-----------------------------------------------------------------------------
LifeNext ==
    \/ Main
    \/ Control
    \/ ControlRecvFails
    \/ AcceptBegin
    \/ AcceptTop
    \/ AcceptGet
    \/ AcceptFails
    \/ \E c \in Conns :
           \/ AcceptConn(c)
           \/ HandlerUnstarted(c)
           \/ Handling(c)
           \/ ConnectTo(c)
           \/ SendRequest(c)
           \/ CloseConn(c)
    \/ \E q \in Queries : SendQuery(q) \/ ReplyTaken(q)

\* stop() goes on while it can.  Nothing is asked of the network: a client need not
\* take its reply, and nobody need stop the server.
LifeSpec == LifeInit /\ [][LifeNext]_lifeVars /\ WF_lifeVars(MainStops)

-----------------------------------------------------------------------------
InHand == {q \in Queries : query[q] = "received"}

\* The shape of the state: each thread exists from the moment it is started, and
\* the control thread holds a query only while it answers it.
LifeTypeOK ==
    /\ embedded \in BOOLEAN
    /\ main \in Stopping \cup {"start data", "start control", "load", "join", "work",
                               "ended", "dropped", "exited"}
    /\ loaded \in BOOLEAN
    /\ _stop \in BOOLEAN
    /\ socket \in {"none", "open", "closed", "unset"}
    /\ control \in ThreadEnded \cup {"none", "begin", "top", "get", "recv", "answer", "send"}
    /\ control # "none" => socket # "none"
    /\ Cardinality(InHand) <= 1
    /\ control \in {"answer", "send"} => InHand # {}
    /\ InHand # {} => control \in {"answer", "send", "died"}
    /\ query \in [Queries -> {"unsent", "queued", "received", "undecodable",
                              "replied", "answered", "lost"}]
    /\ dataStop \in BOOLEAN
    /\ listener \in {"none", "open", "closed", "unset"}
    /\ accept \in ThreadEnded \cup {"none", "begin", "top", "get", "accept"}
    /\ accept # "none" => listener # "none"
    /\ conn \in [Conns -> [handler : {"none", "backlog", "unserved", "top", "recv", "read",
                                      "closed"},
                           requests : {0, 1}, sent : Nat, open : BOOLEAN,
                           late : BOOLEAN, afterStop : Nat, afterDrop : Nat]]

\* What a bad request does to the control thread (server.py, line 203): before stop() a
\* query that cannot be unpickled ends it, at once and with no other query in hand, and
\* nothing else does, be the model there or not.
BadRequestEndsIt ==
    ~_stop =>
        /\ control \in ThreadEnded <=> \E q \in Undecodable : query[q] = "undecodable"
        /\ control \in ThreadEnded => InHand = {}

\* The docstring of handle_query: the control thread cannot leave because of one bad
\* request.
SurvivesBadRequest == ~_stop => control \notin ThreadEnded

Ends(thread, how) == thread' = how /\ thread # how

\* The handlers of ZMQError and OSError tell stop() from a failure, wherever the loops
\* are when it closes what they use: the control loop never logs a failure, the accept
\* loop only one of a listener in use.  What they do not catch is a bad request, a
\* handler that cannot be started, and the attribute that stop() has unset.
FailuresAreReal ==
    [][/\ ~Ends(control, "failed")
       /\ Ends(accept, "failed") => listener = "open" /\ ~dataStop
       /\ Ends(control, "died") =>
              \/ socket = "unset"
              \/ \E q \in Undecodable : query[q] = "queued" /\ query'[q] = "undecodable"
       /\ Ends(accept, "died") =>
              \/ listener = "unset"
              \/ \E c \in Conns : conn[c].handler = "backlog" /\ conn'[c].handler = "unserved"
      ]_lifeVars

\* What the data plane may still do once its flag is set: a blocked accept() takes one
\* connection, which is never served, and an older connection gets one more read.
\* That read is the only one that may find the pool freed.
StopReachesConnections ==
    /\ Cardinality({c \in Conns : conn[c].late}) <= 1
    /\ \A c \in Conns :
           /\ conn[c].late => conn[c].afterStop = 0
           /\ conn[c].afterStop <= 1
           /\ conn[c].afterDrop <= conn[c].afterStop

\* stop() returns, wherever the other threads are and whether or not clients take
\* their replies or close their connections.
StopReturns == main \in Stopping ~> main \notin Stopping
==============================================================================
