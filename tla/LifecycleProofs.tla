---------------------------- MODULE LifecycleProofs ----------------------------
(***************************************************************************)
(* Theorems about the server's threads, for any queries, connections and   *)
(* number of requests.  The invariant has two halves: what the main thread *)
(* and the control thread share, and what the main thread and the threads  *)
(* of the data plane share.  A step disturbs one of them, or is a step of  *)
(* the main thread.                                                        *)
(***************************************************************************)
EXTENDS ServerLifecycle, FiniteSetTheorems, TLAPS

\* The steps of stop() that follow the flag of the control plane, and those that
\* follow the flag of the data plane.
AfterDataStop == {"close listener", "unset listener", "ended", "dropped", "exited"}
AfterStop == AfterDataStop \cup {"close socket", "unset socket", "terminate", "stop data"}

MainOK ==
    /\ embedded \in BOOLEAN
    /\ main \in Stopping \cup {"start data", "start control", "load", "join", "work",
                               "ended", "dropped", "exited"}
    /\ loaded \in BOOLEAN

\* The control socket is closed under its thread only when the flag is set, which is
\* what tells the thread a stop from a failure.
ControlInv ==
    /\ _stop \in BOOLEAN
    /\ socket \in {"none", "open", "closed", "unset"}
    /\ control \in ThreadEnded \cup {"none", "begin", "top", "get", "recv", "answer", "send"}
    /\ query \in [Queries -> {"unsent", "queued", "received", "undecodable",
                              "replied", "answered", "lost"}]
    /\ control # "none" => socket # "none"
    /\ \A p, q \in InHand : p = q
    /\ control \in {"answer", "send"} => InHand # {}
    /\ InHand # {} => control \in {"answer", "send", "died"}
    /\ main \in {"start data", "start control"} => control = "none" /\ socket = "none"
    /\ socket \in {"closed", "unset"} => _stop
    /\ main \in AfterStop => _stop
    /\ control # "failed"
    /\ BadRequestEndsIt

Connection ==
    [handler : {"none", "backlog", "unserved", "top", "recv", "read", "closed"},
     requests : {0, 1}, sent : Nat, open : BOOLEAN,
     late : BOOLEAN, afterStop : Nat, afterDrop : Nat]

\* A connection accepted late has found the flag set or is about to; one that was
\* served after the flag was set has done its last read.
ServedOK(r) ==
    /\ r.late => dataStop /\ r.afterStop = 0 /\ r.handler \in {"unserved", "top", "closed"}
    /\ r.afterStop > 0 => dataStop /\ r.handler \in {"top", "closed"}
    /\ r.afterStop <= 1
    /\ r.afterDrop <= r.afterStop

ListenerInv ==
    /\ dataStop \in BOOLEAN
    /\ listener \in {"none", "open", "closed", "unset"}
    /\ accept \in ThreadEnded \cup {"none", "begin", "top", "get", "accept"}
    /\ accept # "none" => listener # "none"
    /\ listener \in {"closed", "unset"} => dataStop
    /\ main \in AfterDataStop => dataStop

ConnsInv ==
    /\ conn \in [Conns -> Connection]
    /\ \A c \in Conns : ServedOK(conn[c])

\* The accept thread looks at the flag between two connections, so that it accepts
\* one late connection at most.
LateInv ==
    /\ \A c \in Conns : conn[c].late => accept \notin {"get", "accept"}
    /\ \A c, d \in Conns : conn[c].late /\ conn[d].late => c = d

DataInv == ListenerInv /\ ConnsInv /\ LateInv

LifeInv == MainOK /\ ControlInv /\ DataInv

-----------------------------------------------------------------------------
\* A set without two different elements has at most one.
LEMMA AtMostOne ==
    ASSUME NEW S, \A p, q \in S : p = q
    PROVE  Cardinality(S) <= 1
  <1>1. CASE S = {}
    <2>1. Cardinality(S) = 0  BY <1>1, FS_EmptySet
    <2> QED  BY <2>1
  <1>2. CASE S # {}
    <2>1. PICK p \in S : TRUE  BY <1>2
    <2>2. S = {p}  BY <2>1
    <2>3. Cardinality(S) = 1  BY <2>2, FS_Singleton
    <2> QED  BY <2>3
  <1> QED  BY <1>1, <1>2

\* A connection that was never accepted late or served is fine.
LEMMA UnservedOK ==
    ASSUME \A c \in Conns : ~conn[c].late /\ conn[c].afterStop = 0 /\ conn[c].afterDrop = 0
    PROVE  \A c \in Conns : ServedOK(conn[c])
  BY DEF ServedOK

\* Before any thread is started.
LEMMA LifeInitInv == LifeInit => LifeInv
  <1> SUFFICES ASSUME LifeInit PROVE LifeInv  OBVIOUS
  <1> USE DEF LifeInit
  <1>1. MainOK  BY DEF MainOK
  <1>2. ControlInv
    <2>1. InHand = {}  BY DEF InHand
    <2>2. \A q \in Undecodable : query[q] # "undecodable"  BY LifecycleAssumption
    <2> QED
      BY <2>1, <2>2 DEF ControlInv, ThreadEnded, BadRequestEndsIt, AfterStop, AfterDataStop
  <1>3. DataInv
    <2>1. \A c \in Conns : conn[c] = NoConnection  OBVIOUS
    <2>2. NoConnection \in Connection  BY DEF NoConnection, Connection
    <2>3. ~NoConnection.late /\ NoConnection.afterStop = 0 /\ NoConnection.afterDrop = 0
      BY DEF NoConnection
    <2>4. \A c \in Conns : ~conn[c].late /\ ServedOK(conn[c])
      <3>1. \A c \in Conns : ~conn[c].late /\ conn[c].afterStop = 0 /\ conn[c].afterDrop = 0
        BY <2>1, <2>3
      <3> QED  BY <3>1, UnservedOK
    <2>5. conn \in [Conns -> Connection]  BY <2>1, <2>2
    <2> QED
      BY <2>4, <2>5 DEF DataInv, ListenerInv, ConnsInv, LateInv, AfterDataStop
  <1> QED  BY <1>1, <1>2, <1>3 DEF LifeInv

-----------------------------------------------------------------------------
(* Who disturbs what.                                                      *)

\* The steps of the control thread and of the clients of the control plane.
ControlSteps ==
    \/ Control
    \/ ControlRecvFails
    \/ \E q \in Queries : SendQuery(q) \/ ReplyTaken(q)

\* The steps of the accept thread, the handlers and the readers.
DataSteps ==
    \/ AcceptBegin
    \/ AcceptTop
    \/ AcceptGet
    \/ AcceptFails
    \/ \E c \in Conns :
           \/ AcceptConn(c)
           \/ HandlerUnstarted(c)
           \/ Handling(c)
           \/ ConnectTo(c)
           \/ SendRequest(c)
           \/ CloseConn(c)

\* The main thread's steps keep its place one of the program's.
LEMMA MainKeepsPlace ==
    ASSUME MainOK, Main
    PROVE  MainOK'
  <1> USE DEF MainGoes, MainOK, Stopping
  <1>1. CASE StartData  BY <1>1 DEF StartData
  <1>2. CASE StartControl  BY <1>2 DEF StartControl
  <1>3. CASE Load  BY <1>3 DEF Load
  <1>4. CASE StartFails  BY <1>4 DEF StartFails
  <1>5. CASE StopAsked  BY <1>5 DEF StopAsked
  <1>6. CASE JoinReturns  BY <1>6 DEF JoinReturns
  <1>7. CASE MainStops
    BY <1>7 DEF MainStops, SetStop, CloseSocket, UnsetSocket, Terminate, SetDataStop,
                CloseListener, UnsetListener
  <1>8. CASE Drop  BY <1>8 DEF Drop
  <1> QED  BY <1>1, <1>2, <1>3, <1>4, <1>5, <1>6, <1>7, <1>8 DEF Main

\* The control plane is left as it is by a step that leaves its variables and does not
\* take the main thread past the flag.
LEMMA ControlFrame ==
    ASSUME ControlInv, UNCHANGED controlVars,
           main' \in {"start data", "start control"} => main \in {"start data", "start control"},
           main' \in AfterStop => main \in AfterStop
    PROVE  ControlInv'
  BY DEF ControlInv, controlVars, InHand, BadRequestEndsIt, ThreadEnded, AfterStop, AfterDataStop

\* The same for the data plane.
LEMMA DataFrame ==
    ASSUME DataInv, UNCHANGED dataVars, main' \in AfterDataStop => main \in AfterDataStop
    PROVE  DataInv'
  BY DEF DataInv, ListenerInv, ConnsInv, LateInv, dataVars, ServedOK, AfterDataStop

-----------------------------------------------------------------------------
(* The control plane.                                                      *)

\* stop() sets the flag before it touches the socket.
LEMMA MainKeepsControl ==
    ASSUME MainOK, ControlInv, Main
    PROVE  ControlInv'
  <1> USE DEF MainGoes
  <1>1. CASE StartData
    BY <1>1, ControlFrame DEF StartData, AfterStop, AfterDataStop
  <1>2. CASE StartControl
    <2>1. InHand = {} /\ InHand' = {}
      BY <1>2 DEF StartControl, ControlInv, InHand
    <2> QED
      BY <1>2, <2>1 DEF StartControl, ControlInv, BadRequestEndsIt, ThreadEnded,
                        AfterStop, AfterDataStop
  <1>3. CASE Load
    BY <1>3, ControlFrame DEF Load, AfterStop, AfterDataStop
  <1>4. CASE StartFails
    BY <1>4 DEF StartFails, ControlInv, InHand, BadRequestEndsIt, ThreadEnded,
                AfterStop, AfterDataStop
  <1>5. CASE StopAsked
    BY <1>5, ControlFrame DEF StopAsked, AfterStop, AfterDataStop
  <1>6. CASE JoinReturns
    BY <1>6, ControlFrame DEF JoinReturns, AfterStop, AfterDataStop
  <1>7. CASE SetStop
    BY <1>7 DEF SetStop, ControlInv, InHand, BadRequestEndsIt, ThreadEnded,
                AfterStop, AfterDataStop
  <1>8. CASE CloseSocket
    <2>1. _stop  BY <1>8 DEF CloseSocket, ControlInv, AfterStop, AfterDataStop
    <2>2. \A q \in Queries : query'[q] = IF Buffered(q) THEN "lost" ELSE query[q]
      BY <1>8 DEF CloseSocket
    <2>3. InHand' = InHand  BY <2>2 DEF InHand, Buffered
    <2>4. query' \in [Queries -> {"unsent", "queued", "received", "undecodable",
                                  "replied", "answered", "lost"}]
      BY <1>8 DEF CloseSocket, ControlInv
    <2> QED
      BY <1>8, <2>1, <2>3, <2>4 DEF CloseSocket, ControlInv, BadRequestEndsIt, ThreadEnded,
                                    AfterStop, AfterDataStop
  <1>9. CASE UnsetSocket
    BY <1>9 DEF UnsetSocket, ControlInv, InHand, BadRequestEndsIt, ThreadEnded,
                AfterStop, AfterDataStop
  <1>10. CASE Terminate
    BY <1>10, ControlFrame DEF Terminate, AfterStop, AfterDataStop
  <1>11. CASE SetDataStop
    BY <1>11, ControlFrame DEF SetDataStop, AfterStop, AfterDataStop
  <1>12. CASE CloseListener
    BY <1>12, ControlFrame DEF CloseListener, AfterStop, AfterDataStop
  <1>13. CASE UnsetListener
    BY <1>13, ControlFrame DEF UnsetListener, AfterStop, AfterDataStop
  <1>14. CASE Drop
    BY <1>14, ControlFrame DEF Drop, AfterStop, AfterDataStop
  <1> QED
    BY <1>1, <1>2, <1>3, <1>4, <1>5, <1>6, <1>7, <1>8, <1>9, <1>10, <1>11, <1>12, <1>13, <1>14
    DEF Main, MainStops

\* A place that is not the end of the thread is reached, or the end with the flag set,
\* while the queries stay as they are.
LEMMA ControlMoves ==
    ASSUME ControlInv, UNCHANGED <<main, _stop, socket, query>>,
           control \notin {"none", "answer", "send"} \cup ThreadEnded,
           control' \in {"begin", "top", "get", "recv", "stopped", "died"},
           control' \in ThreadEnded => _stop,
           InHand = {}
    PROVE  ControlInv'
  BY DEF ControlInv, InHand, BadRequestEndsIt, ThreadEnded, AfterStop, AfterDataStop

\* Wherever the thread finds the socket gone, the flag is set; and it takes a query
\* only when it has answered the last.
LEMMA ControlKeepsControl ==
    ASSUME MainOK, ControlInv, ControlSteps
    PROVE  ControlInv'
  <1> USE DEF ControlGoes
  <1>0. control \notin {"answer", "send", "died"} => InHand = {}  BY DEF ControlInv
  <1>8. CASE ControlBegin
    BY <1>0, <1>8, ControlMoves DEF ControlBegin, ControlInv, ThreadEnded
  <1>1. CASE ControlTop
    BY <1>0, <1>1, ControlMoves DEF ControlTop, ControlInv, ThreadEnded
  <1>2. CASE ControlGet
    <2>1. socket \in {"open", "closed", "unset"} /\ (socket # "open" => _stop)
      BY <1>2 DEF ControlGet, ControlInv
    <2>2. control' \in {"recv", "stopped", "died"} /\ (control' \in ThreadEnded => _stop)
      BY <1>2, <2>1 DEF ControlGet, OnError, ThreadEnded
    <2> QED  BY <1>0, <1>2, <2>2, ControlMoves DEF ControlGet, ThreadEnded
  <1>3. ASSUME NEW q \in Queries, ControlRecv(q)  PROVE ControlInv'
    <2>1. InHand = {}  BY <1>0, <1>3 DEF ControlRecv
    <2>2. /\ \A r \in Queries : r # q => query'[r] = query[r]
          /\ query'[q] = IF q \in Undecodable THEN "undecodable" ELSE "received"
      BY <1>3 DEF ControlRecv, ControlInv
    <2>3. InHand' = IF q \in Undecodable THEN {} ELSE {q}
      BY <2>1, <2>2 DEF InHand
    <2>4. query' \in [Queries -> {"unsent", "queued", "received", "undecodable",
                                  "replied", "answered", "lost"}]
      BY <1>3 DEF ControlRecv, ControlInv
    <2>5. BadRequestEndsIt'
      <3>1. _stop \/ \A p \in Undecodable : query[p] # "undecodable"
        BY <1>3 DEF ControlRecv, ControlInv, BadRequestEndsIt, ThreadEnded
      <3>2. Undecodable \subseteq Queries  BY LifecycleAssumption
      <3>3. /\ control' = IF q \in Undecodable THEN "died" ELSE "answer"
            /\ UNCHANGED _stop
        BY <1>3 DEF ControlRecv
      <3>4. CASE q \in Undecodable
        BY <2>2, <2>3, <3>3, <3>4 DEF BadRequestEndsIt, ThreadEnded
      <3>5. CASE q \notin Undecodable
        BY <2>2, <3>1, <3>2, <3>3, <3>5 DEF BadRequestEndsIt, ThreadEnded
      <3> QED  BY <3>4, <3>5
    <2> QED
      BY <1>3, <2>3, <2>4, <2>5 DEF ControlRecv, ControlInv, ThreadEnded, AfterStop, AfterDataStop
  <1>4. CASE ControlRecvFails
    <2>1. _stop  BY <1>4 DEF ControlRecvFails, ControlInv
    <2> QED
      BY <1>0, <1>4, <2>1, ControlMoves DEF ControlRecvFails, OnError, ThreadEnded
  <1>5. CASE ControlAnswer
    BY <1>5 DEF ControlAnswer, ControlInv, InHand, BadRequestEndsIt, ThreadEnded,
                AfterStop, AfterDataStop
  <1>6. CASE ControlSend
    <2>1. socket # "open" => _stop  BY <1>6 DEF ControlSend, ControlInv
    <2>2. \A q \in Queries : query'[q] = IF query[q] = "received"
                                         THEN IF socket = "open" THEN "replied" ELSE "lost"
                                         ELSE query[q]
      BY <1>6 DEF ControlSend
    <2>3. InHand' = {}  BY <2>2 DEF InHand
    <2>4. query' \in [Queries -> {"unsent", "queued", "received", "undecodable",
                                  "replied", "answered", "lost"}]
      BY <1>6 DEF ControlSend, ControlInv
    <2>5. control' \in {"top", "stopped"} /\ (control' = "stopped" => _stop)
      BY <1>6, <2>1 DEF ControlSend, OnError
    <2>6. BadRequestEndsIt'
      <3>1. _stop \/ \A q \in Undecodable : query[q] # "undecodable"
        BY <1>6 DEF ControlSend, ControlInv, BadRequestEndsIt, ThreadEnded
      <3>2. Undecodable \subseteq Queries  BY LifecycleAssumption
      <3>3. \A q \in Queries : query'[q] = "undecodable" => query[q] = "undecodable"
        BY <2>2
      <3>4. UNCHANGED _stop  BY <1>6 DEF ControlSend
      <3> QED  BY <2>5, <3>1, <3>2, <3>3, <3>4 DEF BadRequestEndsIt, ThreadEnded
    <2> QED
      BY <1>6, <2>3, <2>4, <2>5, <2>6 DEF ControlSend, ControlInv, ThreadEnded,
                                          AfterStop, AfterDataStop
  <1>7. ASSUME NEW q \in Queries, SendQuery(q) \/ ReplyTaken(q)  PROVE ControlInv'
    <2>1. /\ UNCHANGED <<main, _stop, socket, control>>
          /\ query[q] \in {"unsent", "replied"}
          /\ query'[q] \in {"queued", "answered"}
          /\ \A r \in Queries : r # q => query'[r] = query[r]
          /\ query' \in [Queries -> {"unsent", "queued", "received", "undecodable",
                                     "replied", "answered", "lost"}]
      BY <1>7 DEF SendQuery, ReplyTaken, ControlInv
    <2>2. InHand' = InHand  BY <2>1 DEF InHand
    <2>3. BadRequestEndsIt'
      <3>1. \A r \in Queries : query[r] = "undecodable" <=> query'[r] = "undecodable"
        BY <2>1
      <3>2. Undecodable \subseteq Queries  BY LifecycleAssumption
      <3> QED  BY <2>1, <2>2, <3>1, <3>2 DEF ControlInv, BadRequestEndsIt
    <2> QED  BY <2>1, <2>2, <2>3 DEF ControlInv, ThreadEnded, AfterStop, AfterDataStop
  <1> QED
    BY <1>1, <1>2, <1>3, <1>4, <1>5, <1>6, <1>7, <1>8 DEF ControlSteps, Control

-----------------------------------------------------------------------------
(* The data plane.                                                         *)

\* Connections keep their part of the invariant when each stays as late as it was and
\* was served no more than it may.
LEMMA ConnsFrame ==
    ASSUME ConnsInv, LateInv, UNCHANGED <<dataStop, accept>>,
           conn' \in [Conns -> Connection],
           \A c \in Conns : conn'[c].late = conn[c].late /\ ServedOK(conn'[c])
    PROVE  ConnsInv' /\ LateInv'
  BY DEF ConnsInv, LateInv, ServedOK

\* The reset of the backlog touches no connection that was accepted.
LEMMA ResetFacts ==
    ASSUME NEW conns \in [Conns -> Connection], \A c \in Conns : ServedOK(conns[c])
    PROVE  /\ Reset(conns) \in [Conns -> Connection]
           /\ \A c \in Conns : /\ Reset(conns)[c].late = conns[c].late
                              /\ ServedOK(Reset(conns)[c])
  <1>1. ASSUME NEW c \in Conns
        PROVE  /\ Reset(conns)[c] \in Connection
               /\ Reset(conns)[c].late = conns[c].late
               /\ ServedOK(Reset(conns)[c])
    <2>1. CASE conns[c].handler = "backlog"
      <3> DEFINE r == [conns[c] EXCEPT !.handler = "closed"]
      <3>1. Reset(conns)[c] = r  BY <2>1 DEF Reset
      <3>2. conns[c] \in Connection /\ ServedOK(conns[c])  OBVIOUS
      <3>3. /\ r \in Connection /\ r.handler = "closed" /\ r.late = conns[c].late
            /\ r.afterStop = conns[c].afterStop /\ r.afterDrop = conns[c].afterDrop
        BY <3>2 DEF Connection
      <3> HIDE DEF r
      <3> QED  BY <2>1, <3>1, <3>2, <3>3 DEF ServedOK
    <2>2. CASE conns[c].handler # "backlog"
      <3>1. Reset(conns)[c] = conns[c]  BY <2>2 DEF Reset
      <3> QED  BY <3>1
    <2> QED  BY <2>1, <2>2
  <1>2. Reset(conns) = [c \in Conns |-> Reset(conns)[c]]  BY DEF Reset
  <1> QED  BY <1>1, <1>2

\* stop() sets the flag before it touches the listener, and a connection that is reset
\* was neither accepted nor served.
LEMMA MainKeepsData ==
    ASSUME MainOK, DataInv, Main
    PROVE  DataInv'
  <1> USE DEF MainGoes
  <1>1. CASE StartData
    <2>1. ListenerInv'
      BY <1>1 DEF StartData, DataInv, ListenerInv, ThreadEnded, AfterDataStop
    <2>2. ConnsInv'  BY <1>1 DEF StartData, DataInv, ConnsInv, ServedOK
    <2>3. LateInv'  BY <1>1 DEF StartData, DataInv, LateInv
    <2> QED  BY <2>1, <2>2, <2>3 DEF DataInv
  <1>2. CASE StartControl
    BY <1>2, DataFrame DEF StartControl, AfterDataStop
  <1>3. CASE Load
    BY <1>3, DataFrame DEF Load, AfterDataStop
  <1>4. CASE StartFails
    BY <1>4, DataFrame DEF StartFails, AfterDataStop
  <1>5. CASE StopAsked
    BY <1>5, DataFrame DEF StopAsked, AfterDataStop
  <1>6. CASE JoinReturns
    BY <1>6, DataFrame DEF JoinReturns, AfterDataStop
  <1>7. CASE SetStop
    BY <1>7, DataFrame DEF SetStop, AfterDataStop
  <1>8. CASE CloseSocket
    BY <1>8, DataFrame DEF CloseSocket, AfterDataStop
  <1>9. CASE UnsetSocket
    BY <1>9, DataFrame DEF UnsetSocket, AfterDataStop
  <1>10. CASE Terminate
    BY <1>10, DataFrame DEF Terminate, AfterDataStop
  <1>11. CASE SetDataStop
    <2>1. ListenerInv'  BY <1>11 DEF SetDataStop, DataInv, ListenerInv, AfterDataStop
    <2>2. ConnsInv'  BY <1>11 DEF SetDataStop, DataInv, ConnsInv, ServedOK
    <2>3. LateInv'  BY <1>11 DEF SetDataStop, DataInv, LateInv
    <2> QED  BY <2>1, <2>2, <2>3 DEF DataInv
  <1>12. CASE CloseListener
    <2>1. ListenerInv'
      BY <1>12 DEF CloseListener, DataInv, ListenerInv, AfterDataStop
    <2>2. conn \in [Conns -> Connection] /\ \A c \in Conns : ServedOK(conn[c])
      BY DEF DataInv, ConnsInv
    <2>3. /\ conn' \in [Conns -> Connection]
          /\ \A c \in Conns : conn'[c].late = conn[c].late /\ ServedOK(conn'[c])
      BY <1>12, <2>2, ResetFacts DEF CloseListener
    <2>4. UNCHANGED <<dataStop, accept>>  BY <1>12 DEF CloseListener
    <2> QED  BY <2>1, <2>3, <2>4, ConnsFrame DEF DataInv
  <1>13. CASE UnsetListener
    <2>1. ListenerInv'
      BY <1>13 DEF UnsetListener, DataInv, ListenerInv, AfterDataStop
    <2>2. ConnsInv'  BY <1>13 DEF UnsetListener, DataInv, ConnsInv, ServedOK
    <2>3. LateInv'  BY <1>13 DEF UnsetListener, DataInv, LateInv
    <2> QED  BY <2>1, <2>2, <2>3 DEF DataInv
  <1>14. CASE Drop
    BY <1>14, DataFrame DEF Drop, AfterDataStop
  <1> QED
    BY <1>1, <1>2, <1>3, <1>4, <1>5, <1>6, <1>7, <1>8, <1>9, <1>10, <1>11, <1>12, <1>13, <1>14
    DEF Main, MainStops

\* The step of one connection that leaves the threads of the server where they are.
LEMMA OneConnection ==
    ASSUME DataInv, NEW c \in Conns, NEW r \in Connection,
           UNCHANGED <<main, dataStop, listener, accept>>,
           conn' = [conn EXCEPT ![c] = r], r.late = conn[c].late, ServedOK(r)
    PROVE  DataInv'
  <1>1. ListenerInv'  BY DEF DataInv, ListenerInv
  <1>2. /\ conn' \in [Conns -> Connection]
        /\ \A d \in Conns : conn'[d] = IF d = c THEN r ELSE conn[d]
    BY DEF DataInv, ConnsInv
  <1>3. \A d \in Conns : conn'[d].late = conn[d].late /\ ServedOK(conn'[d])
    <2>1. ServedOK(r)' <=> ServedOK(r)  BY DEF ServedOK
    <2> QED  BY <1>2, <2>1 DEF DataInv, ConnsInv, ServedOK
  <1> QED  BY <1>1, <1>2, <1>3, ConnsFrame DEF DataInv

\* A handler looks at the flag before it waits for another request, so that it serves
\* one read at most after the flag is set.
LEMMA ConnKeepsData ==
    ASSUME MainOK, DataInv, NEW c \in Conns,
           Handling(c) \/ ConnectTo(c) \/ SendRequest(c) \/ CloseConn(c)
    PROVE  DataInv'
  <1> DEFINE r == conn[c]
  <1>0. r \in Connection /\ ServedOK(r)  BY DEF DataInv, ConnsInv
  <1> USE DEF ConnStep
  <1>1. CASE HandlerTop(c)
    <2> DEFINE s == [r EXCEPT !.handler = IF dataStop THEN "closed" ELSE "recv"]
    <2>1. conn' = [conn EXCEPT ![c] = s]  BY <1>1 DEF HandlerTop
    <2>2. s \in Connection /\ s.late = r.late  BY <1>0 DEF Connection
    <2>3. ServedOK(s)  BY <1>0, <1>1 DEF HandlerTop, ServedOK, Connection
    <2>4. UNCHANGED <<main, dataStop, listener, accept>>  BY <1>1 DEF HandlerTop
    <2> QED  BY <2>1, <2>2, <2>3, <2>4, OneConnection
  <1>2. CASE HandlerRecv(c)
    <2> DEFINE s == [r EXCEPT !.handler = "read", !.requests = @ - 1]
    <2>1. conn' = [conn EXCEPT ![c] = s]  BY <1>2 DEF HandlerRecv
    <2>2. s \in Connection /\ s.late = r.late
      <3>1. r.requests - 1 \in {0, 1}  BY <1>0, <1>2 DEF HandlerRecv, Connection
      <3> QED  BY <1>0, <3>1 DEF Connection
    <2>3. ServedOK(s)  BY <1>0, <1>2 DEF HandlerRecv, ServedOK, Connection
    <2>4. UNCHANGED <<main, dataStop, listener, accept>>  BY <1>2 DEF HandlerRecv
    <2> QED  BY <2>1, <2>2, <2>3, <2>4, OneConnection
  <1>3. CASE HandlerEof(c)
    <2> DEFINE s == [r EXCEPT !.handler = "closed"]
    <2>1. conn' = [conn EXCEPT ![c] = s]  BY <1>3 DEF HandlerEof
    <2>2. s \in Connection /\ s.late = r.late  BY <1>0 DEF Connection
    <2>3. ServedOK(s)  BY <1>0, <1>3 DEF HandlerEof, ServedOK, Connection
    <2>4. UNCHANGED <<main, dataStop, listener, accept>>  BY <1>3 DEF HandlerEof
    <2> QED  BY <2>1, <2>2, <2>3, <2>4, OneConnection
  <1>4. CASE HandlerRead(c)
    <2> DEFINE s == [r EXCEPT !.handler = "top",
                              !.afterStop = IF dataStop THEN @ + 1 ELSE @,
                              !.afterDrop = IF main = "dropped" THEN @ + 1 ELSE @]
    <2>1. conn' = [conn EXCEPT ![c] = s]  BY <1>4 DEF HandlerRead
    <2>2. /\ s \in Connection /\ s.late = r.late /\ s.handler = "top"
          /\ s.afterStop = IF dataStop THEN r.afterStop + 1 ELSE r.afterStop
          /\ s.afterDrop = IF main = "dropped" THEN r.afterDrop + 1 ELSE r.afterDrop
      <3> DEFINE n == IF dataStop THEN r.afterStop + 1 ELSE r.afterStop
                 m == IF main = "dropped" THEN r.afterDrop + 1 ELSE r.afterDrop
      <3>1. n \in Nat /\ m \in Nat  BY <1>0 DEF Connection
      <3>2. s = [r EXCEPT !.handler = "top", !.afterStop = n, !.afterDrop = m]  OBVIOUS
      <3> HIDE DEF n, m, s
      <3>3. /\ s \in Connection /\ s.late = r.late /\ s.handler = "top"
            /\ s.afterStop = n /\ s.afterDrop = m
        BY <1>0, <3>1, <3>2 DEF Connection
      <3> QED  BY <3>3 DEF n, m
    <2>3. /\ ~r.late /\ r.afterStop = 0 /\ r.afterDrop = 0
          /\ r.afterStop \in Nat /\ r.afterDrop \in Nat
      BY <1>0, <1>4 DEF HandlerRead, ServedOK, Connection
    <2>4. main = "dropped" => dataStop  BY DEF DataInv, ListenerInv, AfterDataStop
    <2> HIDE DEF s
    <2>5. ServedOK(s)  BY <2>2, <2>3, <2>4 DEF ServedOK
    <2>6. UNCHANGED <<main, dataStop, listener, accept>>  BY <1>4 DEF HandlerRead
    <2> QED  BY <2>1, <2>2, <2>5, <2>6, OneConnection
  <1>5. CASE ConnectTo(c)
    <2> DEFINE s == [r EXCEPT !.handler = "backlog", !.open = TRUE]
    <2>1. conn' = [conn EXCEPT ![c] = s]  BY <1>5 DEF ConnectTo
    <2>2. s \in Connection /\ s.late = r.late  BY <1>0 DEF Connection
    <2>3. ServedOK(s)  BY <1>0, <1>5 DEF ConnectTo, ServedOK, Connection
    <2>4. UNCHANGED <<main, dataStop, listener, accept>>  BY <1>5 DEF ConnectTo
    <2> QED  BY <2>1, <2>2, <2>3, <2>4, OneConnection
  <1>6. CASE SendRequest(c)
    <2> DEFINE s == [r EXCEPT !.requests = @ + 1, !.sent = @ + 1]
    <2>1. conn' = [conn EXCEPT ![c] = s]  BY <1>6 DEF SendRequest
    <2>2. s \in Connection /\ s.late = r.late
      <3>1. r.requests + 1 \in {0, 1}  BY <1>6 DEF SendRequest
      <3>2. r.sent + 1 \in Nat  BY <1>0 DEF Connection
      <3> QED  BY <1>0, <3>1, <3>2 DEF Connection
    <2>3. ServedOK(s)  BY <1>0 DEF ServedOK, Connection
    <2>4. UNCHANGED <<main, dataStop, listener, accept>>  BY <1>6 DEF SendRequest
    <2> QED  BY <2>1, <2>2, <2>3, <2>4, OneConnection
  <1>7. CASE CloseConn(c)
    <2> DEFINE s == [r EXCEPT !.open = FALSE]
    <2>1. conn' = [conn EXCEPT ![c] = s]  BY <1>7 DEF CloseConn
    <2>2. s \in Connection /\ s.late = r.late  BY <1>0 DEF Connection
    <2>3. ServedOK(s)  BY <1>0 DEF ServedOK, Connection
    <2>4. UNCHANGED <<main, dataStop, listener, accept>>  BY <1>7 DEF CloseConn
    <2> QED  BY <2>1, <2>2, <2>3, <2>4, OneConnection
  <1> QED  BY <1>1, <1>2, <1>3, <1>4, <1>5, <1>6, <1>7 DEF Handling

\* accept() returns a connection, for which a handler is started or not: it is the
\* only late one.
LEMMA TakesOK ==
    ASSUME DataInv, NEW c \in Conns, NEW handler \in {"unserved", "top"},
           accept = "accept", accept' \in {"top", "died"}, Takes(c, handler)
    PROVE  DataInv'
  <1> DEFINE r == [conn[c] EXCEPT !.handler = handler, !.late = dataStop]
             accepted == [conn EXCEPT ![c] = r]
  <1>1. ListenerInv'  BY DEF Takes, DataInv, ListenerInv, ThreadEnded
  <1>2. conn[c] \in Connection /\ ServedOK(conn[c]) /\ conn[c].handler = "backlog"
    BY DEF Takes, DataInv, ConnsInv
  <1>3. /\ r \in Connection /\ r.handler = handler /\ r.late = dataStop
        /\ r.afterStop = conn[c].afterStop /\ r.afterDrop = conn[c].afterDrop
    BY <1>2 DEF Connection, DataInv, ListenerInv
  <1>4. ServedOK(r)
    <2> HIDE DEF r
    <2> QED  BY <1>2, <1>3 DEF ServedOK, Connection
  <1>5. /\ accepted \in [Conns -> Connection]
        /\ \A d \in Conns : ServedOK(accepted[d])
        /\ \A d \in Conns : accepted[d].late => d = c
    BY <1>3, <1>4 DEF DataInv, ConnsInv, LateInv
  <1>6. conn' \in {accepted, Reset(accepted)}  BY DEF Takes, Listening
  <1> HIDE DEF accepted
  <1>7. /\ conn' \in [Conns -> Connection]
        /\ \A d \in Conns : ServedOK(conn'[d]) /\ (conn'[d].late => d = c)
    BY <1>5, <1>6, ResetFacts
  <1>8. UNCHANGED dataStop  BY DEF Takes
  <1>9. ConnsInv'  BY <1>7, <1>8 DEF ConnsInv, ServedOK
  <1>10. LateInv'  BY <1>7, <1>8 DEF LateInv
  <1> QED  BY <1>1, <1>9, <1>10 DEF DataInv

\* The accept thread looks at the flag before it takes another connection, so that it
\* finds no late one when it takes one.
LEMMA AcceptKeepsData ==
    ASSUME MainOK, DataInv,
           \/ AcceptBegin \/ AcceptTop \/ AcceptGet \/ AcceptFails
           \/ \E c \in Conns : AcceptConn(c) \/ HandlerUnstarted(c)
    PROVE  DataInv'
  <1> USE DEF AcceptGoes
  <1>1. CASE AcceptBegin \/ AcceptTop
    <2>1. ListenerInv'
      BY <1>1 DEF AcceptBegin, AcceptTop, DataInv, ListenerInv, ThreadEnded
    <2>2. ConnsInv'  BY <1>1 DEF AcceptBegin, AcceptTop, DataInv, ConnsInv, ServedOK
    <2>3. LateInv'
      BY <1>1 DEF AcceptBegin, AcceptTop, DataInv, ConnsInv, ServedOK, LateInv
    <2> QED  BY <2>1, <2>2, <2>3 DEF DataInv
  <1>2. CASE AcceptGet
    <2>1. listener \in {"open", "closed", "unset"} /\ (listener # "open" => dataStop)
      BY <1>2 DEF AcceptGet, DataInv, ListenerInv
    <2>2. accept' \in {"accept", "stopped", "died"}
      BY <1>2, <2>1 DEF AcceptGet, OnError
    <2>3. ListenerInv'
      BY <1>2, <2>1, <2>2 DEF AcceptGet, DataInv, ListenerInv, ThreadEnded
    <2>4. ConnsInv'  BY <1>2 DEF AcceptGet, DataInv, ConnsInv, ServedOK
    <2>5. LateInv'  BY <1>2 DEF AcceptGet, DataInv, LateInv
    <2> QED  BY <2>3, <2>4, <2>5 DEF DataInv
  <1>3. ASSUME NEW c \in Conns, AcceptConn(c) \/ HandlerUnstarted(c)  PROVE DataInv'
    BY <1>3, TakesOK DEF AcceptConn, HandlerUnstarted
  <1>4. CASE AcceptFails
    <2>1. /\ accept = "accept" /\ accept' \in {"failed", "stopped"}
          /\ conn' \in {conn, Reset(conn)} /\ UNCHANGED <<main, dataStop, listener>>
      BY <1>4 DEF AcceptFails, Listening, OnError
    <2>2. ListenerInv'  BY <2>1 DEF DataInv, ListenerInv, ThreadEnded
    <2>3. /\ conn' \in [Conns -> Connection]
          /\ \A c \in Conns : conn'[c].late = conn[c].late /\ ServedOK(conn'[c])
      BY <2>1, ResetFacts DEF DataInv, ConnsInv
    <2>4. ConnsInv'  BY <2>1, <2>3 DEF ConnsInv, ServedOK
    <2>5. LateInv'  BY <2>1, <2>3 DEF DataInv, LateInv
    <2> QED  BY <2>2, <2>4, <2>5 DEF DataInv
  <1> QED  BY <1>1, <1>2, <1>3, <1>4

\* So do all the steps of the data plane.
LEMMA DataKeepsData ==
    ASSUME MainOK, DataInv, DataSteps
    PROVE  DataInv'
  BY AcceptKeepsData, ConnKeepsData DEF DataSteps

-----------------------------------------------------------------------------
(* The invariant, and what follows from it.                                *)

\* Every step keeps the three parts.
LEMMA LifeNextInv == LifeInv /\ [LifeNext]_lifeVars => LifeInv'
  <1> SUFFICES ASSUME LifeInv, [LifeNext]_lifeVars PROVE LifeInv'  OBVIOUS
  <1> USE DEF LifeInv
  <1>1. CASE Main  BY <1>1, MainKeepsPlace, MainKeepsControl, MainKeepsData
  <1>2. CASE ControlSteps
    <2>1. UNCHANGED <<embedded, main, loaded, dataVars>>
      BY <1>2 DEF ControlSteps, Control, ControlBegin, ControlTop, ControlGet, ControlRecv, ControlRecvFails,
                  ControlAnswer, ControlSend, SendQuery, ReplyTaken
    <2>2. MainOK'  BY <2>1 DEF MainOK
    <2>3. ControlInv'  BY <1>2, ControlKeepsControl
    <2>4. DataInv'  BY <2>1, DataFrame
    <2> QED  BY <2>2, <2>3, <2>4
  <1>3. CASE DataSteps
    <2>1. UNCHANGED <<embedded, main, loaded, controlVars>>
      BY <1>3 DEF DataSteps, AcceptBegin, AcceptTop, AcceptGet, AcceptFails, AcceptConn,
                  HandlerUnstarted, Takes, Handling, HandlerTop, HandlerRecv, HandlerEof,
                  HandlerRead, ConnectTo, SendRequest, CloseConn, ConnStep
    <2>2. MainOK'  BY <2>1 DEF MainOK
    <2>3. ControlInv'  BY <2>1, ControlFrame
    <2>4. DataInv'  BY <1>3, DataKeepsData
    <2> QED  BY <2>2, <2>3, <2>4
  <1>4. CASE UNCHANGED lifeVars
    BY <1>4, ControlFrame, DataFrame DEF lifeVars, MainOK
  <1> QED  BY <1>1, <1>2, <1>3, <1>4 DEF LifeNext, ControlSteps, DataSteps

\* The two halves hold throughout, however the threads of server.py and
\* transfer_backend.py take turns.
THEOREM LifeInductiveInvariant == LifeSpec => []LifeInv
  BY LifeInitInv, LifeNextInv, PTL DEF LifeSpec

\* Each thread exists from the moment it is started, and the control thread of
\* server.py holds one query at most, while it answers it.
THEOREM LifeTypeCorrect == LifeSpec => []LifeTypeOK
  <1>1. LifeInv => LifeTypeOK
    <2> SUFFICES ASSUME LifeInv PROVE LifeTypeOK  OBVIOUS
    <2>1. Cardinality(InHand) <= 1  BY AtMostOne DEF LifeInv, ControlInv
    <2> QED
      BY <2>1 DEF LifeInv, MainOK, ControlInv, DataInv, ListenerInv, ConnsInv, Connection,
                  LifeTypeOK, ThreadEnded
  <1> QED  BY <1>1, LifeInductiveInvariant, PTL

\* Before stop() the control loop of server.py ends exactly when a query arrives that
\* cannot be unpickled, for any set of queries.
THEOREM ControlThreadLives == LifeSpec => []BadRequestEndsIt
  <1>1. LifeInv => BadRequestEndsIt  BY DEF LifeInv, ControlInv
  <1> QED  BY <1>1, LifeInductiveInvariant, PTL

\* What the property says of one step.
StepFailsForCause ==
    /\ ~Ends(control, "failed")
    /\ Ends(accept, "failed") => listener = "open" /\ ~dataStop
    /\ Ends(control, "died") =>
           \/ socket = "unset"
           \/ \E q \in Undecodable : query[q] = "queued" /\ query'[q] = "undecodable"
    /\ Ends(accept, "died") =>
           \/ listener = "unset"
           \/ \E c \in Conns : conn[c].handler = "backlog" /\ conn'[c].handler = "unserved"

\* A connection that is taken for a handler that does not start is unserved, even when
\* the rest of the backlog is reset.
LEMMA UnservedShows ==
    ASSUME DataInv, NEW c \in Conns, HandlerUnstarted(c)
    PROVE  conn[c].handler = "backlog" /\ conn'[c].handler = "unserved"
  <1> DEFINE r == [conn[c] EXCEPT !.handler = "unserved", !.late = dataStop]
             accepted == [conn EXCEPT ![c] = r]
  <1>1. conn[c].handler = "backlog" /\ conn' \in {accepted, Reset(accepted)}
    BY DEF HandlerUnstarted, Takes, Listening
  <1>2. r.handler = "unserved"  BY DEF DataInv, ConnsInv, Connection
  <1>3. accepted[c] = r  BY DEF DataInv, ConnsInv
  <1>4. Reset(accepted)[c] = r  BY <1>2, <1>3 DEF Reset
  <1> QED  BY <1>1, <1>2, <1>3, <1>4

\* A step of the control plane ends its thread for one of the reasons named.
LEMMA ControlEndsForCause ==
    ASSUME LifeInv, ControlSteps
    PROVE  StepFailsForCause
  <1> USE DEF ControlGoes, OnError, Ends
  <1>1. UNCHANGED accept /\ control \in ThreadEnded \cup
            {"none", "begin", "top", "get", "recv", "answer", "send"}
        /\ (socket \in {"closed", "unset"} => _stop)
        /\ socket \in {"none", "open", "closed", "unset"}
        /\ (control # "none" => socket # "none")
    BY DEF LifeInv, ControlInv, ControlSteps, Control, ControlBegin, ControlTop, ControlGet,
           ControlRecv, ControlRecvFails, ControlAnswer, ControlSend, SendQuery, ReplyTaken,
           dataVars
  <1>2. control' # "failed" \/ control' = control
    BY <1>1 DEF ControlSteps, Control, ControlBegin, ControlTop, ControlGet, ControlRecv,
                ControlRecvFails, ControlAnswer, ControlSend, SendQuery, ReplyTaken
  <1>3. ASSUME control' = "died", control # "died"
        PROVE  \/ socket = "unset"
               \/ \E q \in Undecodable : query[q] = "queued" /\ query'[q] = "undecodable"
    <2>1. ASSUME NEW q \in Queries, ControlRecv(q)
          PROVE  q \in Undecodable /\ query[q] = "queued" /\ query'[q] = "undecodable"
      BY <1>3, <2>1 DEF ControlRecv, LifeInv, ControlInv
    <2> QED
      BY <1>1, <1>3, <2>1 DEF ControlSteps, Control, ControlBegin, ControlTop, ControlGet,
                         ControlRecvFails, ControlAnswer, ControlSend, SendQuery, ReplyTaken
  <1> QED  BY <1>1, <1>2, <1>3 DEF StepFailsForCause

\* So does a step of the data plane.
LEMMA AcceptEndsForCause ==
    ASSUME LifeInv, DataSteps
    PROVE  StepFailsForCause
  <1> USE DEF AcceptGoes, OnError, Ends
  <1>1. UNCHANGED control
    BY DEF DataSteps, AcceptBegin, AcceptTop, AcceptGet, AcceptFails, AcceptConn,
           HandlerUnstarted, Takes, Handling, HandlerTop, HandlerRecv, HandlerEof,
           HandlerRead, ConnectTo, SendRequest, CloseConn, ConnStep, controlVars
  <1>2. /\ listener \in {"none", "open", "closed", "unset"}
        /\ accept # "none" => listener # "none"
        /\ listener \in {"closed", "unset"} => dataStop
    BY DEF LifeInv, DataInv, ListenerInv
  <1>3. ASSUME accept' = "failed", accept # "failed"  PROVE listener = "open" /\ ~dataStop
    BY <1>2, <1>3 DEF DataSteps, AcceptBegin, AcceptTop, AcceptGet, AcceptFails, AcceptConn,
                      HandlerUnstarted, Handling, HandlerTop, HandlerRecv, HandlerEof,
                      HandlerRead, ConnectTo, SendRequest, CloseConn, ConnStep
  <1>4. ASSUME accept' = "died", accept # "died"
        PROVE  \/ listener = "unset"
               \/ \E c \in Conns : conn[c].handler = "backlog" /\ conn'[c].handler = "unserved"
    <2>1. ASSUME NEW c \in Conns, HandlerUnstarted(c)
          PROVE  conn[c].handler = "backlog" /\ conn'[c].handler = "unserved"
      BY <2>1, UnservedShows DEF LifeInv
    <2> QED
      BY <1>2, <1>4, <2>1 DEF DataSteps, AcceptBegin, AcceptTop, AcceptGet, AcceptFails,
                         AcceptConn, Handling, HandlerTop, HandlerRecv, HandlerEof,
                         HandlerRead, ConnectTo, SendRequest, CloseConn, ConnStep
  <1> QED  BY <1>1, <1>3, <1>4 DEF StepFailsForCause

\* The main thread ends no other.
LEMMA MainEndsNobody ==
    ASSUME Main
    PROVE  StepFailsForCause
  <1>1. control' = control \/ control' = "begin"
    BY DEF Main, MainStops, StartData, StartControl, Load, StartFails, StopAsked, JoinReturns,
           SetStop, CloseSocket, UnsetSocket, Terminate, SetDataStop, CloseListener,
           UnsetListener, Drop, controlVars
  <1>2. accept' = accept \/ accept' = "begin"
    BY DEF Main, MainStops, StartData, StartControl, Load, StartFails, StopAsked, JoinReturns,
           SetStop, CloseSocket, UnsetSocket, Terminate, SetDataStop, CloseListener,
           UnsetListener, Drop, dataVars
  <1> QED  BY <1>1, <1>2 DEF StepFailsForCause, Ends

\* Whatever interleaving of stop() and the loops: a loop logs a failure only of what
\* is in use, and dies only of a bad request, of a handler that cannot be started, or of
\* an attribute that stop() has unset.
THEOREM StopIsUnderstood == LifeSpec => FailuresAreReal
  <1>1. LifeInv /\ [LifeNext]_lifeVars => [StepFailsForCause]_lifeVars
    <2> SUFFICES ASSUME LifeInv, LifeNext  PROVE StepFailsForCause
      OBVIOUS
    <2> QED
      BY ControlEndsForCause, AcceptEndsForCause, MainEndsNobody
      DEF LifeNext, ControlSteps, DataSteps
  <1>2. FailuresAreReal <=> [][StepFailsForCause]_lifeVars
    BY PTL DEF FailuresAreReal, StepFailsForCause
  <1> QED  BY <1>1, <1>2, LifeInductiveInvariant, PTL DEF LifeSpec

\* For any number of connections: one is accepted late, unserved, and each older one
\* is served one read more, which alone may come after the pool.
THEOREM StopBoundsService == LifeSpec => []StopReachesConnections
  <1>1. LifeInv => StopReachesConnections
    <2> SUFFICES ASSUME LifeInv PROVE StopReachesConnections  OBVIOUS
    <2>1. Cardinality({c \in Conns : conn[c].late}) <= 1
      BY AtMostOne DEF LifeInv, DataInv, LateInv
    <2> QED
      BY <2>1 DEF LifeInv, DataInv, ConnsInv, ServedOK, StopReachesConnections
  <1> QED  BY <1>1, LifeInductiveInvariant, PTL
==============================================================================
