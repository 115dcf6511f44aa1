------------------------------- MODULE TcpLink ------------------------------
(***************************************************************************)
(* tcp_link.py: the server end of a link and the clients that dial it.     *)
(* Each end has a receive thread, which also connects or accepts, a        *)
(* transmit thread and a queue; the kernel, below them, keeps connections, *)
(* the bytes on their way and the backlog of the listening socket.         *)
(*                                                                         *)
(* A frame is two pieces on the wire; recv may return half of one, or      *)
(* several at once.  Delays are left out: a step that waits may come late. *)
(***************************************************************************)
EXTENDS Integers, Sequences

CONSTANTS
    Server, Clients,
    Conns,           \* connections (sockets); closed ones are used again
    None,
    QueueSize,       \* tx_queue_size
    Backlog,         \* connections the kernel holds for accept()
    Stoppable,       \* ends on which stop() may be called
    MaxFrames,       \* MaxFrames[e]: frames the mesh node sends at e
    MaxFaults        \* connections broken by the network, and calls of stop()

ASSUME EndAssumption   == /\ Server \notin Clients
                          /\ Stoppable \subseteq Clients \cup {Server}
                          /\ None \notin Conns
ASSUME BoundAssumption == /\ QueueSize \in Nat \ {0} /\ Backlog \in Nat \ {0}
                          /\ MaxFrames \in [Clients \cup {Server} -> Nat]
                          /\ MaxFaults \in Nat

Ends == Clients \cup {Server}

VARIABLES
    running, connected, sock,   \* _running, _connected, _sock of each end
    queue,                      \* _tx_queue
    buffer,                     \* _rx_buffer
    rx,                         \* receive thread: where it is, and its sockets
    tx,                         \* transmit thread: where it is, its frame and socket
    stopping,                   \* ends inside stop()
    listening, backlog,         \* _srv_sock
    conn,                       \* conn[c]: who made connection c, the ends that have not
                                \* closed it, what each has still to receive, and
                                \* whether the network has broken it
    sent,                       \* sent[e]: frames given to send() so far
    received,                   \* received[e]: frames given to rx_callback
    faults,
    late,                       \* ends where stop() gave up waiting for the receive thread
    trusted                     \* the clients configured with the server's password

flags   == <<running, stopping>>
link    == <<connected, sock>>
kernel  == <<listening, backlog>>
history == <<sent, received, faults, late, trusted>>
vars    == <<flags, link, queue, buffer, rx, tx, kernel, conn, history>>

-----------------------------------------------------------------------------
(* Sockets.                                                                *)

\* What travels: the bytes of the handshake, and the two pieces of each frame.
Password == <<"password">>
Ok       == <<"ok">>
Bad      == <<"bad">>
Pieces(f) == <<<<f, 1>>, <<f, 2>>>>

NoConn == [owner |-> None, open |-> {}, wire |-> [e \in Ends |-> <<>>], broken |-> FALSE]

\* A new connection, with the password of the client on its way.
Dialled(e) == [owner |-> e, open |-> {e, Server}, broken |-> FALSE,
               wire |-> [x \in Ends |-> IF x = Server THEN <<Password>> ELSE <<>>]]

Peer(e, c) == IF e = Server THEN conn[c].owner ELSE Server

Usable(e, c) == e \in conn[c].open /\ ~conn[c].broken

\* What e has still to receive on c.
Incoming(e, c) == conn[c].wire[e]

\* e hangs up.  What it has not received is lost.
HungUp(k, e) == IF k.open \subseteq {e} THEN NoConn
                ELSE [k EXCEPT !.open = @ \ {e}, !.wire[e] = <<>>]

\* The connections cs are closed by e.  (None is not one.)
Close(conns, e, cs) == [c \in Conns |-> IF c \in cs THEN HungUp(conns[c], e) ELSE conns[c]]

\* Bytes for an end that has closed are lost.
Transmit(e, c, bytes) ==
    IF Peer(e, c) \in conn[c].open
    THEN [conn EXCEPT ![c].wire[Peer(e, c)] = @ \o bytes]
    ELSE conn

\* A connection nobody refers to any more; they are all alike.
Free(c) == /\ conn[c] = NoConn
           /\ \A e \in Ends : c \notin {sock[e], rx[e].cand, rx[e].sock, tx[e].sock}
Unused == LET free == {c \in Conns : Free(c)} IN
          IF free = {} THEN {} ELSE {CHOOSE c \in free : TRUE}

Rx(e, pc, cand, s) == rx' = [rx EXCEPT ![e] = [pc |-> pc, cand |-> cand, sock |-> s]]
Tx(e, pc, f, s) == tx' = [tx EXCEPT ![e] = [pc |-> pc, frame |-> f, sock |-> s]]

\* Mutant: the old socket is not closed.
Install_NoClose(e, c, conns) ==
    /\ conn' = conns
    /\ sock' = [sock EXCEPT ![e] = c]
    /\ buffer' = [buffer EXCEPT ![e] = <<>>]
    /\ connected' = [connected EXCEPT ![e] = TRUE]

\* c becomes the connection of the link, under the lock.
Install(e, c, conns) ==
    /\ conn' = Close(conns, e, {sock[e]})
    /\ sock' = [sock EXCEPT ![e] = c]
    /\ buffer' = [buffer EXCEPT ![e] = <<>>]
    /\ connected' = [connected EXCEPT ![e] = TRUE]

\* _drop_connection: it closes the socket that is current when it gets the lock.
DropConnection(e, conns) ==
    /\ conn' = Close(conns, e, {sock[e]})
    /\ sock' = [sock EXCEPT ![e] = None]
    /\ connected' = [connected EXCEPT ![e] = FALSE]

\* Both ends have been started.
Init ==
    /\ running = [e \in Ends |-> TRUE] /\ stopping = {}
    /\ connected = [e \in Ends |-> FALSE]
    /\ sock = [e \in Ends |-> None]
    /\ queue = [e \in Ends |-> <<>>]
    /\ buffer = [e \in Ends |-> <<>>]
    /\ rx = [e \in Ends |-> [pc |-> "top", cand |-> None, sock |-> None]]
    /\ tx = [e \in Ends |-> [pc |-> "get", frame |-> 0, sock |-> None]]
    /\ listening = FALSE /\ backlog = <<>>
    /\ conn = [c \in Conns |-> NoConn]
    /\ sent = [e \in Ends |-> 0]
    /\ received = [e \in Ends |-> <<>>]
    /\ faults = 0 /\ late = {}
    /\ trusted \in SUBSET Clients

-----------------------------------------------------------------------------
(* The receive thread: connecting.                                         *)

\* The head of _rx_loop.
RxTop(e) ==
    /\ rx[e].pc = "top"
    /\ Rx(e, IF ~running[e] THEN "done" ELSE IF connected[e] THEN "read" ELSE "connect",
          None, None)
    /\ UNCHANGED <<flags, link, queue, buffer, tx, kernel, conn, history>>

\* _connect_client_with_backoff: the kernel connects while there is room in the
\* backlog; the password follows at once.  The socket of a failed attempt is
\* given up only now.  (A failed attempt changes nothing but the delay.)
Connect(e) ==
    /\ e \in Clients /\ rx[e].pc = "connect"
    /\ running[e] /\ ~connected[e]
    /\ listening /\ Len(backlog) < Backlog
    /\ \E c \in Unused :
         /\ conn' = [Close(conn, e, {rx[e].cand}) EXCEPT ![c] = Dialled(e)]
         /\ backlog' = Append(backlog, c)
         /\ Rx(e, "answer", c, None)
    /\ UNCHANGED <<flags, link, queue, buffer, tx, listening, history>>

\* The loops of _connect_client_with_backoff and _accept_server end when the link
\* was stopped, the latter also when the listening socket was closed.
ConnectReturns(e) ==
    /\ \/ e \in Clients /\ rx[e].pc = "connect"
       \/ e = Server /\ rx[e].pc = "accept"
    /\ ~running[e] \/ connected[e] \/ (e = Server /\ ~listening)
    /\ conn' = Close(conn, e, {rx[e].cand})
    /\ Rx(e, "read", None, None)
    /\ UNCHANGED <<flags, link, queue, buffer, tx, kernel, history>>

\* _client_handshake gets its answer.
Answered(e, answer) ==
    /\ rx[e].pc = "answer"
    /\ Usable(e, rx[e].cand)
    /\ Incoming(e, rx[e].cand) # <<>> /\ Head(Incoming(e, rx[e].cand)) = answer

HandshakeOk(e) ==
    LET c == rx[e].cand IN
    /\ Answered(e, Ok)
    /\ Install(e, c, [conn EXCEPT ![c].wire[e] = Tail(@)])
    /\ Rx(e, "read", None, None)
    /\ UNCHANGED <<flags, queue, tx, kernel, history>>

\* A wrong password: stop() is called on the receive thread itself, where join
\* raises and ends the thread before anything is closed.
HandshakeRejected(e) ==
    /\ Answered(e, Bad)
    /\ running' = [running EXCEPT ![e] = FALSE]
    /\ conn' = Close(conn, e, {rx[e].cand})
    /\ Rx(e, "done", None, None)
    /\ UNCHANGED <<stopping, link, queue, buffer, tx, kernel, history>>

\* A timeout, or the end of the connection.
HandshakeFails(e) ==
    /\ rx[e].pc = "answer"
    /\ ~Usable(e, rx[e].cand) \/ Incoming(e, rx[e].cand) = <<>>
    /\ Rx(e, "connect", rx[e].cand, None)
    /\ UNCHANGED <<flags, link, queue, buffer, tx, kernel, conn, history>>

-----------------------------------------------------------------------------
(* The receive thread: accepting.                                          *)

\* _ensure_server_listener.  (When bind fails the loop comes round again.)
Listen ==
    /\ rx[Server].pc = "connect"
    /\ listening' = TRUE
    /\ Rx(Server, "accept", None, None)
    /\ UNCHANGED <<flags, link, queue, buffer, tx, backlog, conn, history>>

\* Mutant: any password will do.
PasswordOk_Any(c) == TRUE

PasswordOk(c) == conn[c].owner \in trusted

\* _accept_server and _server_handshake.  The password of a client that hung up
\* can still be read and answered, if the kernel has not noticed; a broken
\* connection has no password.
Accept ==
    LET c == Head(backlog) IN
    /\ rx[Server].pc = "accept"
    /\ running[Server] /\ ~connected[Server]
    /\ listening /\ backlog # <<>>
    /\ backlog' = Tail(backlog)
    /\ \/ /\ ~conn[c].broken /\ PasswordOk(c)
          /\ conn' = [Transmit(Server, c, <<Ok>>) EXCEPT ![c].wire[Server] = Tail(@)]
          /\ Rx(Server, "install", c, None)
       \/ /\ ~conn[c].broken /\ ~PasswordOk(c)
          /\ conn' = Close(Transmit(Server, c, <<Bad>>), Server, {c})
          /\ UNCHANGED rx
       \/ /\ conn[c].broken \/ conn[c].owner \notin conn[c].open
          /\ conn' = Close(conn, Server, {c})
          /\ UNCHANGED rx
    /\ UNCHANGED <<flags, link, queue, buffer, tx, listening, history>>

InstallAccepted ==
    /\ rx[Server].pc = "install"
    /\ Install(Server, rx[Server].cand, conn)
    /\ Rx(Server, "read", None, None)
    /\ UNCHANGED <<flags, queue, tx, kernel, history>>

-----------------------------------------------------------------------------
(* The receive thread: receiving.                                          *)

\* The socket is looked up under the lock and used after it.
RxSocket(e) ==
    /\ rx[e].pc = "read"
    /\ \/ /\ sock[e] = None
          /\ connected' = [connected EXCEPT ![e] = FALSE]
          /\ Rx(e, "top", None, None)
       \/ /\ sock[e] # None
          /\ Rx(e, "recv", None, sock[e])
          /\ UNCHANGED connected
    /\ UNCHANGED <<flags, sock, queue, buffer, tx, kernel, conn, history>>

\* Mutant: half a frame is thrown away.
RestOf_Lost(b) == <<>>

\* _drain_rx_buffer: a frame is as long as its first bytes say, whoever wrote the rest.
WholeFrames(b) == [i \in 1 .. Len(b) \div 2 |-> <<b[2 * i - 1], b[2 * i]>>]
RestOf(b) == SubSeq(b, 2 * (Len(b) \div 2) + 1, Len(b))

\* recv returns what has arrived, or a part of it.
RecvData(e) ==
    LET c == rx[e].sock IN
    /\ rx[e].pc = "recv"
    /\ Usable(e, c)
    /\ \E k \in 1 .. Len(Incoming(e, c)) :
         LET b == buffer[e] \o SubSeq(Incoming(e, c), 1, k) IN
         /\ conn' = [conn EXCEPT ![c].wire[e] = SubSeq(@, k + 1, Len(@))]
         /\ received' = [received EXCEPT ![e] = @ \o WholeFrames(b)]
         /\ buffer' = [buffer EXCEPT ![e] = RestOf(b)]
    /\ Rx(e, "top", None, None)
    /\ UNCHANGED <<flags, link, queue, tx, kernel, sent, faults, late, trusted>>

\* Mutant: an empty chunk is taken for a timeout.
RecvFails_NoEof(e, c) == ~Usable(e, c)

\* recv raises, or returns nothing because the peer has closed.
RecvFails(e, c) == ~Usable(e, c) \/ (Incoming(e, c) = <<>> /\ Peer(e, c) \notin conn[c].open)

RecvTimeout(e) ==
    /\ rx[e].pc = "recv"
    /\ ~RecvFails(e, rx[e].sock) /\ Incoming(e, rx[e].sock) = <<>>
    /\ Rx(e, "top", None, None)
    /\ UNCHANGED <<flags, link, queue, buffer, tx, kernel, conn, history>>

RecvError(e) ==
    /\ rx[e].pc = "recv"
    /\ RecvFails(e, rx[e].sock)
    /\ DropConnection(e, conn)
    /\ Rx(e, "top", None, None)
    /\ UNCHANGED <<flags, queue, buffer, tx, kernel, history>>

-----------------------------------------------------------------------------
(* send(), and the transmit thread.                                        *)

\* A frame for a full queue is dropped.
Enqueue(q, f) == IF Len(q) < QueueSize THEN Append(q, f) ELSE q

\* The mesh node sends its next frame.
Send(e) ==
    /\ running[e]
    /\ sent[e] < MaxFrames[e]
    /\ sent' = [sent EXCEPT ![e] = @ + 1]
    /\ queue' = [queue EXCEPT ![e] = Enqueue(@, sent[e] + 1)]
    /\ UNCHANGED <<flags, link, buffer, rx, tx, kernel, conn, received, faults, late, trusted>>

\* Back to the head of _tx_loop, and on to the next get() if the link still runs.
TxAgain(e) == Tx(e, IF running[e] THEN "get" ELSE "done", 0, None)

\* A frame for a link that is down is dropped.
TxGet(e) ==
    /\ tx[e].pc = "get"
    /\ queue[e] # <<>>
    /\ queue' = [queue EXCEPT ![e] = Tail(@)]
    /\ IF connected[e] THEN Tx(e, "socket", Head(queue[e]), None) ELSE TxAgain(e)
    /\ UNCHANGED <<flags, link, buffer, rx, kernel, conn, history>>

TxSocket(e) ==
    /\ tx[e].pc = "socket"
    /\ IF sock[e] = None THEN Tx(e, "clear", 0, None) ELSE Tx(e, "send", tx[e].frame, sock[e])
    /\ UNCHANGED <<flags, link, queue, buffer, rx, kernel, conn, history>>

\* There was no socket; the flag is cleared whatever happened since.
TxClear(e) ==
    /\ tx[e].pc = "clear"
    /\ connected' = [connected EXCEPT ![e] = FALSE]
    /\ TxAgain(e)
    /\ UNCHANGED <<flags, sock, queue, buffer, rx, kernel, conn, history>>

TxSend(e) ==
    /\ tx[e].pc = "send"
    /\ Usable(e, tx[e].sock)
    /\ conn' = Transmit(e, tx[e].sock, Pieces(tx[e].frame))
    /\ TxAgain(e)
    /\ UNCHANGED <<flags, link, queue, buffer, rx, kernel, history>>

\* sendall raises, perhaps in the middle of the frame.
TxError(e) ==
    /\ tx[e].pc = "send"
    /\ \/ DropConnection(e, conn)
       \/ /\ Usable(e, tx[e].sock)
          /\ DropConnection(e, Transmit(e, tx[e].sock, SubSeq(Pieces(tx[e].frame), 1, 1)))
    /\ TxAgain(e)
    /\ UNCHANGED <<flags, queue, buffer, rx, kernel, history>>

\* The queue is empty; stop() wakes the thread up.
TxEnds(e) ==
    /\ tx[e].pc = "get"
    /\ ~running[e] /\ queue[e] = <<>>
    /\ Tx(e, "done", 0, None)
    /\ UNCHANGED <<flags, link, queue, buffer, rx, kernel, conn, history>>

-----------------------------------------------------------------------------
(* stop(), and the network.                                                *)

\* stop(), called by the owner of the link.
StopBegins(e) ==
    /\ e \in Stoppable /\ running[e]
    /\ faults < MaxFaults
    /\ faults' = faults + 1
    /\ running' = [running EXCEPT ![e] = FALSE]
    /\ stopping' = stopping \cup {e}
    /\ UNCHANGED <<link, queue, buffer, rx, tx, kernel, conn, sent, received, late, trusted>>

\* What stop() closes once the joins are over; the kernel refuses those who wait
\* for an accept().
\* Mutant: the socket is forgotten, not closed.
ClosedByStop_NotSocket(e) ==
    IF e = Server THEN {backlog[i] : i \in DOMAIN backlog} ELSE {}

ClosedByStop(e) ==
    {sock[e]} \cup (IF e = Server THEN {backlog[i] : i \in DOMAIN backlog} ELSE {})

\* The joins are over, for the threads have ended or the time is up.
StopEnds(e) ==
    /\ e \in stopping
    /\ stopping' = stopping \ {e}
    /\ conn' = Close(conn, e, ClosedByStop(e))
    /\ sock' = [sock EXCEPT ![e] = None]
    /\ connected' = [connected EXCEPT ![e] = FALSE]
    /\ IF e = Server THEN listening' = FALSE /\ backlog' = <<>> ELSE UNCHANGED kernel
    /\ late' = IF rx[e].pc = "done" THEN late ELSE late \cup {e}
    /\ UNCHANGED <<running, queue, buffer, rx, tx, sent, received, faults, trusted>>

\* The network breaks a connection; both ends get errors from then on.
Reset(c) ==
    /\ faults < MaxFaults
    /\ conn[c] # NoConn /\ ~conn[c].broken
    /\ faults' = faults + 1
    /\ conn' = [conn EXCEPT ![c].broken = TRUE, ![c].wire = [e \in Ends |-> <<>>]]
    /\ UNCHANGED <<flags, link, queue, buffer, rx, tx, kernel, sent, received, late, trusted>>

RxStep(e) ==
    \/ RxTop(e) \/ RxSocket(e) \/ RecvData(e) \/ RecvTimeout(e) \/ RecvError(e)
    \/ Connect(e) \/ ConnectReturns(e)
    \/ HandshakeOk(e) \/ HandshakeRejected(e) \/ HandshakeFails(e)
    \/ e = Server /\ (Listen \/ Accept \/ InstallAccepted)

TxStep(e) == TxGet(e) \/ TxSocket(e) \/ TxClear(e) \/ TxSend(e) \/ TxError(e) \/ TxEnds(e)

Next ==
    \/ \E e \in Ends : RxStep(e) \/ TxStep(e) \/ Send(e) \/ StopBegins(e) \/ StopEnds(e)
    \/ \E c \in Conns : Reset(c)

Spec == Init /\ [][Next]_vars

\* The threads run.
Fairness == \A e \in Ends : WF_vars(RxStep(e)) /\ WF_vars(TxStep(e))

FairSpec == Spec /\ Fairness

-----------------------------------------------------------------------------
(* Properties.                                                             *)

\* No frame travels on a connection that did not give the server's password.
FramesOnlyAfterHandshake ==
    \A c \in Conns, e \in Ends : \A i \in DOMAIN Incoming(e, c) :
        Incoming(e, c)[i] \notin {Password, Ok, Bad} => conn[c].owner \in trusted

\* "Server accepts ONE connection at a time": what it has accepted and not closed
\* is its connection or about to become it, although the transmit thread closes
\* sockets and clears the flag at any time.
OneConnection ==
    \A c \in Conns : Server \in conn[c].open =>
        \/ c \in {sock[Server], rx[Server].cand}
        \/ \E i \in DOMAIN backlog : backlog[i] = c

\* A stopped link keeps no connection, which would occupy the other end for ever,
\* unless stop() gave up waiting: its 5 s are shorter than a connection attempt and
\* a handshake, and what those bring afterwards is installed and never closed.
ReleasedByStop ==
    \A e \in Ends : rx[e].pc = "done" /\ e \notin stopping \cup late
                        => \A c \in Conns : e \notin conn[c].open

\* The link implements FrameLink from the server to the clients: frames arrive
\* whole, once and in the order of send(), however recv cuts the stream and
\* wherever a connection ends; nothing of an old connection is joined to a frame
\* of a new one.  (A mixture is number 0, which was never sent.)
Numbers(r) == [i \in DOMAIN r |-> IF r[i] = Pieces(r[i][1][1]) THEN r[i][1][1] ELSE 0]
Downlink == INSTANCE FrameLink WITH
                Senders <- {Server}, Receivers <- Clients,
                sent <- [s \in {Server} |-> sent[s]],
                delivered <- [s \in {Server} |-> [e \in Clients |-> Numbers(received[e])]],
                ordered <- TRUE
IsFrameLink == Downlink!Spec

\* A link comes up, and comes up again when it is lost, while both ends run and
\* the client's patience outlasts a server that has no other connection; unless a
\* transmit thread meets the moment between a lost connection and the next and
\* clears the flag of the latter.
Linked(e) == /\ connected[e] /\ connected[Server]
             /\ sock[e] = sock[Server] /\ ~conn[sock[e]].broken
Occupied == LET c == sock[Server] IN
            connected[Server] /\ ~conn[c].broken /\ conn[c].owner \in conn[c].open
ComesBack ==
    \A e \in Clients :
        (/\ e \in trusted
         /\ [](running[e] /\ running[Server])
         /\ [](tx[e].pc # "clear" /\ tx[Server].pc # "clear")
         /\ <>[][HandshakeFails(e) => Occupied \/ ~Usable(e, rx[e].cand)]_vars)
        => <>[]Linked(e)
=============================================================================
