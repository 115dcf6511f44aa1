----------------------------- MODULE ArdopLink ------------------------------
(***************************************************************************)
(* ardop_link.py: the links of some stations to one modem, and the threads *)
(* of their mesh nodes that call send(), directly or, with a TCP link      *)
(* behind the ARDOP link, through multiplex_link.py.                       *)
(*                                                                         *)
(* A frame travels as two pieces; recv may return half of one, or several  *)
(* at once.  Delays are left out: a step that waits may come late.         *)
(***************************************************************************)
EXTENDS Integers, Sequences

CONSTANTS
    Stations,
    Callers,         \* threads of a mesh node that send
    Conns,           \* connections (sockets); closed ones are used again
    None,
    QueueSize,       \* tx_queue_size
    MaxFrames,       \* MaxFrames[s]: calls of send() at s
    Options          \* the test benches: what is switched on, and what may happen

ASSUME ConnAssumption  == None \notin Conns
ASSUME BoundAssumption == /\ QueueSize \in Nat \ {0}
                          /\ MaxFrames \in [Stations -> Nat]

VARIABLES
    options,                    \* options.on: the stations that are started; options.faults:
                                \* bound on connections broken, sends that time out,
                                \* callbacks that crash and calls of stop()
    running, connected, sock,   \* _running, _connected, _sock of each link
    queue,                      \* _tx_queue
    buffer,                     \* _rx_buffer
    rx, tx,                     \* the two threads: where they are, what they hold
    stopping,                   \* links inside stop()
    late,                       \* history: links where stop() gave up on the RX thread
    caller,                     \* caller[s][t]: where thread t of s is in its fan-out
    calls,                      \* calls[s]: calls of send() so far
    conn,                       \* conn[c]: who made connection c, the ends that have not
                                \* closed it, the pieces on their way up (to the modem)
                                \* and down, and whether it is broken
    listening,                  \* does the modem accept connections?
    sent,                       \* sent[s]: frames queued so far
    received,                   \* received[s]: frames given to rx_callback
    faults

threads == <<rx, tx>>
ends    == <<running, stopping, late>>
node    == <<caller, calls>>
link    == <<connected, sock>>
vars    == <<ends, link, queue, buffer, threads, node, conn, listening, sent, received, faults>>

-----------------------------------------------------------------------------
(* Sockets.                                                                *)

\* Frame number n of s; _tx_loop writes the length and the payload.
Frame(s, n) == [src |-> s, no |-> n]
Pieces(f) == <<<<f, 1>>, <<f, 2>>>>

NoConn == [owner |-> None, open |-> {}, up |-> <<>>, down |-> <<>>, broken |-> FALSE]

Dialled(s) == [NoConn EXCEPT !.owner = s, !.open = {"link", "modem"}]

Usable(end, c) == end \in conn[c].open /\ ~conn[c].broken

\* One end hangs up, and what it has not read is lost.
HungUp(k, end) ==
    IF k.open \subseteq {end} THEN NoConn
    ELSE IF end = "link" THEN [k EXCEPT !.open = @ \ {end}, !.down = <<>>]
    ELSE                      [k EXCEPT !.open = @ \ {end}, !.up = <<>>]

Close(conns, end, cs) == [c \in Conns |-> IF c \in cs THEN HungUp(conns[c], end) ELSE conns[c]]

\* Pieces for a modem that has closed are lost.
Up(c, pieces) == IF "modem" \in conn[c].open THEN [conn EXCEPT ![c].up = @ \o pieces] ELSE conn

Fault == faults < options.faults /\ faults' = faults + 1

Rx(s, pc, c) == rx' = [rx EXCEPT ![s] = [pc |-> pc, sock |-> c]]
Tx(s, pc, f, c) == tx' = [tx EXCEPT ![s] = [pc |-> pc, frame |-> f, sock |-> c]]
At(s, t, pc) == caller' = [caller EXCEPT ![s][t] = pc]

\* Mutant: the socket is forgotten, not closed.
DropSocket_NoClose(s, conns) ==
    /\ conn' = conns
    /\ sock' = [sock EXCEPT ![s] = None]
    /\ connected' = [connected EXCEPT ![s] = FALSE]

\* The current socket, whichever it is, is closed under the lock.
DropSocket(s, conns) ==
    /\ conn' = Close(conns, "link", {sock[s]})
    /\ sock' = [sock EXCEPT ![s] = None]
    /\ connected' = [connected EXCEPT ![s] = FALSE]

LinkInit ==
    /\ options \in Options
    /\ running = [s \in Stations |-> s \in options.on] /\ stopping = {} /\ late = {}
    /\ connected = [s \in Stations |-> FALSE]
    /\ sock = [s \in Stations |-> None]
    /\ queue = [s \in Stations |-> <<>>]
    /\ buffer = [s \in Stations |-> <<>>]
    /\ rx = [s \in Stations |-> [pc |-> IF running[s] THEN "top" ELSE "done", sock |-> None]]
    /\ tx = [s \in Stations |-> [pc |-> IF running[s] THEN "get" ELSE "done",
                                frame |-> None, sock |-> None]]
    /\ caller = [s \in Stations |-> [t \in Callers |-> "idle"]]
    /\ calls = [s \in Stations |-> 0]
    /\ conn = [c \in Conns |-> NoConn]
    /\ listening = TRUE
    /\ sent = [s \in Stations |-> 0]
    /\ received = [s \in Stations |-> <<>>]
    /\ faults = 0

-----------------------------------------------------------------------------
(* The receive thread.                                                     *)

\* The head of _rx_loop.  The socket is looked up under the lock and used after it.
RxTop(s) ==
    /\ rx[s].pc = "top"
    /\ IF ~running[s] THEN Rx(s, "done", None)
       ELSE IF connected[s] /\ sock[s] # None THEN Rx(s, "recv", sock[s])
       ELSE Rx(s, "connect", None)
    /\ UNCHANGED <<ends, link, queue, buffer, tx, node, conn, listening, sent, received, faults>>

\* create_connection.  (When it fails the loop comes round after a delay.)
Connect(s, c) ==
    /\ rx[s].pc = "connect" /\ running[s]
    /\ listening
    /\ conn' = [conn EXCEPT ![c] = Dialled(s)]
    /\ Rx(s, "install", c)
    /\ UNCHANGED <<ends, link, queue, buffer, tx, node, listening, sent, received, faults>>

ConnectEnds(s) ==
    /\ rx[s].pc = "connect" /\ ~running[s]
    /\ Rx(s, "top", None)
    /\ UNCHANGED <<ends, link, queue, buffer, tx, node, conn, listening, sent, received, faults>>

\* Mutant: half a frame of the old connection is kept.
Install_KeepsBuffer(s) ==
    /\ rx[s].pc = "install"
    /\ conn' = Close(conn, "link", {sock[s]})
    /\ sock' = [sock EXCEPT ![s] = rx[s].sock]
    /\ connected' = [connected EXCEPT ![s] = TRUE]
    /\ Rx(s, "recv", rx[s].sock)
    /\ UNCHANGED <<ends, queue, buffer, tx, node, listening, sent, received, faults>>

\* The connection becomes the one of the link, though stop() may have come and
\* gone, and is read from.
Install(s) ==
    /\ rx[s].pc = "install"
    /\ conn' = Close(conn, "link", {sock[s]})
    /\ sock' = [sock EXCEPT ![s] = rx[s].sock]
    /\ connected' = [connected EXCEPT ![s] = TRUE]
    /\ buffer' = [buffer EXCEPT ![s] = <<>>]
    /\ Rx(s, "recv", rx[s].sock)
    /\ UNCHANGED <<ends, queue, tx, node, listening, sent, received, faults>>

\* _process_rx_bytes: a frame is as long as its first bytes say.
WholeFrames(b) == [i \in 1 .. Len(b) \div 2 |-> <<b[2 * i - 1], b[2 * i]>>]
RestOf(b) == SubSeq(b, 2 * (Len(b) \div 2) + 1, Len(b))

\* recv returns the first k pieces that have arrived.
Arrived(s) == IF rx[s].pc = "recv" /\ Usable("link", rx[s].sock)
              THEN 1 .. Len(conn[rx[s].sock].down) ELSE {}
Buffered(s, k) == buffer[s] \o SubSeq(conn[rx[s].sock].down, 1, k)
Read(c, k) == [conn EXCEPT ![c].down = SubSeq(@, k + 1, Len(@))]

\* (A callback that raises one of the expected exceptions has dropped its frame.)
RecvData(s) ==
    \E k \in Arrived(s) :
        /\ conn' = Read(rx[s].sock, k)
        /\ received' = [received EXCEPT ![s] = @ \o WholeFrames(Buffered(s, k))]
        /\ buffer' = [buffer EXCEPT ![s] = RestOf(Buffered(s, k))]
        /\ Rx(s, "top", None)
        /\ UNCHANGED <<ends, link, queue, tx, node, listening, sent, faults>>

\* The callback raises anything else on frame i: the link stops itself.
CallbackCrashes(s) ==
    \E k \in Arrived(s) :
        LET b == Buffered(s, k) IN
        /\ \E i \in 1 .. Len(WholeFrames(b)) :
             /\ received' = [received EXCEPT ![s] = @ \o SubSeq(WholeFrames(b), 1, i)]
             /\ buffer' = [buffer EXCEPT ![s] = SubSeq(b, 2 * i + 1, Len(b))]
        /\ Fault
        /\ running' = [running EXCEPT ![s] = FALSE]
        /\ DropSocket(s, Read(rx[s].sock, k))
        /\ Rx(s, "done", None)
        /\ UNCHANGED <<stopping, late, queue, tx, node, listening, sent>>

\* Mutant: an empty chunk is taken for a timeout.
RecvFails_NoEof(s, c) == ~Usable("link", c)

\* recv raises, or returns nothing because the modem has closed.
RecvFails(s, c) ==
    ~Usable("link", c) \/ (conn[c].down = <<>> /\ "modem" \notin conn[c].open)

RecvTimeout(s) ==
    /\ rx[s].pc = "recv"
    /\ ~RecvFails(s, rx[s].sock) /\ conn[rx[s].sock].down = <<>>
    /\ Rx(s, "top", None)
    /\ UNCHANGED <<ends, link, queue, buffer, tx, node, conn, listening, sent, received, faults>>

RecvError(s) ==
    /\ rx[s].pc = "recv"
    /\ RecvFails(s, rx[s].sock)
    /\ DropSocket(s, conn)
    /\ Rx(s, "top", None)
    /\ UNCHANGED <<ends, queue, buffer, tx, node, listening, sent, received, faults>>

-----------------------------------------------------------------------------
(* The transmit thread.                                                    *)

TxAgain(s) == Tx(s, IF running[s] THEN "get" ELSE "done", None, None)

\* Mutant: the thread waits for a connection.
TxGet_Waits(s) ==
    /\ tx[s].pc = "get" /\ running[s] /\ connected[s]
    /\ queue[s] # <<>>
    /\ queue' = [queue EXCEPT ![s] = Tail(@)]
    /\ Tx(s, "send", Head(queue[s]), sock[s])
    /\ UNCHANGED <<ends, link, buffer, rx, node, conn, listening, sent, received, faults>>

\* A frame for a link that is down or has been stopped is dropped; otherwise the
\* socket is looked up under the lock and used after it.
TxGet(s) ==
    /\ tx[s].pc = "get"
    /\ queue[s] # <<>>
    /\ queue' = [queue EXCEPT ![s] = Tail(@)]
    /\ IF running[s] /\ connected[s] /\ sock[s] # None
       THEN Tx(s, "send", Head(queue[s]), sock[s]) ELSE TxAgain(s)
    /\ UNCHANGED <<ends, link, buffer, rx, node, conn, listening, sent, received, faults>>

TxSend(s) ==
    /\ tx[s].pc = "send"
    /\ Usable("link", tx[s].sock)
    /\ conn' = Up(tx[s].sock, Pieces(tx[s].frame))
    /\ TxAgain(s)
    /\ UNCHANGED <<ends, link, queue, buffer, rx, node, listening, sent, received, faults>>

\* The socket was closed or is broken; or the send times out in the middle.
TxSendFails(s) ==
    /\ tx[s].pc = "send"
    /\ \/ ~Usable("link", tx[s].sock) /\ UNCHANGED <<conn, faults>>
       \/ /\ Usable("link", tx[s].sock)
          /\ Fault
          /\ conn' = Up(tx[s].sock, SubSeq(Pieces(tx[s].frame), 1, 1))
    /\ Tx(s, "error", None, None)
    /\ UNCHANGED <<ends, link, queue, buffer, rx, node, listening, sent, received>>

\* The handler closes the socket that is current by now.
TxError(s) ==
    /\ tx[s].pc = "error"
    /\ DropSocket(s, conn)
    /\ TxAgain(s)
    /\ UNCHANGED <<ends, queue, buffer, rx, node, listening, sent, received, faults>>

\* The queue is empty: get() times out, or stop() wakes it up.
TxEnds(s) ==
    /\ tx[s].pc = "get" /\ ~running[s] /\ queue[s] = <<>>
    /\ Tx(s, "done", None, None)
    /\ UNCHANGED <<ends, link, queue, buffer, rx, node, conn, listening, sent, received, faults>>

-----------------------------------------------------------------------------
(* send(), as MultiplexLinkClient.send calls it: the ARDOP link comes      *)
(* first, the TCP link, whose send() never waits, behind it.               *)

\* The thread is past the test of send(), or has got its exception, which keeps
\* the frame from the TCP link.
SendBegins(s, t) ==
    /\ caller[s][t] = "idle"
    /\ calls[s] < MaxFrames[s]
    /\ calls' = [calls EXCEPT ![s] = @ + 1]
    /\ IF running[s] THEN At(s, t, "put") ELSE UNCHANGED caller
    /\ UNCHANGED <<ends, link, queue, buffer, threads, conn, listening, sent, received, faults>>

\* put() waits for room, without a time limit.
SendPut(s, t) ==
    /\ caller[s][t] = "put"
    /\ Len(queue[s]) < QueueSize
    /\ queue' = [queue EXCEPT ![s] = Append(@, Frame(s, sent[s] + 1))]
    /\ sent' = [sent EXCEPT ![s] = @ + 1]
    /\ At(s, t, "tcp")
    /\ UNCHANGED <<ends, link, buffer, threads, calls, conn, listening, received, faults>>

\* TcpMeshLinkClient.send.
SendBehind(s, t) ==
    /\ caller[s][t] = "tcp"
    /\ At(s, t, "idle")
    /\ UNCHANGED <<ends, link, queue, buffer, threads, calls, conn, listening, sent, received, faults>>

-----------------------------------------------------------------------------
(* stop(), and the network.                                                *)

StopBegins(s) ==
    /\ running[s]
    /\ Fault
    /\ running' = [running EXCEPT ![s] = FALSE]
    /\ stopping' = stopping \cup {s}
    /\ UNCHANGED <<late, link, queue, buffer, threads, node, conn, listening, sent, received>>

\* The joins are over, for the threads have ended or the time is up.
StopEnds(s) ==
    /\ s \in stopping
    /\ stopping' = stopping \ {s}
    /\ late' = IF rx[s].pc = "done" THEN late ELSE late \cup {s}
    /\ DropSocket(s, conn)
    /\ UNCHANGED <<running, queue, buffer, threads, node, listening, sent, received, faults>>

\* The connection breaks; both ends get errors from then on.
Reset(c) ==
    /\ conn[c].open # {} /\ ~conn[c].broken
    /\ Fault
    /\ conn' = [conn EXCEPT ![c].broken = TRUE, ![c].up = <<>>, ![c].down = <<>>]
    /\ UNCHANGED <<ends, link, queue, buffer, threads, node, listening, sent, received>>

RxWork(s) ==
    \/ RxTop(s) \/ ConnectEnds(s) \/ Install(s)
    \/ RecvData(s) \/ CallbackCrashes(s) \/ RecvTimeout(s) \/ RecvError(s)

TxStep(s) == TxGet(s) \/ TxSend(s) \/ TxSendFails(s) \/ TxError(s) \/ TxEnds(s)

SendStep(s, t) == SendPut(s, t) \/ SendBehind(s, t)

LinkStep(s) ==
    \/ RxWork(s) \/ TxStep(s) \/ StopBegins(s) \/ StopEnds(s)
    \/ \E t \in Callers : SendBegins(s, t) \/ SendStep(s, t)
=============================================================================
