----------------------------- MODULE FakeArdopc -----------------------------
(***************************************************************************)
(* fake_ardopc.py, the modem of the test bench, with the links of          *)
(* ArdopLink as its clients: an accept loop, a thread per client, one that *)
(* injects OGMs and one that sends what was delayed.                       *)
(*                                                                         *)
(* send_to_all holds _clients_lock for the whole broadcast, so that there  *)
(* is one at a time; bcast is the lock and the broadcast in progress.  The *)
(* other short uses of the lock are single steps while it is free.         *)
(***************************************************************************)
EXTENDS ArdopLink

CONSTANTS
    Modem,           \* the source of injected OGMs
    MaxOgms          \* bound on injected OGMs

ASSUME ModemAssumption == Modem \notin Stations \cup Conns /\ MaxOgms \in Nat

\* Options of the command line: echo, broadcast, fake_ogm: is it given?; drop: is drop_rate > 0?; delay:
\* may a frame be delayed (TRUE), and may it be sent at once (FALSE)?
ASSUME OptionAssumption ==
    \A o \in Options :
        /\ {o.echo, o.broadcast, o.fake_ogm, o.drop} \subseteq BOOLEAN
        /\ o.delay \in SUBSET BOOLEAN \ {{}}
        /\ o.on \subseteq Stations /\ o.faults \in Nat

VARIABLES
    stopped,     \* _stop
    clients,     \* the keys of _clients
    srv,         \* srv[c]: _client_loop of c: where it is, its rx_buf, how much of
                 \* its own frame it has echoed
    bcast,       \* the broadcast in progress, or Quiet
    txq,         \* delayed frames: who delayed them, for whom
    sched,       \* what _tx_scheduler_loop is sending, or Quiet
    ogms         \* OGMs injected

modem == <<options, stopped, clients, srv, bcast, txq, sched, ogms>>
stations == <<ends, link, queue, buffer, threads, node, sent, received>>
allVars == <<vars, modem>>

-----------------------------------------------------------------------------
NoThread == [pc |-> "off", buf |-> <<>>, half |-> FALSE]

\* by: the thread that sends; todo: clients it has still to serve; half: is the
\* first piece of a frame written to the one it is serving?; dead: where it failed.
Quiet == [by |-> None, frame |-> None, todo |-> {}, now |-> None, half |-> FALSE, dead |-> {}]

LockFree == bcast = Quiet

Rest(b) == SubSeq(b, 3, Len(b))

\* What comes next, with b in the buffer: the first frame, if it is whole, is echoed
\* and broadcast.
Todo(b) == IF Len(b) < 2 THEN "recv" ELSE IF options.echo THEN "one" ELSE "all"

Srv(c, pc, b) == srv' = [srv EXCEPT ![c] = [pc |-> pc, buf |-> b, half |-> FALSE]]

\* The frame at the head of the buffer: what its bytes say, whoever wrote them.
FrameOf(b) == <<b[1], b[2]>>

\* sendall writes the next piece of f to c; h tells whether it is the second.
Down(c, f, h) ==
    IF "link" \in conn[c].open
    THEN [conn EXCEPT ![c].down = Append(@, f[IF h THEN 2 ELSE 1])]
    ELSE conn

\* A piece cannot be written: the connection is broken or closed, or the client
\* is closing it; or the send times out.
WriteFails(c) ==
    \/ ~(Usable("modem", c) /\ "link" \in conn[c].open) /\ UNCHANGED faults
    \/ Usable("modem", c) /\ Fault

\* _drop_client for all of cs.
DropClients(cs) == /\ clients' = clients \ cs
                   /\ conn' = Close(conn, "modem", cs)

\* A connection nobody refers to any more; they are all alike.
Free(c) == /\ conn[c] = NoConn /\ c \notin clients /\ srv[c].pc = "off"
           /\ \A s \in Stations : c \notin {sock[s], rx[s].sock, tx[s].sock}
           /\ c \notin bcast.todo \cup bcast.dead \cup {bcast.now, sched.now, bcast.by}
           /\ \A q \in txq : q.to # c /\ q.by # c
Unused == LET free == {c \in Conns : Free(c)} IN
          IF free = {} THEN {} ELSE {CHOOSE c \in free : TRUE}

Init ==
    /\ LinkInit
    /\ stopped = FALSE
    /\ clients = {}
    /\ srv = [c \in Conns |-> NoThread]
    /\ bcast = Quiet
    /\ txq = {}
    /\ sched = Quiet
    /\ ogms = 0

-----------------------------------------------------------------------------
(* _accept_loop and _client_loop.                                          *)

\* A client is registered before its thread starts.  (A connection that comes with
\* stop() is registered and never served.)
Accept(c) ==
    /\ listening /\ LockFree
    /\ "modem" \in conn[c].open /\ c \notin clients /\ srv[c].pc = "off"
    /\ clients' = clients \cup {c}
    /\ Srv(c, "recv", <<>>)
    /\ UNCHANGED <<stations, conn, listening, faults, options, stopped, bcast, txq, sched, ogms>>

\* recv, and the look-up of the client's state.
ClientRecv(c) ==
    /\ srv[c].pc = "recv" /\ LockFree
    /\ Usable("modem", c)
    /\ \E k \in 1 .. Len(conn[c].up) :
         /\ conn' = [conn EXCEPT ![c].up = SubSeq(@, k + 1, Len(@))]
         /\ LET b == srv[c].buf \o SubSeq(conn[c].up, 1, k) IN
            IF c \in clients THEN Srv(c, Todo(b), b) ELSE Srv(c, "end", <<>>)
    /\ UNCHANGED <<stations, listening, faults, options, stopped, clients, bcast, txq, sched, ogms>>

\* The end of the connection, an error, or _stop.
ClientRecvEnds(c) ==
    /\ srv[c].pc = "recv"
    /\ \/ stopped
       \/ ~Usable("modem", c)
       \/ conn[c].up = <<>> /\ "link" \notin conn[c].open
    /\ Srv(c, "end", <<>>)
    /\ UNCHANGED <<stations, conn, listening, faults, options, stopped, clients, bcast, txq, sched, ogms>>

\* send_to_one, which does not hold the lock while it writes.
EchoFrame(c) ==
    LET f == FrameOf(srv[c].buf) IN
    /\ srv[c].pc = "one"
    /\ \/ /\ LockFree /\ ~srv[c].half
          /\ c \notin clients \/ options.drop
          /\ srv' = [srv EXCEPT ![c].pc = "all"]
          /\ UNCHANGED <<conn, txq>>
       \/ /\ TRUE \in options.delay /\ ~srv[c].half
          /\ LockFree /\ c \in clients
          /\ txq' = txq \cup {[by |-> c, to |-> c, frame |-> f]}
          /\ srv' = [srv EXCEPT ![c].pc = "all"]
          /\ UNCHANGED conn
       \/ /\ FALSE \in options.delay
          /\ srv[c].half \/ (LockFree /\ c \in clients)
          /\ Usable("modem", c)
          /\ conn' = Down(c, f, srv[c].half)
          /\ srv' = [srv EXCEPT ![c].half = ~@,
                                ![c].pc = IF srv[c].half THEN "all" ELSE "one"]
          /\ UNCHANGED txq
    /\ UNCHANGED <<stations, listening, faults, options, stopped, clients, bcast, sched, ogms>>

EchoFails(c) ==
    /\ srv[c].pc = "one" /\ FALSE \in options.delay
    /\ LockFree
    /\ WriteFails(c)
    /\ DropClients({c} \cap clients)
    /\ srv' = [srv EXCEPT ![c].pc = "all", ![c].half = FALSE]
    /\ UNCHANGED <<stations, listening, options, stopped, bcast, txq, sched, ogms>>

\* The thread takes its client off the list and ends.
ClientEnds(c) ==
    /\ srv[c].pc = "end" /\ LockFree
    /\ DropClients({c} \cap clients)
    /\ Srv(c, "off", <<>>)
    /\ UNCHANGED <<stations, listening, faults, options, stopped, bcast, txq, sched, ogms>>

-----------------------------------------------------------------------------
(* send_to_all.                                                            *)

\* Mutant: the broadcast ends with its first client.
Broadcasting_First(by, f) ==
    [Quiet EXCEPT !.by = by, !.frame = f,
                  !.todo = IF clients = {} THEN {} ELSE {CHOOSE c \in clients : TRUE}]

\* The clients at the time the lock is taken.
Broadcasting(by, f) == [Quiet EXCEPT !.by = by, !.frame = f, !.todo = clients]

BroadcastFrame(c) ==
    /\ srv[c].pc = "all"
    /\ IF options.broadcast
       THEN /\ LockFree
            /\ bcast' = Broadcasting(c, FrameOf(srv[c].buf))
            /\ srv' = [srv EXCEPT ![c].pc = "wait"]
       ELSE Srv(c, Todo(Rest(srv[c].buf)), Rest(srv[c].buf)) /\ UNCHANGED bcast
    /\ UNCHANGED <<stations, conn, listening, faults, options, stopped, clients, txq, sched, ogms>>

\* _fake_ogm_loop.  (The number of an OGM is its own, not the link's.)
InjectOgm ==
    /\ options.fake_ogm
    /\ ~stopped /\ LockFree
    /\ ogms < MaxOgms
    /\ ogms' = ogms + 1
    /\ bcast' = Broadcasting(Modem, Pieces(Frame(Modem, ogms + 1)))
    /\ UNCHANGED <<stations, conn, listening, faults, options, stopped, clients, srv, txq, sched>>

\* The next client: the frame is dropped or delayed.
SkipClient(c) ==
    /\ c \in bcast.todo /\ bcast.now = None
    /\ \/ options.drop /\ UNCHANGED txq
       \/ /\ TRUE \in options.delay
          /\ txq' = txq \cup {[by |-> bcast.by, to |-> c, frame |-> bcast.frame]}
    /\ bcast' = [bcast EXCEPT !.todo = @ \ {c}]
    /\ UNCHANGED <<stations, conn, listening, faults, options, stopped, clients, srv, sched, ogms>>

\* Or it is written at once, piece by piece.
WriteClient(c) ==
    /\ FALSE \in options.delay
    /\ \/ c \in bcast.todo /\ bcast.now = None
       \/ c = bcast.now
    /\ \/ /\ Usable("modem", c)
          /\ conn' = Down(c, bcast.frame, bcast.half)
          /\ bcast' = [bcast EXCEPT !.half = ~@, !.todo = @ \ {c},
                                    !.now = IF bcast.half THEN None ELSE c]
          /\ UNCHANGED faults
       \/ /\ WriteFails(c)
          /\ bcast' = [bcast EXCEPT !.half = FALSE, !.todo = @ \ {c}, !.now = None,
                                    !.dead = @ \cup {c}]
          /\ UNCHANGED conn
    /\ UNCHANGED <<stations, listening, options, stopped, clients, srv, txq, sched, ogms>>

\* Those that failed are taken off the list, and the lock is released.
BroadcastEnds ==
    LET c == bcast.by IN
    /\ bcast # Quiet /\ bcast.todo = {} /\ bcast.now = None
    /\ DropClients(bcast.dead)
    /\ bcast' = Quiet
    /\ IF c \in Conns THEN Srv(c, Todo(Rest(srv[c].buf)), Rest(srv[c].buf))
                      ELSE UNCHANGED srv
    /\ UNCHANGED <<stations, listening, faults, options, stopped, txq, sched, ogms>>

-----------------------------------------------------------------------------
(* _tx_scheduler_loop: frames that are due, in any order; it looks the     *)
(* client up under the lock and writes after it.                           *)

Schedule(q) ==
    /\ ~stopped /\ sched = Quiet /\ LockFree
    /\ q \in txq
    /\ txq' = txq \ {q}
    /\ sched' = IF q.to \in clients THEN [Quiet EXCEPT !.frame = q.frame, !.now = q.to] ELSE Quiet
    /\ UNCHANGED <<stations, conn, listening, faults, options, stopped, clients, srv, bcast, ogms>>

SendDelayed ==
    LET c == sched.now IN
    /\ c # None
    /\ \/ /\ Usable("modem", c)
          /\ conn' = Down(c, sched.frame, sched.half)
          /\ sched' = IF sched.half THEN Quiet ELSE [sched EXCEPT !.half = TRUE]
          /\ UNCHANGED <<faults, clients>>
       \/ /\ LockFree
          /\ WriteFails(c)
          /\ DropClients({c} \cap clients)
          /\ sched' = Quiet
    /\ UNCHANGED <<stations, listening, options, stopped, srv, bcast, txq, ogms>>

\* stop() of the modem.
ModemStops ==
    /\ ~stopped /\ LockFree
    /\ Fault
    /\ stopped' = TRUE
    /\ listening' = FALSE
    /\ clients' = {}
    /\ conn' = Close(conn, "modem", {c \in Conns : "modem" \in conn[c].open})
    /\ UNCHANGED <<stations, options, srv, bcast, txq, sched, ogms>>

-----------------------------------------------------------------------------
ServeStep(c) ==
    \/ Accept(c) \/ ClientRecv(c) \/ ClientRecvEnds(c)
    \/ EchoFrame(c) \/ EchoFails(c) \/ BroadcastFrame(c) \/ ClientEnds(c)

BroadcastStep == (\E c \in Conns : SkipClient(c) \/ WriteClient(c)) \/ BroadcastEnds

SchedulerStep == (\E q \in txq : Schedule(q)) \/ SendDelayed

RxStep(s) == RxWork(s) \/ \E c \in Unused : Connect(s, c)

StationStep ==
    /\ \/ \E s \in Stations : LinkStep(s) \/ \E c \in Unused : Connect(s, c)
       \/ \E c \in Conns : Reset(c)
    /\ UNCHANGED modem

Next ==
    \/ StationStep
    \/ \E c \in Conns : ServeStep(c)
    \/ BroadcastStep
    \/ SchedulerStep
    \/ InjectOgm
    \/ ModemStops

Spec == Init /\ [][Next]_allVars

\* The threads run.
Fairness ==
    /\ \A s \in Stations :
         /\ WF_allVars(RxStep(s) /\ UNCHANGED modem)
         /\ WF_allVars(TxStep(s) /\ UNCHANGED modem)
         /\ \A t \in Callers : WF_allVars(SendStep(s, t) /\ UNCHANGED modem)
    /\ \A c \in Conns : WF_allVars(ServeStep(c))
    /\ WF_allVars(BroadcastStep)
    /\ WF_allVars(SchedulerStep)

FairSpec == Spec /\ Fairness

-----------------------------------------------------------------------------
(* Properties.                                                             *)

\* The link and the modem together implement FrameLink:
\* frames arrive whole and at most once, whatever is cut off in the middle of a
\* frame, and in order as long as no connection is lost and nothing is delayed.
\* (After a reconnection two threads of the modem serve the same station, and the
\* frames of the old connection may come last.  A mixture of two frames is number
\* 0, which was never sent.)
Whole(g) == g[1][2] = 1 /\ g = Pieces(g[1][1])
Numbers(s, r) ==
    LET mine == SelectSeq(r, LAMBDA g : Whole(g) => g[1][1].src = s)
    IN  [i \in DOMAIN mine |-> IF Whole(mine[i]) THEN mine[i][1][1].no ELSE 0]
Air == INSTANCE FrameLink WITH
           Senders <- Stations \cup {Modem}, Receivers <- Stations,
           sent <- [s \in Stations \cup {Modem} |-> IF s = Modem THEN ogms ELSE sent[s]],
           delivered <- [s \in Stations \cup {Modem} |->
                           [r \in Stations |-> Numbers(s, received[r])]],
           ordered <- (faults = 0 /\ options.delay = {FALSE})
IsFrameLink == Air!Spec

\* send() of a link that runs returns, connected or not, and the frame goes on to
\* the link behind it.  (When the link stops meanwhile, put() may wait for ever.)
SendReturns ==
    \A s \in Stations, t \in Callers :
        caller[s][t] = "put" ~> (caller[s][t] = "idle" \/ ~running[s])

\* A link that runs is connected and served by the modem in the end, although the
\* error handler of the TX thread may close the new connection for the old one.
Linked(s) == connected[s] /\ sock[s] \in clients /\ ~conn[sock[s]].broken
ComesBack == \A s \in Stations : <>[](Linked(s) \/ ~running[s] \/ stopped)

\* A modem that drops nothing passes a frame on to every station it serves when no
\* connection is lost.
Reaches(s, r) == ~options.drop /\ (options.broadcast \/ (options.echo /\ r = s))
Flying(f) == \E c \in Conns : \E i \in DOMAIN conn[c].up : conn[c].up[i] = <<f, 2>>
EveryClientHears ==
    \A s, r \in Stations : \A n \in 1 .. MaxFrames[s] :
        (Reaches(s, r) /\ sock[r] \in clients /\ Flying(Frame(s, n)))
            ~> (faults > 0 \/ \E i \in DOMAIN received[r] : received[r][i] = Pieces(Frame(s, n)))

\* A link that stopped keeps no connection, unless stop() gave up waiting: its 5 s
\* are shorter than the 10 s of create_connection, and the late connection is
\* installed on the stopped link and never closed.
ReleasedByStop ==
    \A s \in Stations : rx[s].pc = "done" /\ s \notin stopping \cup late
                            => \A c \in Conns : conn[c].owner = s => "link" \notin conn[c].open
=============================================================================
