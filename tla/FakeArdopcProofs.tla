-------------------------- MODULE FakeArdopcProofs --------------------------
(***************************************************************************)
(* Proofs about the ARDOP links and the modem of the test bench, for any   *)
(* number of stations, threads and connections, and every way to run the   *)
(* modem: which connections a link holds open, and that frames arrive      *)
(* whole.                                                                  *)
(***************************************************************************)
EXTENDS FakeArdopc, SequenceTheorems, TLAPS

RxPcs == {"top", "connect", "install", "recv", "done"}
Socket == Conns \cup {None}

\* A connection has its five fields, whatever is on its way.
Rec(k) == k = [owner |-> k.owner, open |-> k.open, up |-> k.up, down |-> k.down,
               broken |-> k.broken]
Recs(K) == K = [c \in Conns |-> K[c]] /\ \A c \in Conns : Rec(K[c])

\* The shape of what the proof is about.
Shape ==
    /\ running \in [Stations -> BOOLEAN]
    /\ sock \in [Stations -> Socket]
    /\ rx \in [Stations -> [pc : RxPcs, sock : Socket]]
    /\ Recs(conn)

\* A link has no connection open but its own and the one it is about to install.
Owned ==
    \A s \in Stations, c \in Conns :
        conn[c].owner = s /\ "link" \in conn[c].open =>
            c = sock[s] \/ (rx[s].pc = "install" /\ c = rx[s].sock)

\* Why a link does not run: it was never started, stop() was called, or its
\* receive thread has ended.
Halted ==
    \A s \in Stations :
        /\ ~running[s] => s \in stopping \cup late \/ rx[s].pc = "done"
        /\ rx[s].pc = "done" => ~running[s]

ModemInv == Shape /\ Owned /\ Halted /\ ReleasedByStop

-----------------------------------------------------------------------------
(* What the operations on sockets do to the links' ends of connections.    *)

USE DEF Socket

\* L has no link's end open that K has not, and none of cs.
Closes(K, L, cs) ==
    /\ Recs(L)
    /\ \A c \in Conns : "link" \in L[c].open =>
         "link" \in K[c].open /\ L[c].owner = K[c].owner /\ c \notin cs

\* A connection with another content of one field.
WithOwner(k, v) == [k EXCEPT !.owner = v]
WithOpen(k, v) == [k EXCEPT !.open = v]
WithUp(k, v) == [k EXCEPT !.up = v]
WithDown(k, v) == [k EXCEPT !.down = v]
WithBroken(k, v) == [k EXCEPT !.broken = v]
Alike(n, k) == Rec(n) /\ n.open = k.open /\ n.owner = k.owner

\* It leaves the others alone.
LEMMA FieldOK ==
    ASSUME NEW k, Rec(k), NEW v
    PROVE  /\ Alike(WithDown(k, v), k) /\ Alike(WithUp(k, v), k) /\ Alike(WithBroken(k, v), k)
           /\ Rec(WithOpen(k, v)) /\ WithOpen(k, v).open = v /\ WithOpen(k, v).owner = k.owner
           /\ Rec(WithOwner(k, v)) /\ WithOwner(k, v).owner = v
<1> PICK o, p, u, d, b : k = [owner |-> o, open |-> p, up |-> u, down |-> d, broken |-> b]
  BY DEF Rec
<1>1. Alike(WithDown(k, v), k)
  BY DEF Rec, Alike, WithDown
<1>2. Alike(WithUp(k, v), k)
  BY DEF Rec, Alike, WithUp
<1>3. Alike(WithBroken(k, v), k)
  BY DEF Rec, Alike, WithBroken
<1>4. Rec(WithOpen(k, v)) /\ WithOpen(k, v).open = v /\ WithOpen(k, v).owner = k.owner
  BY DEF Rec, WithOpen
<1>5. Rec(WithOwner(k, v)) /\ WithOwner(k, v).owner = v
  BY DEF Rec, WithOwner
<1> QED  BY <1>1, <1>2, <1>3, <1>4, <1>5

\* Nothing is closed when nothing happens.
LEMMA ClosesNothing == ASSUME NEW K, Recs(K) PROVE Closes(K, K, {})
  BY DEF Closes

\* Pieces put on their way, or received.
LEMMA WriteOK ==
    ASSUME NEW K, Recs(K), NEW c, NEW v
    PROVE  /\ Closes(K, [K EXCEPT ![c].down = v], {})
           /\ Closes(K, [K EXCEPT ![c].up = v], {})
<1> DEFINE D == [K EXCEPT ![c].down = v]
           U == [K EXCEPT ![c].up = v]
<1>1. /\ \A d \in Conns : D[d] = IF d = c THEN [K[d] EXCEPT !.down = v] ELSE K[d]
      /\ D = [d \in Conns |-> D[d]]
      /\ \A d \in Conns : U[d] = IF d = c THEN [K[d] EXCEPT !.up = v] ELSE K[d]
      /\ U = [d \in Conns |-> U[d]]
  BY DEF Recs
<1> HIDE DEF D, U
<1>2. \A d \in Conns : /\ Rec(D[d]) /\ D[d].open = K[d].open /\ D[d].owner = K[d].owner
                       /\ Rec(U[d]) /\ U[d].open = K[d].open /\ U[d].owner = K[d].owner
  <2> TAKE d \in Conns
  <2> DEFINE k == K[d]
  <2>1. Rec(k)
    BY DEF Recs
  <2>2. /\ D[d] = (IF d = c THEN WithDown(k, v) ELSE k)
        /\ U[d] = (IF d = c THEN WithUp(k, v) ELSE k)
    BY <1>1 DEF WithDown, WithUp
  <2> HIDE DEF k
  <2>3. /\ Rec(D[d]) /\ D[d].open = k.open /\ D[d].owner = k.owner
        /\ Rec(U[d]) /\ U[d].open = k.open /\ U[d].owner = k.owner
    BY <2>1, <2>2, FieldOK DEF Alike
  <2> QED  BY <2>3 DEF k
<1>3. Closes(K, D, {}) /\ Closes(K, U, {})
  BY <1>1, <1>2 DEF Closes, Recs
<1> QED  BY <1>3 DEF D, U

\* A socket nobody holds.
LEMMA NoConnOK == Rec(NoConn) /\ NoConn.open = {}
  BY DEF Rec, NoConn

\* A connection just made is open at both ends and belongs to who made it.
LEMMA DialledOK ==
    ASSUME NEW s
    PROVE  Rec(Dialled(s)) /\ Dialled(s).owner = s
<1>1. Dialled(s) = WithOpen(WithOwner(NoConn, s), {"link", "modem"})
  BY DEF Dialled, WithOpen, WithOwner, NoConn
<1> QED  BY <1>1, NoConnOK, FieldOK

\* One end of one connection is closed.
LEMMA HungUpOK ==
    ASSUME NEW k, Rec(k), NEW end \in {"link", "modem"}
    PROVE  /\ Rec(HungUp(k, end))
           /\ "link" \in HungUp(k, end).open =>
                /\ end # "link"
                /\ "link" \in k.open /\ HungUp(k, end).owner = k.owner
<1>1. CASE k.open \subseteq {end}
  BY <1>1, NoConnOK DEF HungUp
<1>2. CASE ~(k.open \subseteq {end})
  <2> DEFINE n == WithOpen(k, k.open \ {end})
  <2>1. HungUp(k, end) = IF end = "link" THEN WithDown(n, <<>>) ELSE WithUp(n, <<>>)
    <3> PICK o, q, u, d, b : k = [owner |-> o, open |-> q, up |-> u, down |-> d, broken |-> b]
      BY DEF Rec
    <3> QED  BY <1>2 DEF HungUp, WithOpen, WithDown, WithUp
  <2>2. Rec(n) /\ n.open = k.open \ {end} /\ n.owner = k.owner
    BY FieldOK
  <2> HIDE DEF n
  <2> QED  BY <2>1, <2>2, FieldOK DEF Alike
<1> QED  BY <1>1, <1>2

\* Several connections are closed by one end.
LEMMA CloseOK ==
    ASSUME NEW K, Recs(K), NEW cs
    PROVE  /\ Closes(K, Close(K, "link", cs), cs)
           /\ Closes(K, Close(K, "modem", cs), {})
<1>1. ASSUME NEW end \in {"link", "modem"}
      PROVE  /\ Recs(Close(K, end, cs))
             /\ \A c \in Conns : "link" \in Close(K, end, cs)[c].open =>
                  /\ "link" \in K[c].open /\ Close(K, end, cs)[c].owner = K[c].owner
                  /\ end = "link" => c \notin cs
  <2> DEFINE L == Close(K, end, cs)
  <2>1. /\ \A c \in Conns : L[c] = IF c \in cs THEN HungUp(K[c], end) ELSE K[c]
        /\ L = [c \in Conns |-> L[c]]
    BY DEF Close
  <2> HIDE DEF L
  <2> QED  BY <2>1, HungUpOK DEF Recs, L
<1> QED  BY <1>1 DEF Closes

\* One thing after the other.
LEMMA ClosesAfter ==
    ASSUME NEW K, NEW L, NEW M, NEW cs, Closes(K, L, {}), Closes(L, M, cs)
    PROVE  Closes(K, M, cs)
  BY DEF Closes

\* sendall, and recv, on either end.
LEMMA TrafficOK ==
    ASSUME Recs(conn), NEW c, NEW b, NEW h, NEW k
    PROVE  /\ Closes(conn, Up(c, b), {}) /\ Closes(conn, Down(c, b, h), {})
           /\ Closes(conn, Read(c, k), {})
<1>1. Closes(conn, conn, {})
  BY ClosesNothing
<1>2. Closes(conn, Up(c, b), {})
  BY <1>1, WriteOK DEF Up
<1>3. Closes(conn, Down(c, b, h), {})
  BY <1>1, WriteOK DEF Down
<1>4. Closes(conn, Read(c, k), {})
  BY WriteOK DEF Read
<1> QED  BY <1>2, <1>3, <1>4

-----------------------------------------------------------------------------
(* Steps.                                                                  *)

\* A step of a link that neither dials nor stops: what it no longer holds is
\* closed, and a receive thread ends only if the link does not run.
LEMMA LinkMoves ==
    ASSUME ModemInv, NEW s \in Stations, NEW cs, Closes(conn, conn', cs),
           UNCHANGED <<running, stopping, late>>,
           sock' \in [Stations -> Socket],
           rx' \in [Stations -> [pc : RxPcs, sock : Socket]],
           \A x \in Stations : x # s => rx'[x] = rx[x] /\ sock'[x] = sock[x],
           sock'[s] = sock[s] \/ sock[s] \in cs,
           rx[s].pc = "install" => rx'[s] = rx[s] \/ sock'[s] = rx[s].sock,
           rx[s].pc = "done" => rx'[s].pc = "done",
           rx'[s].pc = "done" => rx[s].pc = "done" \/ ~running[s]
    PROVE  ModemInv'
<1> USE DEF ModemInv
<1>1. Shape'
  BY DEF Shape, Closes
<1>2. Owned'
  <2> SUFFICES ASSUME NEW x \in Stations, NEW c \in Conns,
                      conn'[c].owner = x, "link" \in conn'[c].open
               PROVE  c = sock'[x] \/ (rx'[x].pc = "install" /\ c = rx'[x].sock)
    BY DEF Owned
  <2>1. conn[c].owner = x /\ "link" \in conn[c].open /\ c \notin cs
    BY DEF Closes
  <2>2. c = sock[x] \/ (rx[x].pc = "install" /\ c = rx[x].sock)
    BY <2>1 DEF Owned
  <2> QED  BY <2>1, <2>2
<1>3. Halted'
  BY DEF Halted
<1>4. ReleasedByStop'
  <2> SUFFICES ASSUME NEW x \in Stations, rx'[x].pc = "done", x \notin stopping \cup late,
                      NEW c \in Conns, conn'[c].owner = x, "link" \in conn'[c].open
               PROVE  FALSE
    BY DEF ReleasedByStop
  <2>1. conn[c].owner = x /\ "link" \in conn[c].open
    BY DEF Closes
  <2>2. rx[x].pc = "done"
    BY DEF Halted
  <2> QED  BY <2>1, <2>2 DEF ReleasedByStop
<1> QED  BY <1>1, <1>2, <1>3, <1>4

\* A step of the modem, of the network, or of a thread that sends.
LEMMA OthersMove ==
    ASSUME ModemInv, Closes(conn, conn', {}),
           UNCHANGED <<running, stopping, late, sock, rx>>
    PROVE  ModemInv'
<1> USE DEF ModemInv
<1>1. Shape' /\ Halted'
  BY DEF Shape, Halted, Closes
<1>2. Owned' /\ ReleasedByStop'
  BY DEF Owned, ReleasedByStop, Closes
<1> QED  BY <1>1, <1>2

\* What Rx does.
LEMMA RxOK ==
    ASSUME ModemInv, NEW s \in Stations, NEW p \in RxPcs, NEW c \in Socket, Rx(s, p, c)
    PROVE  /\ rx' \in [Stations -> [pc : RxPcs, sock : Socket]]
           /\ rx'[s].pc = p /\ rx'[s].sock = c
           /\ \A x \in Stations : x # s => rx'[x] = rx[x]
<1>1. rx \in [Stations -> [pc : RxPcs, sock : Socket]]
  BY DEF ModemInv, Shape
<1>2. [pc |-> p, sock |-> c] \in [pc : RxPcs, sock : Socket]
  OBVIOUS
<1> QED  BY <1>1, <1>2 DEF Rx

\* What DropSocket does.
LEMMA DropOK ==
    ASSUME ModemInv, NEW s \in Stations, NEW K, Closes(conn, K, {}), DropSocket(s, K)
    PROVE  /\ Closes(conn, conn', {sock[s]})
           /\ sock' \in [Stations -> Socket] /\ sock'[s] = None
           /\ \A x \in Stations : x # s => sock'[x] = sock[x]
<1>1. sock \in [Stations -> Socket] /\ Recs(K)
  BY DEF ModemInv, Shape, Closes
<1>2. Closes(K, conn', {sock[s]})
  BY <1>1, CloseOK DEF DropSocket
<1>3. Closes(conn, conn', {sock[s]})
  BY <1>2, ClosesAfter
<1> QED  BY <1>1, <1>3 DEF DropSocket

\* What the invariant says of a link.
LEMMA Typed ==
    ASSUME ModemInv, NEW s \in Stations
    PROVE  /\ sock[s] \in Socket /\ rx[s].sock \in Socket /\ rx[s].pc \in RxPcs
           /\ sock \in [Stations -> Socket]
           /\ rx \in [Stations -> [pc : RxPcs, sock : Socket]]
           /\ Recs(conn) /\ Closes(conn, conn, {})
  BY ClosesNothing DEF ModemInv, Shape

\* The receive thread, but for the crash of a callback.
LEMMA RxSteps ==
    ASSUME ModemInv, NEW s \in Stations,
           \/ RxTop(s) \/ ConnectEnds(s) \/ Install(s)
           \/ RecvData(s) \/ RecvTimeout(s) \/ RecvError(s)
    PROVE  ModemInv'
<1>1. /\ sock[s] \in Socket /\ rx[s].sock \in Socket /\ rx[s].pc \in RxPcs
      /\ sock \in [Stations -> Socket]
      /\ rx \in [Stations -> [pc : RxPcs, sock : Socket]]
      /\ Recs(conn) /\ Closes(conn, conn, {})
  BY Typed
<1>2. RxPcs = {"top", "connect", "install", "recv", "done"}
  BY DEF RxPcs
<1>3. CASE RxTop(s)
  <2>1. UNCHANGED <<running, stopping, late, sock, conn>> /\ rx[s].pc = "top"
    BY <1>3 DEF RxTop, ends, link
  <2>2. PICK p \in RxPcs, c \in Socket :
             Rx(s, p, c) /\ p # "install" /\ (p = "done" => ~running[s])
    <3>1. CASE ~running[s]
      BY <1>2, <1>3, <3>1 DEF RxTop
    <3>2. CASE running[s] /\ connected[s] /\ sock[s] # None
      BY <1>1, <1>2, <1>3, <3>2 DEF RxTop
    <3>3. CASE running[s] /\ ~(connected[s] /\ sock[s] # None)
      BY <1>2, <1>3, <3>3 DEF RxTop
    <3> QED  BY <3>1, <3>2, <3>3
  <2>3. /\ rx' \in [Stations -> [pc : RxPcs, sock : Socket]] /\ rx'[s].pc = p
        /\ \A x \in Stations : x # s => rx'[x] = rx[x]
    BY <2>2, RxOK
  <2> QED  BY <1>1, <2>1, <2>2, <2>3, LinkMoves
<1>4. CASE ConnectEnds(s) \/ RecvTimeout(s)
  <2>1. /\ UNCHANGED <<running, stopping, late, sock, conn>> /\ rx[s].pc \in {"connect", "recv"}
        /\ Rx(s, "top", None)
    BY <1>4 DEF ConnectEnds, RecvTimeout, ends, link
  <2>2. /\ rx' \in [Stations -> [pc : RxPcs, sock : Socket]] /\ rx'[s].pc = "top"
        /\ \A x \in Stations : x # s => rx'[x] = rx[x]
    BY <1>2, <2>1, RxOK
  <2> QED  BY <1>1, <2>1, <2>2, LinkMoves
<1>5. CASE Install(s)
  <2>1. /\ UNCHANGED <<running, stopping, late>> /\ rx[s].pc = "install"
        /\ sock' = [sock EXCEPT ![s] = rx[s].sock]
        /\ conn' = Close(conn, "link", {sock[s]})
        /\ Rx(s, "recv", rx[s].sock)
    BY <1>5 DEF Install, ends
  <2>2. /\ rx' \in [Stations -> [pc : RxPcs, sock : Socket]] /\ rx'[s].pc = "recv"
        /\ \A x \in Stations : x # s => rx'[x] = rx[x]
    BY <1>1, <1>2, <2>1, RxOK
  <2>3. Closes(conn, conn', {sock[s]})
    BY <1>1, <2>1, CloseOK
  <2>4. /\ sock' \in [Stations -> Socket] /\ sock'[s] = rx[s].sock
        /\ \A x \in Stations : x # s => sock'[x] = sock[x]
    BY <1>1, <2>1
  <2> QED  BY <2>1, <2>2, <2>3, <2>4, LinkMoves
<1>6. CASE RecvData(s)
  <2>1. PICK k : /\ k \in Arrived(s) /\ conn' = Read(rx[s].sock, k) /\ Rx(s, "top", None)
                 /\ UNCHANGED <<running, stopping, late, sock>>
    BY <1>6 DEF RecvData, ends, link
  <2>2. rx[s].pc = "recv"
    BY <2>1 DEF Arrived
  <2>3. /\ rx' \in [Stations -> [pc : RxPcs, sock : Socket]] /\ rx'[s].pc = "top"
        /\ \A x \in Stations : x # s => rx'[x] = rx[x]
    BY <1>2, <2>1, RxOK
  <2>4. Closes(conn, conn', {})
    BY <1>1, <2>1, TrafficOK
  <2> QED  BY <1>1, <2>1, <2>2, <2>3, <2>4, LinkMoves
<1>7. CASE RecvError(s)
  <2>1. /\ UNCHANGED <<running, stopping, late>> /\ rx[s].pc = "recv"
        /\ DropSocket(s, conn) /\ Rx(s, "top", None)
    BY <1>7 DEF RecvError, ends
  <2>2. /\ rx' \in [Stations -> [pc : RxPcs, sock : Socket]] /\ rx'[s].pc = "top"
        /\ \A x \in Stations : x # s => rx'[x] = rx[x]
    BY <1>2, <2>1, RxOK
  <2>3. /\ Closes(conn, conn', {sock[s]})
        /\ sock' \in [Stations -> Socket] /\ sock'[s] = None
        /\ \A x \in Stations : x # s => sock'[x] = sock[x]
    BY <1>1, <2>1, DropOK
  <2> QED  BY <2>1, <2>2, <2>3, LinkMoves
<1> QED  BY <1>3, <1>4, <1>5, <1>6, <1>7

\* create_connection succeeds: the link has a second connection, to install.
LEMMA ConnectStep ==
    ASSUME ModemInv, NEW s \in Stations, NEW c \in Conns, Connect(s, c)
    PROVE  ModemInv'
<1>1. /\ sock \in [Stations -> Socket] /\ Recs(conn)
      /\ running \in [Stations -> BOOLEAN]
  BY Typed DEF ModemInv, Shape
<1>2. /\ UNCHANGED <<running, stopping, late, sock>>
      /\ rx[s].pc = "connect" /\ running[s]
      /\ conn' = [conn EXCEPT ![c] = Dialled(s)] /\ Rx(s, "install", c)
  BY DEF Connect, ends, link
<1>3. /\ rx' \in [Stations -> [pc : RxPcs, sock : Socket]]
      /\ rx'[s].pc = "install" /\ rx'[s].sock = c
      /\ \A x \in Stations : x # s => rx'[x] = rx[x]
  <2>1. "install" \in RxPcs
    BY DEF RxPcs
  <2> QED  BY <1>2, <2>1, RxOK
<1>4. /\ conn' = [d \in Conns |-> conn'[d]]
      /\ \A d \in Conns : conn'[d] = IF d = c THEN Dialled(s) ELSE conn[d]
  BY <1>1, <1>2 DEF Recs
<1>5. Rec(Dialled(s)) /\ Dialled(s).owner = s
  BY DialledOK
<1>6. Shape'
  BY <1>1, <1>2, <1>3, <1>4, <1>5 DEF Shape, Recs
<1>7. Owned'
  BY <1>2, <1>3, <1>4, <1>5 DEF ModemInv, Owned
<1>8. Halted'
  BY <1>2, <1>3 DEF ModemInv, Halted
<1>9. ReleasedByStop'
  BY <1>2, <1>3, <1>4, <1>5 DEF ModemInv, ReleasedByStop
<1> QED  BY <1>6, <1>7, <1>8, <1>9 DEF ModemInv

\* A callback crashes: the link closes its connection and its thread ends.
LEMMA CrashStep ==
    ASSUME ModemInv, NEW s \in Stations, CallbackCrashes(s)
    PROVE  ModemInv'
<1>1. PICK k : /\ k \in Arrived(s) /\ running' = [running EXCEPT ![s] = FALSE]
               /\ DropSocket(s, Read(rx[s].sock, k))
               /\ Rx(s, "done", None) /\ UNCHANGED <<stopping, late>>
  BY DEF CallbackCrashes
<1>2. rx[s].pc = "recv" /\ running \in [Stations -> BOOLEAN]
  BY <1>1 DEF Arrived, ModemInv, Shape
<1>3. /\ Closes(conn, conn', {sock[s]})
      /\ sock' \in [Stations -> Socket] /\ sock'[s] = None
      /\ \A x \in Stations : x # s => sock'[x] = sock[x]
  BY <1>1, Typed, TrafficOK, DropOK
<1>4. /\ rx' \in [Stations -> [pc : RxPcs, sock : Socket]] /\ rx'[s].pc = "done"
      /\ \A x \in Stations : x # s => rx'[x] = rx[x]
  <2>1. "done" \in RxPcs
    BY DEF RxPcs
  <2> QED  BY <1>1, <2>1, RxOK
<1>5. Shape'
  BY <1>1, <1>2, <1>3, <1>4 DEF Shape, Closes
<1>6. ASSUME NEW x \in Stations, NEW c \in Conns, conn'[c].owner = x, "link" \in conn'[c].open
      PROVE  /\ x # s /\ conn[c].owner = x /\ "link" \in conn[c].open
             /\ c = sock[x] \/ (rx[x].pc = "install" /\ c = rx[x].sock)
  <2>1. conn[c].owner = x /\ "link" \in conn[c].open /\ c # sock[s]
    BY <1>3, <1>6 DEF Closes
  <2>2. c = sock[x] \/ (rx[x].pc = "install" /\ c = rx[x].sock)
    BY <2>1 DEF ModemInv, Owned
  <2> QED  BY <1>2, <2>1, <2>2
<1>7. Owned'
  BY <1>3, <1>4, <1>6 DEF Owned
<1>8. Halted'
  BY <1>1, <1>2, <1>4 DEF ModemInv, Halted
<1>9. ReleasedByStop'
  BY <1>1, <1>4, <1>6 DEF ModemInv, ReleasedByStop
<1> QED  BY <1>5, <1>7, <1>8, <1>9 DEF ModemInv

\* stop(): the flag first, the socket when the joins are over.
LEMMA StopSteps ==
    ASSUME ModemInv, NEW s \in Stations, StopBegins(s) \/ StopEnds(s)
    PROVE  ModemInv'
<1>1. running \in [Stations -> BOOLEAN] /\ Closes(conn, conn, {})
  BY Typed DEF ModemInv, Shape
<1>2. CASE StopBegins(s)
  <2>1. /\ UNCHANGED <<late, sock, rx, conn>> /\ stopping' = stopping \cup {s}
        /\ running' = [running EXCEPT ![s] = FALSE]
    BY <1>2 DEF StopBegins, link, threads
  <2> QED  BY <1>1, <2>1 DEF ModemInv, Shape, Recs, Rec, Owned, Halted, ReleasedByStop
<1>3. CASE StopEnds(s)
  <2>1. /\ UNCHANGED <<running, rx>> /\ stopping' = stopping \ {s}
        /\ late' = (IF rx[s].pc = "done" THEN late ELSE late \cup {s})
        /\ DropSocket(s, conn)
    BY <1>3 DEF StopEnds, threads
  <2>2. /\ Closes(conn, conn', {sock[s]})
        /\ sock' \in [Stations -> Socket] /\ sock'[s] = None
        /\ \A x \in Stations : x # s => sock'[x] = sock[x]
    BY <1>1, <2>1, DropOK
  <2>3. Shape'
    BY <2>1, <2>2 DEF ModemInv, Shape, Closes
  <2>4. ASSUME NEW x \in Stations, NEW c \in Conns,
               conn'[c].owner = x, "link" \in conn'[c].open
        PROVE  /\ conn[c].owner = x /\ "link" \in conn[c].open /\ c # sock[s]
               /\ c = sock[x] \/ (rx[x].pc = "install" /\ c = rx[x].sock)
    BY <2>2, <2>4 DEF ModemInv, Owned, Closes
  <2>5. Owned'
    BY <2>1, <2>2, <2>4 DEF Owned
  <2>6. Halted'
    BY <2>1 DEF ModemInv, Halted
  <2>7. ReleasedByStop'
    <3> SUFFICES ASSUME NEW x \in Stations, rx'[x].pc = "done", x \notin stopping' \cup late',
                        NEW c \in Conns, conn'[c].owner = x, "link" \in conn'[c].open
                 PROVE  FALSE
      BY DEF ReleasedByStop
    <3>1. CASE x = s
      BY <2>1, <2>4, <3>1
    <3>2. CASE x # s
      BY <2>1, <2>4, <3>2 DEF ModemInv, ReleasedByStop
    <3> QED  BY <3>1, <3>2
  <2> QED  BY <2>3, <2>5, <2>6, <2>7 DEF ModemInv
<1> QED  BY <1>2, <1>3

\* The transmit thread; its error handler closes what is current by then.
LEMMA TxSteps ==
    ASSUME ModemInv, NEW s \in Stations, TxStep(s)
    PROVE  ModemInv'
<1>1. /\ sock \in [Stations -> Socket] /\ Recs(conn) /\ Closes(conn, conn, {})
      /\ rx \in [Stations -> [pc : RxPcs, sock : Socket]]
  BY Typed
<1>2. CASE TxGet(s) \/ TxEnds(s)
  <2>1. UNCHANGED <<running, stopping, late, sock, rx, conn>>
    BY <1>2 DEF TxGet, TxEnds, ends, link
  <2> QED  BY <1>1, <2>1, OthersMove
<1>3. CASE TxSend(s)
  <2>1. /\ UNCHANGED <<running, stopping, late, sock, rx>>
        /\ conn' = Up(tx[s].sock, Pieces(tx[s].frame))
    BY <1>3 DEF TxSend, ends, link
  <2>2. Closes(conn, conn', {})
    BY <1>1, <2>1, TrafficOK
  <2> QED  BY <2>1, <2>2, OthersMove
<1>4. CASE TxSendFails(s)
  <2>1. /\ UNCHANGED <<running, stopping, late, sock, rx>>
        /\ \/ conn' = conn
           \/ conn' = Up(tx[s].sock, SubSeq(Pieces(tx[s].frame), 1, 1))
    BY <1>4 DEF TxSendFails, ends, link
  <2>2. Closes(conn, conn', {})
    BY <1>1, <2>1, TrafficOK
  <2> QED  BY <2>1, <2>2, OthersMove
<1>5. CASE TxError(s)
  <2>1. UNCHANGED <<running, stopping, late, rx>> /\ DropSocket(s, conn)
    BY <1>5 DEF TxError, ends
  <2>2. /\ Closes(conn, conn', {sock[s]})
        /\ sock' \in [Stations -> Socket] /\ sock'[s] = None
        /\ \A x \in Stations : x # s => sock'[x] = sock[x]
    BY <1>1, <2>1, DropOK
  <2> QED  BY <1>1, <2>1, <2>2, LinkMoves
<1> QED  BY <1>2, <1>3, <1>4, <1>5 DEF TxStep

\* The network breaks a connection.
LEMMA ResetStep ==
    ASSUME ModemInv, NEW c \in Conns, Reset(c)
    PROVE  ModemInv'
<1> DEFINE n == WithDown(WithUp(WithBroken(conn[c], TRUE), <<>>), <<>>)
<1>1. Recs(conn) /\ Rec(conn[c])
  BY DEF ModemInv, Shape, Recs
<1>2. Alike(n, conn[c])
  <2> DEFINE k == WithBroken(conn[c], TRUE)
             m == WithUp(k, <<>>)
  <2>1. Alike(k, conn[c])
    BY <1>1, FieldOK
  <2>2. Alike(m, k)
    <3> HIDE DEF k
    <3> QED  BY <2>1, FieldOK DEF Alike
  <2>3. Alike(n, m)
    <3> HIDE DEF m
    <3> QED  BY <2>2, FieldOK DEF Alike, m
  <2> QED  BY <2>1, <2>2, <2>3 DEF Alike
<1>3. conn' = [conn EXCEPT ![c] = n] /\ UNCHANGED <<running, stopping, late, sock, rx>>
  <2>1. UNCHANGED <<running, stopping, late, sock, rx>>
    BY DEF Reset, ends, link, threads
  <2>2. PICK o, p, u, d, b :
          conn[c] = [owner |-> o, open |-> p, up |-> u, down |-> d, broken |-> b]
    BY <1>1 DEF Rec
  <2> QED  BY <1>1, <2>1, <2>2 DEF Reset, WithDown, WithUp, WithBroken, Recs
<1> HIDE DEF n
<1>4. /\ conn' = [d \in Conns |-> conn'[d]]
      /\ \A d \in Conns : conn'[d] = IF d = c THEN n ELSE conn[d]
  BY <1>1, <1>3 DEF Recs
<1>5. Closes(conn, conn', {})
  BY <1>1, <1>2, <1>4 DEF Closes, Recs, Alike
<1> QED  BY <1>3, <1>5, OthersMove

\* The threads of the modem close only its own ends of connections.
LEMMA DropClientsOK ==
    ASSUME Recs(conn), NEW cs, DropClients(cs)
    PROVE  Closes(conn, conn', {})
  BY CloseOK DEF DropClients

\* A step of the modem leaves the links alone.
LEMMA ModemMoves ==
    ASSUME ModemInv, UNCHANGED stations, Closes(conn, conn', {})
    PROVE  ModemInv'
<1>1. UNCHANGED <<running, stopping, late, sock, rx>>
  BY DEF stations, ends, link, threads
<1> QED  BY <1>1, OthersMove

\* _client_loop and _accept_loop.
LEMMA ServeSteps ==
    ASSUME ModemInv, NEW c \in Conns, ServeStep(c)
    PROVE  ModemInv'
<1>1. Recs(conn) /\ Closes(conn, conn, {})
  BY ClosesNothing DEF ModemInv, Shape
<1>2. CASE Accept(c) \/ ClientRecvEnds(c) \/ BroadcastFrame(c)
  <2>1. UNCHANGED stations /\ conn' = conn
    BY <1>2 DEF Accept, ClientRecvEnds, BroadcastFrame
  <2> QED  BY <1>1, <2>1, ModemMoves
<1>3. CASE ClientRecv(c)
  <2>1. PICK k : conn' = [conn EXCEPT ![c].up = SubSeq(conn[c].up, k + 1, Len(conn[c].up))]
    BY <1>3 DEF ClientRecv
  <2>2. UNCHANGED stations
    BY <1>3 DEF ClientRecv
  <2>3. Closes(conn, conn', {})
    BY <1>1, <2>1, WriteOK
  <2> QED  BY <2>2, <2>3, ModemMoves
<1>4. CASE EchoFrame(c)
  <2>1. UNCHANGED stations /\ (conn' = conn \/ conn' = Down(c, FrameOf(srv[c].buf), srv[c].half))
    BY <1>4 DEF EchoFrame
  <2>2. Closes(conn, conn', {})
    BY <1>1, <2>1, TrafficOK
  <2> QED  BY <2>1, <2>2, ModemMoves
<1>5. CASE EchoFails(c) \/ ClientEnds(c)
  <2>1. UNCHANGED stations /\ DropClients({c} \cap clients)
    BY <1>5 DEF EchoFails, ClientEnds
  <2>2. Closes(conn, conn', {})
    BY <1>1, <2>1, DropClientsOK
  <2> QED  BY <2>1, <2>2, ModemMoves
<1> QED  BY <1>2, <1>3, <1>4, <1>5 DEF ServeStep

\* send_to_all, _tx_scheduler_loop, _fake_ogm_loop and stop() of the modem.
LEMMA ModemSteps ==
    ASSUME ModemInv, BroadcastStep \/ SchedulerStep \/ InjectOgm \/ ModemStops
    PROVE  ModemInv'
<1>1. Recs(conn) /\ Closes(conn, conn, {})
  BY ClosesNothing DEF ModemInv, Shape
<1>2. ASSUME NEW c \in Conns, SkipClient(c) \/ WriteClient(c) PROVE ModemInv'
  <2>1. UNCHANGED stations /\ (conn' = conn \/ conn' = Down(c, bcast.frame, bcast.half))
    BY <1>2 DEF SkipClient, WriteClient
  <2>2. Closes(conn, conn', {})
    BY <1>1, <2>1, TrafficOK
  <2> QED  BY <2>1, <2>2, ModemMoves
<1>3. CASE BroadcastEnds
  <2>1. UNCHANGED stations /\ DropClients(bcast.dead)
    BY <1>3 DEF BroadcastEnds
  <2>2. Closes(conn, conn', {})
    BY <1>1, <2>1, DropClientsOK
  <2> QED  BY <2>1, <2>2, ModemMoves
<1>4. ASSUME NEW q \in txq, Schedule(q) PROVE ModemInv'
  <2>1. UNCHANGED stations /\ conn' = conn
    BY <1>4 DEF Schedule
  <2> QED  BY <1>1, <2>1, ModemMoves
<1>5. CASE SendDelayed
  <2>1. UNCHANGED stations /\ \/ conn' = Down(sched.now, sched.frame, sched.half)
                              \/ DropClients({sched.now} \cap clients)
    BY <1>5 DEF SendDelayed
  <2>2. Closes(conn, conn', {})
    <3>1. CASE conn' = Down(sched.now, sched.frame, sched.half)
      BY <1>1, <3>1, TrafficOK
    <3>2. CASE DropClients({sched.now} \cap clients)
      BY <1>1, <3>2, DropClientsOK
    <3> QED  BY <2>1, <3>1, <3>2
  <2> QED  BY <2>1, <2>2, ModemMoves
<1>6. CASE InjectOgm
  <2>1. UNCHANGED stations /\ conn' = conn
    BY <1>6 DEF InjectOgm
  <2> QED  BY <1>1, <2>1, ModemMoves
<1>7. CASE ModemStops
  <2>1. /\ UNCHANGED stations
        /\ conn' = Close(conn, "modem", {c \in Conns : "modem" \in conn[c].open})
    BY <1>7 DEF ModemStops
  <2>2. Closes(conn, conn', {})
    BY <1>1, <2>1, CloseOK
  <2> QED  BY <2>1, <2>2, ModemMoves
<1> QED  BY <1>2, <1>3, <1>4, <1>5, <1>6, <1>7 DEF BroadcastStep, SchedulerStep

\* At the start there are no connections.
LEMMA ModemInit ==
    ASSUME Init PROVE ModemInv
<1> USE DEF Init, LinkInit
<1>1. \A c \in Conns : Rec(conn[c]) /\ conn[c].open = {}
  BY NoConnOK
<1>2. Shape
  BY <1>1 DEF Shape, Recs, RxPcs
<1>3. Owned /\ Halted /\ ReleasedByStop
  BY <1>1 DEF Owned, Halted, ReleasedByStop
<1> QED  BY <1>2, <1>3 DEF ModemInv

\* Every step keeps the invariant.
LEMMA ModemStep ==
    ASSUME ModemInv, [Next]_allVars PROVE ModemInv'
<1>1. Closes(conn, conn, {})
  BY ClosesNothing DEF ModemInv, Shape
<1>2. CASE UNCHANGED allVars
  <2>1. UNCHANGED <<running, stopping, late, sock, rx, conn>>
    BY <1>2 DEF allVars, vars, ends, link, threads
  <2> QED  BY <1>1, <2>1, OthersMove
<1>3. ASSUME NEW s \in Stations, LinkStep(s) PROVE ModemInv'
  <2>1. CASE RxWork(s)
    BY <2>1, RxSteps, CrashStep DEF RxWork
  <2>2. CASE TxStep(s)
    BY <2>2, TxSteps
  <2>3. CASE StopBegins(s) \/ StopEnds(s)
    BY <2>3, StopSteps
  <2>4. ASSUME NEW t \in Callers, SendBegins(s, t) \/ SendPut(s, t) \/ SendBehind(s, t)
        PROVE  ModemInv'
    <3>1. UNCHANGED <<running, stopping, late, sock, rx, conn>>
      BY <2>4 DEF SendBegins, SendPut, SendBehind, ends, link, threads
    <3> QED  BY <1>1, <3>1, OthersMove
  <2> QED  BY <1>3, <2>1, <2>2, <2>3, <2>4 DEF LinkStep, SendStep
<1>4. ASSUME NEW s \in Stations, NEW c \in Unused, Connect(s, c) PROVE ModemInv'
  <2>1. c \in Conns
    BY DEF Unused
  <2> QED  BY <1>4, <2>1, ConnectStep
<1>5. ASSUME NEW c \in Conns, Reset(c) \/ ServeStep(c) PROVE ModemInv'
  BY <1>5, ResetStep, ServeSteps
<1>6. CASE BroadcastStep \/ SchedulerStep \/ InjectOgm \/ ModemStops
  BY <1>6, ModemSteps
<1> QED  BY <1>2, <1>3, <1>4, <1>5, <1>6 DEF Next, StationStep

\* stop() and the crash of a callback leave no connection of the link open, unless
\* stop() gave up waiting, however its two threads, the modem and the network
\* interleave: the error handler of the transmit thread may close the connection
\* of the moment for an old one, and never loses one that is open.
THEOREM StopReleases == Spec => []ReleasedByStop
<1>1. Init => ModemInv
  BY ModemInit
<1>2. ModemInv /\ [Next]_allVars => ModemInv'
  BY ModemStep
<1>3. ModemInv => ReleasedByStop
  BY DEF ModemInv
<1> QED  BY <1>1, <1>2, <1>3, PTL DEF Spec

-----------------------------------------------------------------------------
(* Whole frames: what the threads of the links and of the modem hold.      *)

TxPcs == {"get", "send", "error", "done"}
SrvPcs == {"off", "recv", "one", "all", "wait", "end"}
Frames == [src : Stations \cup {Modem}, no : Nat]
Halves == Frames \X {1, 2}

\* The frames given to send(), and those the modem has made.
Sent == {f \in Frames : f.no \in 1 .. (IF f.src = Modem THEN ogms ELSE sent[f.src])}
Wholes == {Pieces(f) : f \in Sent}

\* One thread at a time writes to a client: all that is sent is delayed, or nothing
\* is and the modem either echoes or broadcasts.
OneWriter ==
    \/ options.delay = {TRUE}
    \/ options.delay = {FALSE} /\ ~(options.echo /\ (options.broadcast \/ options.fake_ogm))

\* A connection; what its reader has closed, or the network has lost, is gone.
Connection == [owner : Stations \cup {None}, open : SUBSET {"link", "modem"},
               up : Seq(Halves), down : Seq(Halves), broken : BOOLEAN]
Alive(k, end) == end \in k.open /\ ~k.broken
ConnOK(k) == /\ k \in Connection
             /\ ~Alive(k, "modem") => k.up = <<>>
             /\ ~Alive(k, "link") => k.down = <<>>
             /\ "link" \in k.open => k.owner \in Stations
Wires(K) == K \in [Conns -> Connection] /\ \A c \in Conns : ConnOK(K[c])

\* The links.
LinkTypes ==
    /\ sent \in [Stations -> Nat] /\ queue \in [Stations -> Seq(Frames)]
    /\ tx \in [Stations -> [pc : TxPcs, frame : Frames \cup {None}, sock : Socket]]
    /\ buffer \in [Stations -> Seq(Halves)]
    /\ received \in [Stations -> Seq(Halves \X Halves)]
LinkFrames ==
    \A s \in Stations :
        /\ \A i \in 1 .. Len(queue[s]) : queue[s][i] \in Sent
        /\ tx[s].pc = "send" => tx[s].frame \in Sent /\ tx[s].sock \in Conns
        /\ rx[s].pc \in {"install", "recv"} => rx[s].sock \in Conns

\* What the threads of a link refer to is its own, as long as it is open.
Mine ==
    \A s \in Stations, c \in Conns :
        "link" \in conn[c].open /\ c \in {sock[s], rx[s].sock, tx[s].sock} => conn[c].owner = s

\* The modem.
Sending == [by : Conns \cup {None, Modem}, frame : (Halves \X Halves) \cup {None},
            todo : SUBSET Conns, now : Socket, half : BOOLEAN, dead : SUBSET Conns]
Delayed == [by : Conns \cup {None, Modem}, to : Conns, frame : Halves \X Halves]
ModemTypes ==
    /\ ogms \in Nat /\ clients \in SUBSET Conns
    /\ srv \in [Conns -> [pc : SrvPcs, buf : Seq(Halves), half : BOOLEAN]]
    /\ bcast \in Sending /\ sched \in Sending /\ txq \in SUBSET Delayed
ModemFrames ==
    /\ bcast.todo # {} \/ bcast.now # None => bcast.frame \in Halves \X Halves
    /\ sched.now # None => sched.frame \in Halves \X Halves

\* Where a thread of the modem is, and what is in its buffer.
Threads ==
    /\ \A c \in Conns :
         /\ srv[c].pc \in {"off", "end"} => srv[c].buf = <<>>
         /\ srv[c].pc \in {"one", "all", "wait"} => Len(srv[c].buf) >= 2
         /\ srv[c].half => srv[c].pc = "one"
         /\ srv[c].pc = "one" => options.echo
    /\ bcast.by \in Conns => srv[bcast.by].pc = "wait"

\* A thread of the modem that uses a connection the modem has open uses a client's.
Uses(c) == srv[c].pc # "off" \/ c \in bcast.todo \cup bcast.dead \cup {bcast.now, sched.now}
Registered ==
    /\ \A c \in Conns : Uses(c) /\ "modem" \in conn[c].open => c \in clients
    /\ stopped => ~listening /\ \A c \in Conns : "modem" \notin conn[c].open

\* Who may write.
Modes ==
    /\ options \in Options
    /\ TRUE \notin options.delay => txq = {} /\ sched.now = None
    /\ FALSE \notin options.delay =>
         bcast.now = None /\ bcast.dead = {} /\ \A c \in Conns : ~srv[c].half
    /\ ~(options.broadcast \/ options.fake_ogm) =>
         bcast.todo = {} /\ bcast.now = None /\ bcast.dead = {}
    /\ bcast.half <=> bcast.now # None
    /\ sched.half => sched.now # None
    /\ bcast.now \notin bcast.dead \cup bcast.todo /\ bcast.todo \cap bcast.dead = {}

ModemSide == ModemTypes /\ ModemFrames /\ Threads /\ Registered /\ Modes
BenchInv == LinkTypes /\ LinkFrames /\ Wires(conn) /\ Mine /\ ModemSide

-----------------------------------------------------------------------------
(* What the operations on sockets do.                                      *)

\* L is K with other pieces on its way.
Carries(K, L) ==
    /\ Wires(L)
    /\ \A c \in Conns : /\ L[c].owner = K[c].owner /\ L[c].open = K[c].open
                        /\ L[c].broken = K[c].broken
\* L is K, or has less of it open.
Tame(K, L) ==
    /\ Wires(L)
    /\ \A c \in Conns : /\ "link" \in L[c].open =>
                             "link" \in K[c].open /\ L[c].owner = K[c].owner
                        /\ "modem" \in L[c].open => "modem" \in K[c].open

\* Tame is reflexive and transitive, and what only carries other pieces is tame.
LEMMA CarriesTame == ASSUME NEW K, NEW L, Carries(K, L) PROVE Tame(K, L)
  BY DEF Carries, Tame

LEMMA TameItself == ASSUME NEW K, Wires(K) PROVE Tame(K, K) /\ Carries(K, K)
  BY DEF Tame, Carries

LEMMA TameAfter == ASSUME NEW K, NEW L, NEW M, Tame(K, L), Tame(L, M) PROVE Tame(K, M)
  BY DEF Tame

PutsUp(K, c, v) == [K EXCEPT ![c].up = v]
PutsDown(K, c, v) == [K EXCEPT ![c].down = v]

\* A piece, or some, for one direction of a connection that is alive there.
LEMMA PutUp ==
    ASSUME NEW K, Wires(K), NEW c \in Conns, NEW v \in Seq(Halves),
           Alive(K[c], "modem") \/ v = <<>>
    PROVE  LET L == PutsUp(K, c, v) IN
           /\ Carries(K, L) /\ L[c].up = v
           /\ \A d \in Conns : L[d].down = K[d].down /\ (d # c => L[d] = K[d])
<1> DEFINE L == PutsUp(K, c, v)
<1>1. K \in [Conns -> Connection] /\ \A d \in Conns : ConnOK(K[d])
  BY DEF Wires
<1>2. L \in [Conns -> Connection] /\ \A d \in Conns : d # c => L[d] = K[d]
  BY <1>1 DEF Connection, PutsUp
<1>3. /\ L[c].up = v /\ L[c].down = K[c].down /\ L[c].owner = K[c].owner
      /\ L[c].open = K[c].open /\ L[c].broken = K[c].broken
  BY <1>1 DEF Connection, PutsUp
<1> HIDE DEF L
<1>4. ConnOK(L[c])
  BY <1>1, <1>2, <1>3 DEF ConnOK, Alive
<1> QED  BY <1>1, <1>2, <1>3, <1>4 DEF Carries, Wires, L

\* The same for the other direction.
LEMMA PutDown ==
    ASSUME NEW K, Wires(K), NEW c \in Conns, NEW v \in Seq(Halves),
           Alive(K[c], "link") \/ v = <<>>
    PROVE  LET L == PutsDown(K, c, v) IN
           /\ Carries(K, L) /\ L[c].down = v
           /\ \A d \in Conns : L[d].up = K[d].up /\ (d # c => L[d] = K[d])
<1> DEFINE L == PutsDown(K, c, v)
<1>1. K \in [Conns -> Connection] /\ \A d \in Conns : ConnOK(K[d])
  BY DEF Wires
<1>2. L \in [Conns -> Connection] /\ \A d \in Conns : d # c => L[d] = K[d]
  BY <1>1 DEF Connection, PutsDown
<1>3. /\ L[c].down = v /\ L[c].up = K[c].up /\ L[c].owner = K[c].owner
      /\ L[c].open = K[c].open /\ L[c].broken = K[c].broken
  BY <1>1 DEF Connection, PutsDown
<1> HIDE DEF L
<1>4. ConnOK(L[c])
  BY <1>1, <1>2, <1>3 DEF ConnOK, Alive
<1> QED  BY <1>1, <1>2, <1>3, <1>4 DEF Carries, Wires, L

\* A record of which one field is replaced.
LEMMA ReplacedOK ==
    ASSUME NEW k \in Connection, NEW v
    PROVE  /\ v \in SUBSET {"link", "modem"} => [k EXCEPT !.open = v] \in Connection
           /\ v \in Seq(Halves) =>
                [k EXCEPT !.up = v] \in Connection /\ [k EXCEPT !.down = v] \in Connection
           /\ v \in BOOLEAN => [k EXCEPT !.broken = v] \in Connection
  BY DEF Connection

\* A connection of which some fields are replaced.
LEMMA ChangedOK ==
    ASSUME NEW k \in Connection, NEW end
    PROVE  LET a == [k EXCEPT !.open = k.open \ {end}, !.down = <<>>]
               b == [k EXCEPT !.open = k.open \ {end}, !.up = <<>>]
               n == [k EXCEPT !.broken = TRUE, !.up = <<>>, !.down = <<>>]
           IN  /\ a \in Connection /\ a.open = k.open \ {end} /\ a.owner = k.owner
               /\ a.broken = k.broken /\ a.up = k.up /\ a.down = <<>>
               /\ b \in Connection /\ b.open = k.open \ {end} /\ b.owner = k.owner
               /\ b.broken = k.broken /\ b.up = <<>> /\ b.down = k.down
               /\ n \in Connection /\ n.broken /\ n.up = <<>> /\ n.down = <<>>
               /\ n.open = k.open /\ n.owner = k.owner
<1> PICK q : q = k.open \ {end}
  OBVIOUS
<1> PICK e : e = <<>>
  OBVIOUS
<1>0. q \in SUBSET {"link", "modem"}
  BY DEF Connection
<1>1. e \in Seq(Halves)
  OBVIOUS
<1> DEFINE a == [k EXCEPT !.open = q, !.down = e]
           b == [k EXCEPT !.open = q, !.up = e]
           n == [k EXCEPT !.broken = TRUE, !.up = e, !.down = e]
<1>2. PICK o, p, u, d, z : k = [owner |-> o, open |-> p, up |-> u, down |-> d, broken |-> z]
  BY DEF Connection
<1>3. a \in Connection
  <2>1. [k EXCEPT !.open = q] \in Connection
    BY <1>0, ReplacedOK
  <2>2. a = [[k EXCEPT !.open = q] EXCEPT !.down = e]
    BY <1>2
  <2> QED  BY <1>1, <2>1, <2>2, ReplacedOK
<1>4. b \in Connection
  <2>1. [k EXCEPT !.open = q] \in Connection
    BY <1>0, ReplacedOK
  <2>2. b = [[k EXCEPT !.open = q] EXCEPT !.up = e]
    BY <1>2
  <2> QED  BY <1>1, <2>1, <2>2, ReplacedOK
<1>5. n \in Connection
  <2>1. [k EXCEPT !.broken = TRUE] \in Connection
    BY ReplacedOK
  <2>2. [[k EXCEPT !.broken = TRUE] EXCEPT !.up = e] \in Connection
    BY <1>1, <2>1, ReplacedOK
  <2>3. n = [[[k EXCEPT !.broken = TRUE] EXCEPT !.up = e] EXCEPT !.down = e]
    BY <1>2
  <2> QED  BY <1>1, <2>2, <2>3, ReplacedOK
<1>6. /\ a.open = q /\ a.owner = k.owner /\ a.broken = k.broken /\ a.up = k.up /\ a.down = e
      /\ b.open = q /\ b.owner = k.owner /\ b.broken = k.broken /\ b.up = e /\ b.down = k.down
  BY <1>2
<1>7. n.broken /\ n.up = e /\ n.down = e /\ n.open = k.open /\ n.owner = k.owner
  BY <1>2
<1> QED  BY <1>3, <1>4, <1>5, <1>6, <1>7

\* One end hangs up.
Ended(k, l, end) ==
    /\ ConnOK(l) /\ l.open = k.open \ {end}
    /\ l.open # {} => l.owner = k.owner /\ l.broken = k.broken
    /\ end = "link" => l.up = k.up /\ l.down = <<>>
    /\ end = "modem" => l.up = <<>> /\ l.down = k.down
\* HungUp ends one end.
LEMMA HangsUp ==
    ASSUME NEW k, ConnOK(k), NEW end \in {"link", "modem"}
    PROVE  Ended(k, HungUp(k, end), end)
<1> DEFINE l == HungUp(k, end)
<1>1. k \in Connection
  BY DEF ConnOK
<1>2. CASE k.open \subseteq {end}
  <2>1. l = NoConn
    BY <1>2 DEF HungUp
  <2>2. /\ NoConn.open = {} /\ NoConn.up = <<>> /\ NoConn.down = <<>>
        /\ NoConn.owner = None /\ NoConn.broken = FALSE
    BY DEF NoConn
  <2>3. NoConn \in Connection
    <3>1. <<>> \in Seq(Halves)
      OBVIOUS
    <3> QED  BY <3>1 DEF NoConn, Connection
  <2>4. k.open \ {end} = {}
    BY <1>2
  <2>5. (end = "link" => k.up = <<>>) /\ (end = "modem" => k.down = <<>>)
    BY <1>2 DEF ConnOK, Alive
  <2> HIDE DEF l
  <2> QED  BY <2>1, <2>2, <2>3, <2>4, <2>5 DEF Ended, ConnOK, Alive, l
<1>3. CASE ~(k.open \subseteq {end}) /\ end = "link"
  <2>1. l = [k EXCEPT !.open = k.open \ {end}, !.down = <<>>]
    BY <1>3 DEF HungUp
  <2> HIDE DEF l
  <2>2. /\ l.open = k.open \ {end} /\ l.owner = k.owner /\ l.broken = k.broken
        /\ l.up = k.up /\ l.down = <<>> /\ l \in Connection
    BY <1>1, <2>1, ChangedOK, ZenonT(30)
  <2> QED  BY <1>3, <2>2 DEF Ended, ConnOK, Alive, l
<1>4. CASE ~(k.open \subseteq {end}) /\ end = "modem"
  <2>1. l = [k EXCEPT !.open = k.open \ {end}, !.up = <<>>]
    BY <1>4 DEF HungUp
  <2> HIDE DEF l
  <2>2. /\ l.open = k.open \ {end} /\ l.owner = k.owner /\ l.broken = k.broken
        /\ l.up = <<>> /\ l.down = k.down /\ l \in Connection
    BY <1>1, <2>1, ChangedOK, ZenonT(30)
  <2> QED  BY <1>4, <2>2 DEF Ended, ConnOK, Alive, l
<1> QED  BY <1>2, <1>3, <1>4

\* And hangs up on several connections.
LEMMA Closing ==
    ASSUME NEW K, Wires(K), NEW end \in {"link", "modem"}, NEW cs
    PROVE  LET L == Close(K, end, cs) IN
           /\ Tame(K, L)
           /\ \A c \in Conns : IF c \in cs THEN Ended(K[c], L[c], end) ELSE L[c] = K[c]
<1> DEFINE L == Close(K, end, cs)
<1>1. /\ L = [c \in Conns |-> L[c]]
      /\ \A c \in Conns : L[c] = IF c \in cs THEN HungUp(K[c], end) ELSE K[c]
  BY DEF Close
<1> HIDE DEF L
<1>2. \A c \in Conns : IF c \in cs THEN Ended(K[c], L[c], end) ELSE L[c] = K[c]
  BY <1>1, HangsUp DEF Wires
<1>3. Wires(L)
  BY <1>1, <1>2 DEF Wires, Ended, ConnOK
<1>4. Tame(K, L)
  <2> SUFFICES ASSUME NEW c \in Conns
               PROVE  /\ "link" \in L[c].open =>
                             "link" \in K[c].open /\ L[c].owner = K[c].owner
                      /\ "modem" \in L[c].open => "modem" \in K[c].open
    BY <1>3 DEF Tame
  <2> QED  BY <1>2 DEF Ended
<1> QED  BY <1>2, <1>4 DEF L

\* The connection breaks.
LEMMA Breaks ==
    ASSUME Wires(conn), NEW c \in Conns, Reset(c)
    PROVE  /\ Tame(conn, conn') /\ \A d \in Conns : d # c => conn'[d] = conn[d]
           /\ conn'[c].broken /\ conn'[c].up = <<>> /\ conn'[c].down = <<>>
           /\ conn'[c].open = conn[c].open /\ conn'[c].owner = conn[c].owner
<1> DEFINE n == [conn[c] EXCEPT !.broken = TRUE, !.up = <<>>, !.down = <<>>]
<1>1. conn \in [Conns -> Connection] /\ \A d \in Conns : ConnOK(conn[d])
  BY DEF Wires
<1>2. n \in Connection /\ n.broken /\ n.up = <<>> /\ n.down = <<>> /\ n.open = conn[c].open
      /\ n.owner = conn[c].owner
  BY <1>1, ChangedOK
<1>3. conn' = [conn EXCEPT ![c] = n]
  BY <1>1 DEF Reset, Connection
<1> HIDE DEF n
<1>4. /\ conn' \in [Conns -> Connection] /\ conn'[c] = n
      /\ \A d \in Conns : d # c => conn'[d] = conn[d]
  BY <1>1, <1>2, <1>3
<1>5. Wires(conn')
  BY <1>1, <1>2, <1>4 DEF Wires, ConnOK, Alive
<1> QED  BY <1>2, <1>4, <1>5 DEF Tame

\* A part of what travels.
LEMMA Part ==
    ASSUME NEW s \in Seq(Halves), NEW a \in Nat, NEW z \in Nat, a <= z, z <= Len(s)
    PROVE  /\ SubSeq(s, a + 1, z) \in Seq(Halves) /\ Len(SubSeq(s, a + 1, z)) = z - a
           /\ \A i \in 1 .. z - a : SubSeq(s, a + 1, z)[i] = s[a + i]
<1> DEFINE x == SubSeq(s, a + 1, z)
<1>1. \A i \in a + 1 .. z : s[i] \in Halves
  <2>1. \A i \in a + 1 .. z : i \in 1 .. Len(s)
    BY LenProperties
  <2> QED  BY <2>1, ElementOfSeq
<1>2. a + 1 \in Int /\ z \in Int
  OBVIOUS
<1>3. /\ x \in Seq(Halves)
      /\ Len(x) = IF a + 1 <= z THEN z - (a + 1) + 1 ELSE 0
      /\ \A i \in 1 .. z - (a + 1) + 1 : x[i] = s[(a + 1) + i - 1]
  BY <1>1, <1>2, SubSeqProperties
<1> HIDE DEF x
<1>4. z - (a + 1) + 1 = z - a /\ \A i \in 1 .. z - a : (a + 1) + i - 1 = a + i
  OBVIOUS
<1>5. Len(x) = z - a
  BY <1>3
<1>6. \A i \in 1 .. z - a : x[i] = s[a + i]
  BY <1>3, <1>4
<1> QED  BY <1>3, <1>5, <1>6 DEF x

\* What _process_rx_bytes makes of a buffer.
LEMMA Drained ==
    ASSUME NEW b \in Seq(Halves)
    PROVE  \E m \in Nat :
             /\ 2 * m <= Len(b) /\ Len(b) <= 2 * m + 1
             /\ RestOf(b) \in Seq(Halves) /\ Len(RestOf(b)) = Len(b) - 2 * m
             /\ \A i \in 1 .. Len(b) - 2 * m : RestOf(b)[i] = b[2 * m + i]
             /\ WholeFrames(b) \in Seq(Halves \X Halves) /\ Len(WholeFrames(b)) = m
             /\ \A i \in 1 .. m : WholeFrames(b)[i] = <<b[2 * i - 1], b[2 * i]>>
<1> DEFINE n == Len(b)
           m == n \div 2
<1>1. n \in Nat
  BY LenProperties
<1>2. m \in Nat /\ 2 * m <= n /\ n <= 2 * m + 1
  <2> HIDE DEF n
  <2> QED  BY <1>1
<1>3. /\ RestOf(b) = SubSeq(b, 2 * m + 1, n)
      /\ WholeFrames(b) = [i \in 1 .. m |-> <<b[2 * i - 1], b[2 * i]>>]
  BY DEF RestOf, WholeFrames
<1> HIDE DEF m
<1>4. /\ RestOf(b) \in Seq(Halves) /\ Len(RestOf(b)) = n - 2 * m
      /\ \A i \in 1 .. n - 2 * m : RestOf(b)[i] = b[2 * m + i]
  <2> DEFINE a == 2 * m
             x == SubSeq(b, a + 1, n)
  <2>1. a \in Nat /\ a <= n /\ n <= Len(b)
    BY <1>1, <1>2
  <2> HIDE DEF a
  <2>2. x \in Seq(Halves) /\ Len(x) = n - a /\ \A i \in 1 .. n - a : x[i] = b[a + i]
    BY <1>1, <2>1, Part
  <2>3. RestOf(b) = x
    BY <1>3 DEF a
  <2> HIDE DEF x
  <2> QED  BY <2>2, <2>3 DEF a
<1>5. ASSUME NEW i \in 1 .. m PROVE <<b[2 * i - 1], b[2 * i]>> \in Halves \X Halves
  <2>1. 2 * i - 1 \in 1 .. n /\ 2 * i \in 1 .. n
    BY <1>1, <1>2
  <2> QED  BY <2>1, ElementOfSeq
<1>6. /\ WholeFrames(b) \in Seq(Halves \X Halves) /\ Len(WholeFrames(b)) = m
      /\ \A i \in 1 .. m : WholeFrames(b)[i] = <<b[2 * i - 1], b[2 * i]>>
  BY <1>2, <1>3, <1>5
<1> QED  BY <1>2, <1>4, <1>6


\* What recv takes, and what is left.
Reads(s, c, k) ==
    /\ c \in Conns /\ c = sock[s] /\ Alive(conn[c], "link") /\ conn[c].owner = s
    /\ k \in 1 .. Len(conn[c].down) /\ k \in Nat
    /\ Buffered(s, k) = buffer[s] \o SubSeq(conn[c].down, 1, k)
    /\ Buffered(s, k) \in Seq(Halves)
    /\ SubSeq(conn[c].down, k + 1, Len(conn[c].down)) \in Seq(Halves)
    /\ Carries(conn, Read(c, k))
    /\ Read(c, k)[c].down = SubSeq(conn[c].down, k + 1, Len(conn[c].down))
    /\ \A d \in Conns : Read(c, k)[d].up = conn[d].up /\ (d # c => Read(c, k)[d] = conn[d])
\* The receive thread reads from the connection it holds.
LEMMA ReadFacts ==
    ASSUME ModemInv, BenchInv, NEW s \in Stations, NEW k \in Arrived(s)
    PROVE  Reads(s, rx[s].sock, k)
<1> PICK c : c = rx[s].sock
  OBVIOUS
<1>1. rx[s].pc = "recv" /\ Usable("link", c) /\ k \in 1 .. Len(conn[c].down)
  BY DEF Arrived
<1>2. c \in Conns /\ Alive(conn[c], "link")
  BY <1>1 DEF BenchInv, LinkFrames, Usable, Alive
<1>3. conn[c].owner = s
  BY <1>2 DEF BenchInv, Mine, Alive
<1>4. c = sock[s]
  BY <1>1, <1>2, <1>3 DEF ModemInv, Owned, Alive
<1> PICK v : v = conn[c].down
  OBVIOUS
<1>5. v \in Seq(Halves) /\ Wires(conn) /\ buffer[s] \in Seq(Halves)
  BY <1>2 DEF BenchInv, Wires, Connection, LinkTypes
<1>6. k \in Nat /\ Len(v) \in Nat /\ k <= Len(v) /\ 0 + 1 = 1
  BY <1>1, <1>5, LenProperties
<1>7. SubSeq(v, 1, k) \in Seq(Halves) /\ SubSeq(v, k + 1, Len(v)) \in Seq(Halves)
  <2>1. SubSeq(v, 0 + 1, k) \in Seq(Halves)
    BY <1>5, <1>6, Part
  <2>2. SubSeq(v, k + 1, Len(v)) \in Seq(Halves)
    BY <1>5, <1>6, Part
  <2> QED  BY <1>6, <2>1, <2>2
<1>8. Buffered(s, k) = buffer[s] \o SubSeq(v, 1, k) /\ Buffered(s, k) \in Seq(Halves)
  BY <1>5, <1>7, ConcatProperties DEF Buffered
<1>9. PICK w \in Seq(Halves) : w = SubSeq(v, k + 1, Len(v))
  BY <1>7
<1>10. Read(c, k) = PutsDown(conn, c, w)
  BY <1>9 DEF Read, PutsDown
<1>11. /\ Carries(conn, PutsDown(conn, c, w)) /\ PutsDown(conn, c, w)[c].down = w
       /\ \A d \in Conns : /\ PutsDown(conn, c, w)[d].up = conn[d].up
                           /\ d # c => PutsDown(conn, c, w)[d] = conn[d]
  BY <1>2, <1>5, PutDown
<1> QED  BY <1>1, <1>2, <1>3, <1>4, <1>6, <1>7, <1>8, <1>9, <1>10, <1>11 DEF Reads

-----------------------------------------------------------------------------
(* Steps of the links.                                                     *)

\* A step of a link that dials nobody and sends no new frame.
LEMMA LinkMovesOn ==
    ASSUME BenchInv, UNCHANGED modem, UNCHANGED <<sent, listening>>, Tame(conn, conn'),
           LinkTypes', LinkFrames',
           \A s \in Stations : {sock'[s], rx'[s].sock, tx'[s].sock}
                                  \subseteq {sock[s], rx[s].sock, tx[s].sock, None}
    PROVE  BenchInv'
<1>1. /\ options' = options /\ stopped' = stopped /\ clients' = clients /\ srv' = srv
      /\ bcast' = bcast /\ txq' = txq /\ sched' = sched /\ ogms' = ogms
  BY DEF modem
<1>2. Wires(conn')
  BY DEF Tame
<1>3. Mine'
  <2> SUFFICES ASSUME NEW s \in Stations, NEW c \in Conns, "link" \in conn'[c].open,
                      c \in {sock'[s], rx'[s].sock, tx'[s].sock}
               PROVE  conn'[c].owner = s
    BY DEF Mine
  <2>1. c \in {sock[s], rx[s].sock, tx[s].sock}
    BY ConnAssumption
  <2> QED  BY <2>1 DEF BenchInv, Mine, Tame
<1>4. ModemTypes' /\ Threads' /\ Modes'
  BY <1>1 DEF BenchInv, ModemSide, ModemTypes, Threads, Modes
<1>5. ModemFrames'
  BY <1>1 DEF BenchInv, ModemSide, ModemFrames
<1>6. Registered'
  BY <1>1 DEF BenchInv, ModemSide, Registered, Uses, Tame
<1> QED  BY <1>2, <1>3, <1>4, <1>5, <1>6 DEF BenchInv, ModemSide

\* What Tx does.
LEMMA TxOK ==
    ASSUME LinkTypes, NEW s \in Stations, NEW p \in TxPcs, NEW f \in Frames \cup {None},
           NEW c \in Socket, Tx(s, p, f, c)
    PROVE  /\ tx' \in [Stations -> [pc : TxPcs, frame : Frames \cup {None}, sock : Socket]]
           /\ tx'[s].pc = p /\ tx'[s].frame = f /\ tx'[s].sock = c
           /\ \A x \in Stations : x # s => tx'[x] = tx[x]
<1>1. tx \in [Stations -> [pc : TxPcs, frame : Frames \cup {None}, sock : Socket]]
  BY DEF LinkTypes
<1>2. [pc |-> p, frame |-> f, sock |-> c]
        \in [pc : TxPcs, frame : Frames \cup {None}, sock : Socket]
  OBVIOUS
<1> QED  BY <1>1, <1>2 DEF Tx

\* What TxAgain does.
LEMMA TxAgainOK ==
    ASSUME LinkTypes, NEW s \in Stations, TxAgain(s)
    PROVE  /\ tx' \in [Stations -> [pc : TxPcs, frame : Frames \cup {None}, sock : Socket]]
           /\ tx'[s].pc \in {"get", "done"} /\ tx'[s].sock = None
           /\ \A x \in Stations : x # s => tx'[x] = tx[x]
<1> DEFINE p == IF running[s] THEN "get" ELSE "done"
<1>1. p \in TxPcs /\ p \in {"get", "done"}
  BY DEF TxPcs
<1>2. Tx(s, p, None, None)
  BY DEF TxAgain
<1> HIDE DEF p
<1> QED  BY <1>1, <1>2, TxOK

\* The receive thread moves, and perhaps closes the connection.
LEMMA RxMoves ==
    ASSUME ModemInv, BenchInv, NEW s \in Stations, NEW p \in RxPcs \ {"install"},
           NEW c \in {None, sock[s], rx[s].sock}, p = "recv" => c \in Conns,
           Rx(s, p, c), UNCHANGED modem,
           UNCHANGED <<sent, listening, queue, tx>>, Tame(conn, conn'),
           buffer' \in [Stations -> Seq(Halves)],
           received' \in [Stations -> Seq(Halves \X Halves)],
           \A x \in Stations : sock'[x] \in {sock[x], rx[x].sock, None}
    PROVE  BenchInv'
<1>1. /\ sock[s] \in Socket /\ rx[s].sock \in Socket
      /\ rx \in [Stations -> [pc : RxPcs, sock : Socket]]
  BY Typed
<1>2. /\ rx' \in [Stations -> [pc : RxPcs, sock : Socket]]
      /\ rx'[s].pc = p /\ rx'[s].sock = c
      /\ \A x \in Stations : x # s => rx'[x] = rx[x]
  BY <1>1, RxOK
<1>3. LinkTypes'
  BY DEF BenchInv, LinkTypes
<1>4. ogms' = ogms
  BY DEF modem
<1>5. LinkFrames'
  <2>1. Sent' = Sent
    BY <1>4 DEF Sent
  <2> QED  BY <1>2, <2>1 DEF BenchInv, LinkFrames
<1>6. \A x \in Stations : {sock'[x], rx'[x].sock, tx'[x].sock}
                              \subseteq {sock[x], rx[x].sock, tx[x].sock, None}
  BY <1>2
<1> QED  BY <1>3, <1>5, <1>6, LinkMovesOn

\* What RecvData and CallbackCrashes make of the buffer.
LEMMA ReceivedOK ==
    ASSUME ModemInv, BenchInv, NEW s \in Stations, NEW k \in Arrived(s)
    PROVE  LET b == Buffered(s, k) IN
           /\ RestOf(b) \in Seq(Halves) /\ WholeFrames(b) \in Seq(Halves \X Halves)
           /\ received[s] \o WholeFrames(b) \in Seq(Halves \X Halves)
           /\ \A i \in 1 .. Len(WholeFrames(b)) :
                /\ received[s] \o SubSeq(WholeFrames(b), 1, i) \in Seq(Halves \X Halves)
                /\ SubSeq(b, 2 * i + 1, Len(b)) \in Seq(Halves)
                /\ SubSeq(WholeFrames(b), 1, i) \in Seq(Halves \X Halves)
                /\ Len(SubSeq(WholeFrames(b), 1, i)) = i
                /\ \A j \in 1 .. i : SubSeq(WholeFrames(b), 1, i)[j] = WholeFrames(b)[j]
<1> PICK b : b = Buffered(s, k)
  OBVIOUS
<1>1. b \in Seq(Halves)
  BY ReadFacts DEF Reads
<1>2. PICK m \in Nat :
             /\ 2 * m <= Len(b) /\ Len(b) <= 2 * m + 1
             /\ RestOf(b) \in Seq(Halves)
             /\ WholeFrames(b) \in Seq(Halves \X Halves) /\ Len(WholeFrames(b)) = m
  BY <1>1, Drained
<1> PICK g : g = WholeFrames(b)
  OBVIOUS
<1>3. received[s] \in Seq(Halves \X Halves) /\ g \in Seq(Halves \X Halves)
  BY <1>2 DEF BenchInv, LinkTypes
<1>4. received[s] \o g \in Seq(Halves \X Halves)
  BY <1>3, ConcatProperties
<1>5. ASSUME NEW i \in 1 .. Len(g)
      PROVE  /\ received[s] \o SubSeq(g, 1, i) \in Seq(Halves \X Halves)
             /\ SubSeq(b, 2 * i + 1, Len(b)) \in Seq(Halves)
             /\ SubSeq(g, 1, i) \in Seq(Halves \X Halves)
             /\ Len(SubSeq(g, 1, i)) = i
             /\ \A j \in 1 .. i : SubSeq(g, 1, i)[j] = g[j]
  <2>1. i \in Nat /\ Len(b) \in Nat /\ 2 * i <= Len(b) /\ Len(b) <= Len(b) /\ 2 * i \in Nat
    BY <1>1, <1>2, LenProperties
  <2>2. SubSeq(b, 2 * i + 1, Len(b)) \in Seq(Halves)
    <3> PICK a : a = 2 * i
      OBVIOUS
    <3>1. SubSeq(b, a + 1, Len(b)) \in Seq(Halves)
      BY <1>1, <2>1, Part
    <3> QED  BY <3>1
  <2>3. SubSeq(g, 1, i) \in Seq(Halves \X Halves)
        /\ Len(SubSeq(g, 1, i)) = i
        /\ \A j \in 1 .. i : SubSeq(g, 1, i)[j] = g[j]
    <3>1. \A j \in 1 .. i : j \in 1 .. Len(g) /\ g[j] \in Halves \X Halves
      <4>1. \A j \in 1 .. i : j \in 1 .. Len(g)
        BY <1>2, <2>1
      <4> QED  BY <1>3, <4>1, ElementOfSeq
    <3>2. /\ SubSeq(g, 1, i) \in Seq(Halves \X Halves)
          /\ Len(SubSeq(g, 1, i)) = IF 1 <= i THEN i - 1 + 1 ELSE 0
          /\ \A j \in 1 .. i - 1 + 1 : SubSeq(g, 1, i)[j] = g[1 + j - 1]
      BY <1>3, <2>1, <3>1, SubSeqProperties
    <3>3. i - 1 + 1 = i /\ 1 <= i /\ \A j \in 1 .. i : 1 + j - 1 = j
      BY <1>5, <2>1
    <3> QED  BY <3>2, <3>3
  <2> QED  BY <1>3, <2>2, <2>3, ConcatProperties
<1> QED  BY <1>2, <1>3, <1>4, <1>5

\* What DropSocket closes.
LEMMA Dropped ==
    ASSUME ModemInv, NEW s \in Stations, NEW K, Wires(K), Tame(conn, K), DropSocket(s, K)
    PROVE  /\ Tame(conn, conn') /\ sock' \in [Stations -> Socket] /\ sock'[s] = None
           /\ \A x \in Stations : x # s => sock'[x] = sock[x]
           /\ \A c \in Conns : IF c = sock[s] THEN Ended(K[c], conn'[c], "link")
                               ELSE conn'[c] = K[c]
<1>1. sock \in [Stations -> Socket]
  BY DEF ModemInv, Shape
<1>2. conn' = Close(K, "link", {sock[s]}) /\ sock' = [sock EXCEPT ![s] = None]
  BY DEF DropSocket
<1>3. /\ Tame(K, conn')
      /\ \A c \in Conns : IF c \in {sock[s]} THEN Ended(K[c], conn'[c], "link")
                          ELSE conn'[c] = K[c]
  BY <1>2, Closing
<1>4. Tame(conn, conn')
  BY <1>3, TameAfter
<1>5. /\ sock' \in [Stations -> Socket] /\ sock'[s] = None
      /\ \A x \in Stations : x # s => sock'[x] = sock[x]
  BY <1>1, <1>2
<1> QED  BY <1>3, <1>4, <1>5

\* What the invariant says of the links.
LEMMA BenchTypes ==
    ASSUME BenchInv
    PROVE  /\ Wires(conn) /\ Tame(conn, conn) /\ LinkTypes /\ LinkFrames
           /\ buffer \in [Stations -> Seq(Halves)]
           /\ received \in [Stations -> Seq(Halves \X Halves)]
  BY TameItself DEF BenchInv, LinkTypes

\* The receive thread.
LEMMA RxBench ==
    ASSUME ModemInv, BenchInv, NEW s \in Stations, RxWork(s), UNCHANGED modem
    PROVE  BenchInv'
<1>1. /\ sock[s] \in Socket /\ rx[s].sock \in Socket
      /\ sock \in [Stations -> Socket] /\ Wires(conn) /\ Tame(conn, conn)
  BY Typed, BenchTypes
<1>2. /\ buffer \in [Stations -> Seq(Halves)]
      /\ received \in [Stations -> Seq(Halves \X Halves)]
  BY BenchTypes
<1>3. RxPcs = {"top", "connect", "install", "recv", "done"}
  BY DEF RxPcs
<1>4. CASE RxTop(s)
  <2>1. UNCHANGED <<sent, listening, queue, tx, conn, buffer, received, sock>>
    BY <1>4 DEF RxTop, link
  <2>2. PICK p \in RxPcs \ {"install"}, c \in {None, sock[s], rx[s].sock} :
             Rx(s, p, c) /\ (p = "recv" => c \in Conns)
    <3>1. CASE ~running[s]
      BY <1>3, <1>4, <3>1 DEF RxTop
    <3>2. CASE running[s] /\ connected[s] /\ sock[s] # None
      BY <1>1, <1>3, <1>4, <3>2 DEF RxTop
    <3>3. CASE running[s] /\ ~(connected[s] /\ sock[s] # None)
      BY <1>3, <1>4, <3>3 DEF RxTop
    <3> QED  BY <3>1, <3>2, <3>3
  <2> QED  BY <1>1, <1>2, <2>1, <2>2, RxMoves
<1>5. CASE ConnectEnds(s) \/ RecvTimeout(s)
  <2>1. UNCHANGED <<sent, listening, queue, tx, conn, buffer, received, sock>>
    BY <1>5 DEF ConnectEnds, RecvTimeout, link
  <2>2. Rx(s, "top", None) /\ "top" \in RxPcs \ {"install"}
    BY <1>3, <1>5 DEF ConnectEnds, RecvTimeout
  <2> QED  BY <1>1, <1>2, <2>1, <2>2, RxMoves
<1>6. CASE Install(s)
  <2>1. /\ UNCHANGED <<sent, listening, queue, tx, received>>
        /\ rx[s].pc = "install" /\ Rx(s, "recv", rx[s].sock)
        /\ conn' = Close(conn, "link", {sock[s]})
        /\ sock' = [sock EXCEPT ![s] = rx[s].sock]
        /\ buffer' = [buffer EXCEPT ![s] = <<>>]
    BY <1>6 DEF Install
  <2>2. rx[s].sock \in Conns
    BY <2>1 DEF BenchInv, LinkFrames
  <2>3. Tame(conn, conn')
    BY <1>1, <2>1, Closing
  <2>4. buffer' \in [Stations -> Seq(Halves)]
    BY <1>2, <2>1
  <2>5. \A x \in Stations : sock'[x] \in {sock[x], rx[x].sock, None}
    BY <1>1, <2>1
  <2>6. "recv" \in RxPcs \ {"install"}
    BY <1>3
  <2> QED  BY <1>2, <2>1, <2>2, <2>3, <2>4, <2>5, <2>6, RxMoves
<1>7. CASE RecvData(s)
  <2>1. PICK k \in Arrived(s) :
             /\ UNCHANGED <<sent, listening, queue, tx, sock>> /\ Rx(s, "top", None)
             /\ conn' = Read(rx[s].sock, k)
             /\ received' = [received EXCEPT ![s] = received[s] \o WholeFrames(Buffered(s, k))]
             /\ buffer' = [buffer EXCEPT ![s] = RestOf(Buffered(s, k))]
    BY <1>7 DEF RecvData, link
  <2>2. Tame(conn, conn')
    BY <2>1, ReadFacts, CarriesTame DEF Reads
  <2>3. /\ RestOf(Buffered(s, k)) \in Seq(Halves)
        /\ received[s] \o WholeFrames(Buffered(s, k)) \in Seq(Halves \X Halves)
    BY ReceivedOK
  <2>4. /\ buffer' \in [Stations -> Seq(Halves)]
        /\ received' \in [Stations -> Seq(Halves \X Halves)]
    BY <1>2, <2>1, <2>3
  <2>5. "top" \in RxPcs \ {"install"}
    BY <1>3
  <2> QED  BY <2>1, <2>2, <2>4, <2>5, RxMoves
<1>8. CASE CallbackCrashes(s)
  <2>0. PICK k \in Arrived(s) :
             /\ UNCHANGED <<sent, listening, queue, tx>> /\ Rx(s, "done", None)
             /\ DropSocket(s, Read(rx[s].sock, k))
             /\ \E i \in 1 .. Len(WholeFrames(Buffered(s, k))) :
                  /\ received' = [received EXCEPT ![s] =
                                    received[s] \o SubSeq(WholeFrames(Buffered(s, k)), 1, i)]
                  /\ buffer' = [buffer EXCEPT ![s] =
                                  SubSeq(Buffered(s, k), 2 * i + 1, Len(Buffered(s, k)))]
    BY <1>8 DEF CallbackCrashes
  <2>1. PICK i \in 1 .. Len(WholeFrames(Buffered(s, k))) :
             /\ received' = [received EXCEPT ![s] =
                               received[s] \o SubSeq(WholeFrames(Buffered(s, k)), 1, i)]
             /\ buffer' = [buffer EXCEPT ![s] =
                             SubSeq(Buffered(s, k), 2 * i + 1, Len(Buffered(s, k)))]
    BY <2>0
  <2>2. Carries(conn, Read(rx[s].sock, k))
    BY ReadFacts DEF Reads
  <2>3. Wires(Read(rx[s].sock, k)) /\ Tame(conn, Read(rx[s].sock, k))
    BY <2>2, CarriesTame DEF Carries
  <2>4. Tame(conn, conn') /\ \A x \in Stations : sock'[x] \in {sock[x], rx[x].sock, None}
    BY <2>0, <2>3, Dropped
  <2>5. /\ SubSeq(Buffered(s, k), 2 * i + 1, Len(Buffered(s, k))) \in Seq(Halves)
        /\ received[s] \o SubSeq(WholeFrames(Buffered(s, k)), 1, i) \in Seq(Halves \X Halves)
    BY ReceivedOK
  <2>6. /\ buffer' \in [Stations -> Seq(Halves)]
        /\ received' \in [Stations -> Seq(Halves \X Halves)]
    BY <1>2, <2>1, <2>5
  <2>7. "done" \in RxPcs \ {"install"}
    BY <1>3
  <2> QED  BY <2>0, <2>4, <2>6, <2>7, RxMoves
<1>9. CASE RecvError(s)
  <2>1. /\ UNCHANGED <<sent, listening, queue, tx, buffer, received>>
        /\ DropSocket(s, conn) /\ Rx(s, "top", None)
    BY <1>9 DEF RecvError
  <2>2. Tame(conn, conn') /\ \A x \in Stations : sock'[x] \in {sock[x], rx[x].sock, None}
    BY <1>1, <2>1, Dropped
  <2>3. "top" \in RxPcs \ {"install"}
    BY <1>3
  <2> QED  BY <1>2, <2>1, <2>2, <2>3, RxMoves
<1> QED  BY <1>4, <1>5, <1>6, <1>7, <1>8, <1>9 DEF RxWork

\* The transmit thread moves, and perhaps closes the connection.
LEMMA TxMoves ==
    ASSUME ModemInv, BenchInv, NEW s \in Stations, UNCHANGED modem,
           UNCHANGED <<sent, listening, rx, buffer, received>>, Tame(conn, conn'),
           queue' \in [Stations -> Seq(Frames)],
           \A x \in Stations : \A i \in 1 .. Len(queue'[x]) : queue'[x][i] \in Sent,
           tx' \in [Stations -> [pc : TxPcs, frame : Frames \cup {None}, sock : Socket]],
           tx'[s].pc = "send" => tx'[s].frame \in Sent /\ tx'[s].sock \in Conns,
           tx'[s].sock \in {None, sock[s]},
           \A x \in Stations : x # s => tx'[x] = tx[x],
           \A x \in Stations : sock'[x] \in {sock[x], None}
    PROVE  BenchInv'
<1>1. LinkTypes'
  BY DEF BenchInv, LinkTypes
<1>2. Sent' = Sent
  BY DEF Sent, modem
<1>3. LinkFrames'
  BY <1>2 DEF BenchInv, LinkFrames
<1>4. \A x \in Stations : {sock'[x], rx'[x].sock, tx'[x].sock}
                              \subseteq {sock[x], rx[x].sock, tx[x].sock, None}
  OBVIOUS
<1> QED  BY <1>1, <1>3, <1>4, LinkMovesOn

\* The queue loses its head.
LEMMA QueueTail ==
    ASSUME BenchInv, NEW s \in Stations, queue[s] # <<>>,
           queue' = [queue EXCEPT ![s] = Tail(queue[s])]
    PROVE  /\ queue' \in [Stations -> Seq(Frames)] /\ Head(queue[s]) \in Sent
           /\ \A x \in Stations : \A i \in 1 .. Len(queue'[x]) : queue'[x][i] \in Sent
<1>1. /\ queue \in [Stations -> Seq(Frames)]
      /\ \A x \in Stations : \A i \in 1 .. Len(queue[x]) : queue[x][i] \in Sent
  BY DEF BenchInv, LinkTypes, LinkFrames
<1> PICK q : q = queue[s]
  OBVIOUS
<1>2. q \in Seq(Frames) /\ q # <<>> /\ Len(q) \in Nat
  BY <1>1, LenProperties
<1>3. /\ Tail(q) \in Seq(Frames) /\ Len(Tail(q)) = Len(q) - 1
      /\ \A i \in 1 .. Len(Tail(q)) : Tail(q)[i] = q[i + 1]
      /\ Head(q) = q[1] /\ Len(q) >= 1
  BY <1>2, HeadTailProperties, EmptySeq
<1>4. \A i \in 1 .. Len(Tail(q)) : i + 1 \in 1 .. Len(q)
  BY <1>2, <1>3
<1>5. 1 \in 1 .. Len(q)
  BY <1>2, <1>3
<1>6. Head(q) \in Sent
  BY <1>1, <1>3, <1>5
<1>7. \A i \in 1 .. Len(Tail(q)) : Tail(q)[i] \in Sent
  BY <1>1, <1>3, <1>4
<1> QED  BY <1>1, <1>3, <1>6, <1>7

\* The pieces of a frame.
LEMMA PiecesOK ==
    ASSUME NEW f \in Frames
    PROVE  /\ Pieces(f) \in Seq(Halves) /\ Pieces(f) \in Halves \X Halves /\ Len(Pieces(f)) = 2
           /\ Pieces(f)[1] = <<f, 1>> /\ Pieces(f)[2] = <<f, 2>>
           /\ <<f, 1>> \in Halves /\ <<f, 2>> \in Halves
           /\ SubSeq(Pieces(f), 1, 1) = <<<<f, 1>>>> /\ <<<<f, 1>>>> \in Seq(Halves)
<1> PICK a, z : a = <<f, 1>> /\ z = <<f, 2>>
  OBVIOUS
<1>1. a \in Halves /\ z \in Halves
  BY DEF Halves
<1>2. Pieces(f) = <<a, z>>
  BY DEF Pieces
<1>3. <<a, z>> \in Seq(Halves) /\ <<a, z>> \in Halves \X Halves /\ Len(<<a, z>>) = 2
      /\ <<a, z>>[1] = a /\ <<a, z>>[2] = z /\ <<a>> \in Seq(Halves)
  BY <1>1
<1>4. SubSeq(<<a, z>>, 1, 1) = <<a>>
  <2>1. PICK s : s = <<a, z>>
    OBVIOUS
  <2>2. s \in Seq(Halves) /\ Len(s) = 2 /\ s[1] = a
    BY <1>3, <2>1
  <2>3. /\ SubSeq(s, 0 + 1, 1) \in Seq(Halves) /\ Len(SubSeq(s, 0 + 1, 1)) = 1 - 0
        /\ \A i \in 1 .. 1 - 0 : SubSeq(s, 0 + 1, 1)[i] = s[0 + i]
    BY <2>2, Part
  <2>4. SubSeq(s, 1, 1) \in Seq(Halves) /\ Len(SubSeq(s, 1, 1)) = 1 /\ SubSeq(s, 1, 1)[1] = a
    BY <2>2, <2>3
  <2>5. <<a>> \in Seq(Halves) /\ Len(<<a>>) = 1 /\ <<a>>[1] = a
    BY <1>1
  <2>6. SubSeq(s, 1, 1) = <<a>>
    <3>1. \A i \in 1 .. 1 : SubSeq(s, 1, 1)[i] = <<a>>[i]
      BY <2>4, <2>5
    <3> QED  BY <2>4, <2>5, <3>1, SeqEqual
  <2> QED  BY <2>1, <2>6
<1> QED  BY <1>1, <1>2, <1>3, <1>4

\* What Up does.
Uplinked(K, c, v) ==
    /\ Carries(conn, K)
    /\ \A d \in Conns : K[d].down = conn[d].down /\ (d # c => K[d] = conn[d])
    /\ K[c].up = IF "modem" \in conn[c].open THEN conn[c].up \o v ELSE conn[c].up
\* A piece sent by a link that has the connection.
LEMMA UpOK ==
    ASSUME Wires(conn), NEW c \in Conns, NEW v \in Seq(Halves), Alive(conn[c], "link")
    PROVE  Uplinked(Up(c, v), c, v)
<1>1. CASE "modem" \notin conn[c].open
  BY <1>1, TameItself DEF Up, Uplinked
<1>2. CASE "modem" \in conn[c].open
  <2>1. conn[c].up \in Seq(Halves)
    BY DEF Wires, Connection
  <2>2. PICK w : w = conn[c].up \o v
    OBVIOUS
  <2>3. w \in Seq(Halves)
    BY <2>1, <2>2, ConcatProperties
  <2>4. Up(c, v) = PutsUp(conn, c, w)
    BY <1>2, <2>2 DEF Up, PutsUp
  <2>5. Alive(conn[c], "modem")
    BY <1>2 DEF Alive
  <2>6. /\ Carries(conn, PutsUp(conn, c, w)) /\ PutsUp(conn, c, w)[c].up = w
        /\ \A d \in Conns : /\ PutsUp(conn, c, w)[d].down = conn[d].down
                            /\ d # c => PutsUp(conn, c, w)[d] = conn[d]
    BY <2>3, <2>5, PutUp
  <2> QED  BY <1>2, <2>2, <2>4, <2>6 DEF Uplinked
<1> QED  BY <1>1, <1>2

\* The transmit thread.
LEMMA TxBench ==
    ASSUME ModemInv, BenchInv, NEW s \in Stations, TxStep(s), UNCHANGED modem
    PROVE  BenchInv'
<1>1. /\ sock \in [Stations -> Socket] /\ Wires(conn) /\ Tame(conn, conn) /\ LinkTypes
      /\ sock[s] \in Socket
  BY Typed, BenchTypes
<1>2. /\ queue \in [Stations -> Seq(Frames)]
      /\ \A x \in Stations : \A i \in 1 .. Len(queue[x]) : queue[x][i] \in Sent
  BY DEF BenchInv, LinkTypes, LinkFrames
<1>3. Sent \subseteq Frames
  BY DEF Sent
<1>4. CASE TxGet(s)
  <2>1. /\ UNCHANGED <<sent, listening, rx, buffer, received, conn, sock>>
        /\ queue[s] # <<>> /\ queue' = [queue EXCEPT ![s] = Tail(queue[s])]
    BY <1>4 DEF TxGet, link
  <2>2. /\ queue' \in [Stations -> Seq(Frames)] /\ Head(queue[s]) \in Sent
        /\ \A x \in Stations : \A i \in 1 .. Len(queue'[x]) : queue'[x][i] \in Sent
    BY <2>1, QueueTail
  <2>3. CASE running[s] /\ connected[s] /\ sock[s] # None
    <3>1. Tx(s, "send", Head(queue[s]), sock[s]) /\ "send" \in TxPcs
      BY <1>4, <2>3 DEF TxGet, TxPcs
    <3>2. /\ tx' \in [Stations -> [pc : TxPcs, frame : Frames \cup {None}, sock : Socket]]
          /\ tx'[s].frame = Head(queue[s]) /\ tx'[s].sock = sock[s]
          /\ \A x \in Stations : x # s => tx'[x] = tx[x]
      BY <1>1, <1>3, <2>2, <3>1, TxOK
    <3> QED  BY <1>1, <2>1, <2>2, <2>3, <3>2, TxMoves
  <2>4. CASE ~(running[s] /\ connected[s] /\ sock[s] # None)
    <3>1. TxAgain(s)
      BY <1>4, <2>4 DEF TxGet
    <3> QED  BY <1>1, <2>1, <2>2, <3>1, TxAgainOK, TxMoves
  <2> QED  BY <2>3, <2>4
<1>5. CASE TxSend(s)
  <2>1. /\ UNCHANGED <<sent, listening, rx, buffer, received, queue, sock>>
        /\ tx[s].pc = "send" /\ Usable("link", tx[s].sock) /\ TxAgain(s)
        /\ conn' = Up(tx[s].sock, Pieces(tx[s].frame))
    BY <1>5 DEF TxSend, link
  <2>2. tx[s].sock \in Conns /\ tx[s].frame \in Frames /\ Alive(conn[tx[s].sock], "link")
    BY <1>3, <2>1 DEF BenchInv, LinkFrames, Alive, Usable
  <2>3. Tame(conn, conn')
    BY <1>1, <2>1, <2>2, PiecesOK, UpOK, CarriesTame DEF Uplinked
  <2> QED  BY <1>1, <1>2, <2>1, <2>3, TxAgainOK, TxMoves
<1>6. CASE TxSendFails(s)
  <2>1. /\ UNCHANGED <<sent, listening, rx, buffer, received, queue, sock>>
        /\ tx[s].pc = "send" /\ Tx(s, "error", None, None)
        /\ \/ conn' = conn
           \/ Usable("link", tx[s].sock) /\ conn' = Up(tx[s].sock, SubSeq(Pieces(tx[s].frame), 1, 1))
    BY <1>6 DEF TxSendFails, link
  <2>2. tx[s].sock \in Conns /\ tx[s].frame \in Frames
    BY <1>3, <2>1 DEF BenchInv, LinkFrames
  <2>3. Tame(conn, conn')
    <3>1. CASE conn' = conn
      BY <1>1, <3>1
    <3>2. CASE Usable("link", tx[s].sock) /\ conn' = Up(tx[s].sock, SubSeq(Pieces(tx[s].frame), 1, 1))
      <4>1. Alive(conn[tx[s].sock], "link")
        BY <3>2 DEF Alive, Usable
      <4>2. SubSeq(Pieces(tx[s].frame), 1, 1) \in Seq(Halves)
        BY <2>2, PiecesOK
      <4> QED  BY <1>1, <2>2, <3>2, <4>1, <4>2, UpOK, CarriesTame DEF Uplinked
    <3> QED  BY <2>1, <3>1, <3>2
  <2>4. "error" \in TxPcs
    BY DEF TxPcs
  <2>5. /\ tx' \in [Stations -> [pc : TxPcs, frame : Frames \cup {None}, sock : Socket]]
        /\ tx'[s].pc = "error" /\ tx'[s].sock = None
        /\ \A x \in Stations : x # s => tx'[x] = tx[x]
    BY <1>1, <2>1, <2>4, TxOK
  <2> QED  BY <1>1, <1>2, <2>1, <2>3, <2>5, TxMoves
<1>7. CASE TxError(s)
  <2>1. /\ UNCHANGED <<sent, listening, rx, buffer, received, queue>>
        /\ TxAgain(s) /\ DropSocket(s, conn)
    BY <1>7 DEF TxError
  <2>2. Tame(conn, conn') /\ \A x \in Stations : sock'[x] \in {sock[x], None}
    BY <1>1, <2>1, Dropped
  <2> QED  BY <1>1, <1>2, <2>1, <2>2, TxAgainOK, TxMoves
<1>8. CASE TxEnds(s)
  <2>1. /\ UNCHANGED <<sent, listening, rx, buffer, received, queue, conn, sock>>
        /\ Tx(s, "done", None, None)
    BY <1>8 DEF TxEnds, link
  <2>2. "done" \in TxPcs
    BY DEF TxPcs
  <2>3. /\ tx' \in [Stations -> [pc : TxPcs, frame : Frames \cup {None}, sock : Socket]]
        /\ tx'[s].pc = "done" /\ tx'[s].sock = None
        /\ \A x \in Stations : x # s => tx'[x] = tx[x]
    BY <1>1, <2>1, <2>2, TxOK
  <2> QED  BY <1>1, <1>2, <2>1, <2>3, TxMoves
<1> QED  BY <1>4, <1>5, <1>6, <1>7, <1>8 DEF TxStep

\* More frames may be sent.
LEMMA SentGrows ==
    ASSUME Sent \subseteq Sent'
    PROVE  /\ Wholes \subseteq Wholes'
           /\ UNCHANGED <<queue, tx, rx>> /\ LinkFrames => LinkFrames'
<1>1. Wholes \subseteq Wholes'
  BY DEF Wholes
<1>2. UNCHANGED <<queue, tx, rx>> /\ LinkFrames => LinkFrames'
  BY DEF LinkFrames
<1> QED  BY <1>1, <1>2

\* send() puts its frame into the queue.
LEMMA PutFacts ==
    ASSUME BenchInv, NEW s \in Stations, NEW t \in Callers, SendPut(s, t), UNCHANGED modem
    PROVE  /\ sent' \in [Stations -> Nat] /\ queue' \in [Stations -> Seq(Frames)]
           /\ Sent \subseteq Sent' /\ Frame(s, sent[s] + 1) \in Sent'
           /\ queue' = [queue EXCEPT ![s] = Append(queue[s], Frame(s, sent[s] + 1))]
           /\ UNCHANGED <<sock, rx, tx, buffer, received, conn, listening>>
<1>1. /\ sent' = [sent EXCEPT ![s] = sent[s] + 1]
      /\ queue' = [queue EXCEPT ![s] = Append(queue[s], Frame(s, sent[s] + 1))]
      /\ UNCHANGED <<sock, rx, tx, buffer, received, conn, listening>>
  BY DEF SendPut, link, threads
<1>2. sent \in [Stations -> Nat] /\ queue \in [Stations -> Seq(Frames)] /\ s # Modem
      /\ ogms' = ogms
  BY ModemAssumption DEF BenchInv, LinkTypes, modem
<1>3. /\ sent' \in [Stations -> Nat] /\ sent'[s] = sent[s] + 1
      /\ \A x \in Stations : sent[x] <= sent'[x] /\ sent'[x] \in Nat /\ sent[x] \in Nat
  BY <1>1, <1>2
<1>4. Frame(s, sent[s] + 1) \in Frames /\ Frame(s, sent[s] + 1).no = sent[s] + 1
      /\ Frame(s, sent[s] + 1).src = s
  BY <1>2 DEF Frame, Frames
<1>5. queue' \in [Stations -> Seq(Frames)]
  BY <1>1, <1>2, <1>4
<1>6. Sent \subseteq Sent'
  <2> SUFFICES ASSUME NEW f \in Sent PROVE f \in Sent'
    OBVIOUS
  <2>1. f \in Frames /\ f.src \in Stations \cup {Modem} /\ f.no \in Nat
    BY DEF Sent, Frames
  <2>2. CASE f.src = Modem
    BY <1>2, <2>1, <2>2 DEF Sent
  <2>3. CASE f.src # Modem
    <3>1. f.src \in Stations /\ f.no \in 1 .. sent[f.src]
      BY <2>1, <2>3 DEF Sent
    <3>2. f.no \in 1 .. sent'[f.src]
      BY <1>3, <3>1
    <3> QED  BY <2>1, <2>3, <3>2 DEF Sent
  <2> QED  BY <2>2, <2>3
<1>7. Frame(s, sent[s] + 1) \in Sent'
  BY <1>2, <1>3, <1>4 DEF Sent
<1> QED  BY <1>1, <1>3, <1>5, <1>6, <1>7

\* send() keeps the invariant.
LEMMA SendBench ==
    ASSUME ModemInv, BenchInv, NEW s \in Stations, NEW t \in Callers, UNCHANGED modem,
           SendBegins(s, t) \/ SendPut(s, t) \/ SendBehind(s, t)
    PROVE  BenchInv'
<1>1. CASE SendBegins(s, t) \/ SendBehind(s, t)
  <2>1. UNCHANGED <<sent, listening, sock, queue, rx, tx, buffer, received, conn>>
    BY <1>1 DEF SendBegins, SendBehind, link, threads
  <2>2. Sent' = Sent
    BY <2>1 DEF Sent, modem
  <2>3. LinkTypes' /\ LinkFrames' /\ Tame(conn, conn')
    BY <2>1, <2>2, BenchTypes DEF LinkTypes, LinkFrames
  <2> QED  BY <2>1, <2>3, LinkMovesOn
<1>2. CASE SendPut(s, t)
  <2>1. /\ sent' \in [Stations -> Nat] /\ queue' \in [Stations -> Seq(Frames)]
        /\ Sent \subseteq Sent' /\ Frame(s, sent[s] + 1) \in Sent'
        /\ queue' = [queue EXCEPT ![s] = Append(queue[s], Frame(s, sent[s] + 1))]
        /\ UNCHANGED <<sock, rx, tx, buffer, received, conn, listening>>
    BY <1>2, PutFacts
  <2>2. LinkTypes' /\ Mine' /\ Wires(conn')
    BY <2>1 DEF BenchInv, LinkTypes, Mine, Wires, ConnOK, Alive
  <2>3. UNCHANGED <<options, stopped, clients, srv, bcast, txq, sched, ogms>>
    BY DEF modem
  <2>4. ModemTypes' /\ Threads' /\ Modes' /\ Registered'
    BY <2>1, <2>3 DEF BenchInv, ModemSide, ModemTypes, Threads, Modes, Registered, Uses
  <2>5. ModemFrames'
    BY <2>3 DEF BenchInv, ModemSide, ModemFrames
  <2>6. LinkFrames'
    <3>1. PICK q, f : q = queue[s] /\ f = Frame(s, sent[s] + 1)
      OBVIOUS
    <3>2. q \in Seq(Frames) /\ Len(q) \in Nat
      BY <3>1, LenProperties DEF BenchInv, LinkTypes
    <3>3. /\ Len(Append(q, f)) = Len(q) + 1
          /\ \A i \in 1 .. Len(q) + 1 : Append(q, f)[i] = IF i <= Len(q) THEN q[i] ELSE f
      BY <3>2, AppendProperties
    <3>4. \A i \in 1 .. Len(q) : q[i] \in Sent'
      BY <2>1, <3>1 DEF BenchInv, LinkFrames
    <3>5. \A i \in 1 .. Len(Append(q, f)) : Append(q, f)[i] \in Sent'
      <4> TAKE i \in 1 .. Len(Append(q, f))
      <4>1. CASE i <= Len(q)
        <5>1. i \in 1 .. Len(q)
          BY <3>2, <3>3, <4>1
        <5> QED  BY <3>3, <3>4, <4>1, <5>1
      <4>2. CASE ~(i <= Len(q))
        BY <2>1, <3>1, <3>3, <4>2
      <4> QED  BY <4>1, <4>2
    <3>6. queue'[s] = Append(q, f) /\ \A x \in Stations : x # s => queue'[x] = queue[x]
      BY <2>1, <3>1 DEF BenchInv, LinkTypes
    <3> QED  BY <2>1, <3>5, <3>6 DEF BenchInv, LinkFrames
  <2> QED  BY <2>2, <2>4, <2>5, <2>6 DEF BenchInv, ModemSide
<1> QED  BY <1>1, <1>2

\* stop(), and the network.
LEMMA StopBench ==
    ASSUME ModemInv, BenchInv, NEW s \in Stations, StopBegins(s) \/ StopEnds(s), UNCHANGED modem
    PROVE  BenchInv'
<1>1. UNCHANGED <<sent, listening, queue, rx, tx, buffer, received>>
  BY DEF StopBegins, StopEnds, threads
<1>2. Tame(conn, conn') /\ \A x \in Stations : sock'[x] \in {sock[x], None}
  <2>1. CASE StopBegins(s)
    BY <2>1, BenchTypes DEF StopBegins, link
  <2>2. CASE StopEnds(s)
    BY <2>2, BenchTypes, Dropped DEF StopEnds
  <2> QED  BY <2>1, <2>2
<1>3. LinkTypes' /\ LinkFrames'
  <2>1. Sent' = Sent
    BY <1>1 DEF Sent, modem
  <2> QED  BY <1>1, <2>1, BenchTypes DEF LinkTypes, LinkFrames
<1> QED  BY <1>1, <1>2, <1>3, LinkMovesOn

\* The network loses a connection.
LEMMA ResetBench ==
    ASSUME ModemInv, BenchInv, NEW c \in Conns, Reset(c), UNCHANGED modem
    PROVE  BenchInv'
<1>1. UNCHANGED <<sent, listening, queue, rx, tx, buffer, received, sock>>
  BY DEF Reset, threads, link
<1>2. Tame(conn, conn')
  BY BenchTypes, Breaks
<1>3. LinkTypes' /\ LinkFrames'
  <2>1. Sent' = Sent
    BY <1>1 DEF Sent, modem
  <2> QED  BY <1>1, <2>1, BenchTypes DEF LinkTypes, LinkFrames
<1> QED  BY <1>1, <1>2, <1>3, LinkMovesOn

\* create_connection: nothing refers to the connection but the thread that made it.
LEMMA UnusedOK ==
    ASSUME NEW c \in Unused
    PROVE  c \in Conns /\ Free(c)
<1>1. {d \in Conns : Free(d)} # {} /\ c = CHOOSE d \in {e \in Conns : Free(e)} : TRUE
  BY DEF Unused
<1> QED  BY <1>1

Dials(s, c) ==
    /\ c \in Conns /\ Free(c) /\ listening
    /\ UNCHANGED <<sent, listening, queue, tx, buffer, received, sock>>
    /\ Wires(conn') /\ \A d \in Conns : d # c => conn'[d] = conn[d]
    /\ conn'[c].owner = s /\ conn'[c].open = {"link", "modem"}
    /\ conn'[c].up = <<>> /\ conn'[c].down = <<>> /\ conn'[c].broken = FALSE
    /\ rx'[s].pc = "install" /\ rx'[s].sock = c
    /\ \A x \in Stations : x # s => rx'[x] = rx[x]
\* Connect takes a free connection.
LEMMA ConnectFacts ==
    ASSUME ModemInv, BenchInv, NEW s \in Stations, NEW c \in Unused, Connect(s, c), UNCHANGED modem
    PROVE  Dials(s, c)
<1>1. c \in Conns /\ Free(c)
  BY UnusedOK
<1>2. /\ UNCHANGED <<sent, listening, queue, tx, buffer, received, sock>> /\ listening
      /\ conn' = [conn EXCEPT ![c] = Dialled(s)] /\ Rx(s, "install", c)
  BY DEF Connect, link
<1>3. PICK e, o : e = <<>> /\ o = {"link", "modem"}
  OBVIOUS
<1>4. PICK k : k = Dialled(s)
  OBVIOUS
<1>5. /\ k \in Connection /\ k.owner = s /\ k.open = {"link", "modem"} /\ k.up = <<>>
      /\ k.down = <<>> /\ k.broken = FALSE
  <2>1. /\ NoConn \in Connection /\ NoConn.up = e /\ NoConn.down = e
        /\ NoConn.broken = FALSE
    <3>1. <<>> \in Seq(Halves)
      OBVIOUS
    <3> QED  BY <1>3, <3>1 DEF NoConn, Connection
  <2>2. PICK n : n = [NoConn EXCEPT !.owner = s]
    OBVIOUS
  <2>3. n \in Connection /\ n.owner = s /\ n.up = e /\ n.down = e /\ n.broken = FALSE
    BY <2>1, <2>2 DEF Connection
  <2>4. k = [n EXCEPT !.open = o]
    <3>1. PICK p, q, u, d, z :
              NoConn = [owner |-> p, open |-> q, up |-> u, down |-> d, broken |-> z]
      BY DEF NoConn
    <3> QED  BY <1>3, <1>4, <2>2, <3>1 DEF Dialled
  <2>5. o \in SUBSET {"link", "modem"}
    BY <1>3
  <2>6. /\ k \in Connection /\ k.open = o /\ k.owner = s /\ k.up = e /\ k.down = e
        /\ k.broken = FALSE
    BY <2>3, <2>4, <2>5 DEF Connection
  <2> QED  BY <1>3, <2>6
<1>6. ConnOK(k)
  BY <1>5 DEF ConnOK
<1>7. conn \in [Conns -> Connection] /\ \A d \in Conns : ConnOK(conn[d])
  BY DEF BenchInv, Wires
<1>8. /\ conn' \in [Conns -> Connection] /\ conn'[c] = k
      /\ \A d \in Conns : d # c => conn'[d] = conn[d]
  BY <1>1, <1>2, <1>4, <1>5, <1>7
<1>9. Wires(conn')
  BY <1>6, <1>7, <1>8 DEF Wires
<1>10. /\ rx' \in [Stations -> [pc : RxPcs, sock : Socket]]
       /\ rx'[s].pc = "install" /\ rx'[s].sock = c
       /\ \A x \in Stations : x # s => rx'[x] = rx[x]
  <2>1. "install" \in RxPcs
    BY DEF RxPcs
  <2> QED  BY <1>1, <1>2, <2>1, RxOK
<1> QED  BY <1>1, <1>2, <1>5, <1>8, <1>9, <1>10 DEF Dials

\* And keeps the invariant.
LEMMA ConnectBench ==
    ASSUME ModemInv, BenchInv, NEW s \in Stations, NEW c \in Unused, Connect(s, c), UNCHANGED modem
    PROVE  BenchInv'
<1>1. /\ c \in Conns /\ Free(c) /\ listening
      /\ UNCHANGED <<sent, listening, queue, tx, buffer, received, sock>>
      /\ Wires(conn') /\ \A d \in Conns : d # c => conn'[d] = conn[d]
      /\ conn'[c].owner = s /\ conn'[c].open = {"link", "modem"}
      /\ rx'[s].pc = "install" /\ rx'[s].sock = c
      /\ \A x \in Stations : x # s => rx'[x] = rx[x]
  <2>1. Dials(s, c)
    BY ConnectFacts
  <2> QED  BY <2>1 DEF Dials
<1>2. UNCHANGED <<options, stopped, clients, srv, bcast, txq, sched, ogms>>
  BY DEF modem
<1>3. Sent' = Sent /\ Wholes' = Wholes
  BY <1>1, <1>2 DEF Sent, Wholes
<1>4. LinkTypes' /\ LinkFrames'
  BY <1>1, <1>3 DEF BenchInv, LinkTypes, LinkFrames
<1>5. Mine'
  <2> SUFFICES ASSUME NEW x \in Stations, NEW d \in Conns, "link" \in conn'[d].open,
                      d \in {sock'[x], rx'[x].sock, tx'[x].sock}
               PROVE  conn'[d].owner = x
    BY DEF Mine
  <2>1. CASE d = c
    <3>1. x = s
      BY <1>1, <2>1 DEF Free
    <3> QED  BY <1>1, <2>1, <3>1
  <2>2. CASE d # c
    BY <1>1, <2>2 DEF BenchInv, Mine
  <2> QED  BY <2>1, <2>2
<1>6. ModemTypes' /\ Threads' /\ Modes' /\ ModemFrames'
  BY <1>2, <1>3 DEF BenchInv, ModemSide, ModemTypes, Threads, Modes, ModemFrames
<1>7. Registered'
  <2>1. ~Uses(c)
    BY <1>1 DEF Free, Uses
  <2>2. ~stopped
    BY <1>1 DEF BenchInv, ModemSide, Registered
  <2>3. \A d \in Conns : Uses(d)' = Uses(d)
    BY <1>2 DEF Uses
  <2> QED  BY <1>1, <1>2, <2>1, <2>2, <2>3 DEF BenchInv, ModemSide, Registered
<1> QED  BY <1>1, <1>4, <1>5, <1>6, <1>7 DEF BenchInv, ModemSide

-----------------------------------------------------------------------------
(* Steps of the modem.                                                     *)

\* They leave the links alone.
LEMMA ModemMovesOn ==
    ASSUME BenchInv, UNCHANGED stations, Tame(conn, conn'), Sent \subseteq Sent', ModemSide'
    PROVE  BenchInv'
<1>1. UNCHANGED <<sock, queue, buffer, rx, tx, sent, received>>
  BY DEF stations, link, threads
<1>2. LinkTypes' /\ LinkFrames' /\ Wires(conn')
  BY <1>1, SentGrows DEF BenchInv, LinkTypes, Tame
<1>3. Mine'
  BY <1>1 DEF BenchInv, Mine, Tame
<1> QED  BY <1>2, <1>3 DEF BenchInv

\* Frames are numbered by the links and by _fake_ogm_loop only.
LEMMA SameSent ==
    ASSUME UNCHANGED stations, UNCHANGED ogms
    PROVE  Sent' = Sent /\ Wholes' = Wholes
  BY DEF stations, Sent, Wholes

\* The parts of the modem.
LEMMA ModemParts ==
    ASSUME BenchInv
    PROVE  /\ ModemTypes /\ ModemFrames /\ Threads /\ Registered /\ Modes
           /\ Wires(conn) /\ Tame(conn, conn)
           /\ srv \in [Conns -> [pc : SrvPcs, buf : Seq(Halves), half : BOOLEAN]]
           /\ bcast \in Sending /\ sched \in Sending /\ txq \in SUBSET Delayed
           /\ clients \in SUBSET Conns /\ ogms \in Nat
  BY TameItself DEF BenchInv, ModemSide, ModemTypes

\* Nothing is being sent.
LEMMA QuietOK ==
    /\ Quiet \in Sending /\ Quiet.by = None /\ Quiet.frame = None /\ Quiet.todo = {}
    /\ Quiet.now = None /\ Quiet.half = FALSE /\ Quiet.dead = {}
  BY DEF Quiet, Sending

\* The lock is free.
LEMMA FreeOK ==
    ASSUME LockFree
    PROVE  /\ bcast.by \notin Conns /\ bcast.todo = {} /\ bcast.now = None /\ bcast.dead = {}
           /\ bcast.half = FALSE
  BY QuietOK, ConnAssumption DEF LockFree

\* What Srv does.
LEMMA SrvOK ==
    ASSUME ModemTypes, NEW c \in Conns, NEW p \in SrvPcs, NEW b \in Seq(Halves), Srv(c, p, b)
    PROVE  /\ srv' \in [Conns -> [pc : SrvPcs, buf : Seq(Halves), half : BOOLEAN]]
           /\ srv'[c].pc = p /\ srv'[c].buf = b /\ srv'[c].half = FALSE
           /\ \A d \in Conns : d # c => srv'[d] = srv[d]
<1>1. srv \in [Conns -> [pc : SrvPcs, buf : Seq(Halves), half : BOOLEAN]]
  BY DEF ModemTypes
<1>2. [pc |-> p, buf |-> b, half |-> FALSE] \in [pc : SrvPcs, buf : Seq(Halves), half : BOOLEAN]
  OBVIOUS
<1> QED  BY <1>1, <1>2 DEF Srv

\* What comes next.
LEMMA TodoOK ==
    ASSUME NEW b \in Seq(Halves)
    PROVE  /\ Todo(b) \in {"recv", "one", "all"} /\ Todo(b) \in SrvPcs
           /\ Todo(b) # "recv" => Len(b) >= 2
           /\ Todo(b) = "one" => options.echo
           /\ Todo(b) = "recv" => Len(b) < 2
<1>1. Len(b) \in Nat
  BY LenProperties
<1> QED  BY <1>1 DEF Todo, SrvPcs

\* What is left of a buffer, and the frame at its head.
LEMMA RestOK ==
    ASSUME NEW b \in Seq(Halves), Len(b) >= 2
    PROVE  /\ Rest(b) \in Seq(Halves) /\ Len(Rest(b)) = Len(b) - 2
           /\ \A i \in 1 .. Len(b) - 2 : Rest(b)[i] = b[2 + i]
           /\ FrameOf(b) \in Halves \X Halves /\ FrameOf(b)[1] = b[1] /\ FrameOf(b)[2] = b[2]
<1>1. Len(b) \in Nat /\ 2 <= Len(b) /\ Len(b) <= Len(b) /\ 2 + 1 = 3
  BY LenProperties
<1>2. /\ SubSeq(b, 2 + 1, Len(b)) \in Seq(Halves) /\ Len(SubSeq(b, 2 + 1, Len(b))) = Len(b) - 2
      /\ \A i \in 1 .. Len(b) - 2 : SubSeq(b, 2 + 1, Len(b))[i] = b[2 + i]
  BY <1>1, Part
<1>3. b[1] \in Halves /\ b[2] \in Halves
  <2>1. 1 \in 1 .. Len(b) /\ 2 \in 1 .. Len(b)
    BY <1>1
  <2> QED  BY <2>1, ElementOfSeq
<1>4. FrameOf(b) \in Halves \X Halves /\ FrameOf(b)[1] = b[1] /\ FrameOf(b)[2] = b[2]
  BY <1>3 DEF FrameOf
<1> QED  BY <1>1, <1>2, <1>4 DEF Rest

\* What Down does.
Downlinked(K, c, x) ==
    /\ Carries(conn, K)
    /\ \A d \in Conns : K[d].up = conn[d].up /\ (d # c => K[d] = conn[d])
    /\ K[c].down = IF "link" \in conn[c].open THEN Append(conn[c].down, x) ELSE conn[c].down
Piece(f, h) == f[IF h THEN 2 ELSE 1]
\* A piece sent by the modem.
LEMMA DownOK ==
    ASSUME Wires(conn), NEW c \in Conns, NEW f \in Halves \X Halves, NEW h \in BOOLEAN,
           Usable("modem", c)
    PROVE  Piece(f, h) \in Halves /\ Downlinked(Down(c, f, h), c, Piece(f, h))
<1>1. PICK x \in Halves : x = Piece(f, h)
  BY DEF Piece
<1>2. CASE "link" \notin conn[c].open
  BY <1>1, <1>2, TameItself DEF Down, Downlinked
<1>3. CASE "link" \in conn[c].open
  <2>1. conn[c].down \in Seq(Halves)
    BY DEF Wires, Connection
  <2>2. PICK w : w = Append(conn[c].down, x)
    OBVIOUS
  <2>3. w \in Seq(Halves)
    BY <2>1, <2>2, AppendProperties
  <2>4. Down(c, f, h) = PutsDown(conn, c, w)
    BY <1>1, <1>3, <2>2 DEF Down, PutsDown, Piece
  <2>5. Alive(conn[c], "link")
    BY <1>3 DEF Alive, Usable
  <2>6. /\ Carries(conn, PutsDown(conn, c, w)) /\ PutsDown(conn, c, w)[c].down = w
        /\ \A d \in Conns : /\ PutsDown(conn, c, w)[d].up = conn[d].up
                            /\ d # c => PutsDown(conn, c, w)[d] = conn[d]
    BY <2>3, <2>5, PutDown
  <2> QED  BY <1>1, <1>3, <2>2, <2>4, <2>6 DEF Downlinked
<1> QED  BY <1>1, <1>2, <1>3

\* What _drop_client does.
Drops(cs) ==
    /\ Tame(conn, conn') /\ clients' = clients \ cs
    /\ \A d \in Conns : d \in clients /\ "modem" \in conn'[d].open => d \in clients'
    /\ \A d \in Conns : IF d \in cs THEN Ended(conn[d], conn'[d], "modem") ELSE conn'[d] = conn[d]
\* DropClients drops.
LEMMA DropsOK ==
    ASSUME Wires(conn), NEW cs, DropClients(cs)
    PROVE  Drops(cs)
<1>1. conn' = Close(conn, "modem", cs) /\ clients' = clients \ cs
  BY DEF DropClients
<1>2. /\ Tame(conn, conn')
      /\ \A d \in Conns : IF d \in cs THEN Ended(conn[d], conn'[d], "modem") ELSE conn'[d] = conn[d]
  BY <1>1, Closing
<1>3. \A d \in Conns : d \in cs => "modem" \notin conn'[d].open
  BY <1>2 DEF Ended
<1> QED  BY <1>1, <1>2, <1>3 DEF Drops

\* Whoever is still used is registered.
LEMMA StillRegistered ==
    ASSUME Registered, Tame(conn, conn'), UNCHANGED <<stopped, listening>>,
           \A c \in Conns : c \in clients /\ "modem" \in conn'[c].open => c \in clients',
           \A c \in Conns : Uses(c)' /\ c \notin clients' => Uses(c)
    PROVE  Registered'
<1>1. \A c \in Conns : "modem" \in conn'[c].open => "modem" \in conn[c].open
  BY DEF Tame
<1>2. ASSUME NEW c \in Conns, Uses(c)', "modem" \in conn'[c].open PROVE c \in clients'
  BY <1>1, <1>2 DEF Registered
<1>3. stopped' => ~listening' /\ \A c \in Conns : "modem" \notin conn'[c].open
  BY <1>1 DEF Registered
<1> QED  BY <1>2, <1>3 DEF Registered

\* A step of the thread of c.
ThreadStep(c) ==
    /\ srv' \in [Conns -> [pc : SrvPcs, buf : Seq(Halves), half : BOOLEAN]]
    /\ \A d \in Conns : d # c => srv'[d] = srv[d]
    /\ srv[c].pc # "wait" /\ srv'[c].pc # "wait"
    /\ srv'[c].pc \in {"off", "end"} => srv'[c].buf = <<>>
    /\ srv'[c].pc \in {"one", "all"} => Len(srv'[c].buf) >= 2
    /\ srv'[c].half => srv'[c].pc = "one" /\ FALSE \in options.delay
    /\ srv'[c].pc = "one" => options.echo
    /\ srv'[c].pc # "off" /\ srv[c].pc = "off" => c \in clients'

\* The broadcast and the scheduler do not move.
Elsewhere ==
    /\ UNCHANGED stations /\ UNCHANGED <<options, stopped, listening, bcast, sched, ogms>>
    /\ txq' \in SUBSET Delayed /\ (TRUE \notin options.delay => txq' = {})
    /\ clients' \in SUBSET Conns
    /\ \A d \in Conns : d \in clients /\ "modem" \in conn'[d].open => d \in clients'
\* Then the invariant is kept.
LEMMA ThreadMoves ==
    ASSUME BenchInv, NEW c \in Conns, Tame(conn, conn'), ThreadStep(c), Elsewhere
    PROVE  BenchInv'
<1> USE DEF ThreadStep, Elsewhere
<1>1. /\ ModemTypes /\ ModemFrames /\ Threads /\ Registered /\ Modes
      /\ bcast \in Sending /\ sched \in Sending /\ ogms \in Nat
  BY ModemParts
<1>2. ModemTypes' /\ ModemFrames'
  BY <1>1 DEF ModemTypes, ModemFrames
<1>3. Threads'
  <2>1. ASSUME NEW d \in Conns
        PROVE  /\ srv'[d].pc \in {"off", "end"} => srv'[d].buf = <<>>
               /\ srv'[d].pc \in {"one", "all", "wait"} => Len(srv'[d].buf) >= 2
               /\ srv'[d].half => srv'[d].pc = "one"
               /\ srv'[d].pc = "one" => options.echo
    <3>1. CASE d = c
      BY <3>1
    <3>2. CASE d # c
      BY <1>1, <3>2 DEF Threads
    <3> QED  BY <3>1, <3>2
  <2>2. bcast'.by \in Conns => srv'[bcast'.by].pc = "wait"
    BY <1>1 DEF Threads
  <2> QED  BY <2>1, <2>2 DEF Threads
<1>4. Modes'
  <2>1. FALSE \notin options.delay => \A d \in Conns : ~srv'[d].half
    BY <1>1 DEF Modes
  <2> QED  BY <1>1, <2>1 DEF Modes
<1>5. Registered'
  <2>1. \A d \in Conns : Uses(d)' /\ d \notin clients' => Uses(d)
    <3> SUFFICES ASSUME NEW d \in Conns, Uses(d)', d \notin clients' PROVE Uses(d)
      OBVIOUS
    <3>1. CASE d = c
      BY <3>1 DEF Uses
    <3>2. CASE d # c
      BY <3>2 DEF Uses
    <3> QED  BY <3>1, <3>2
  <2> QED  BY <1>1, <2>1, StillRegistered
<1>6. Sent \subseteq Sent'
  BY SameSent
<1> QED  BY <1>2, <1>3, <1>4, <1>5, <1>6, ModemMovesOn DEF ModemSide

\* recv of _client_loop: the client is registered.
LEMMA ClientRecvFacts ==
    ASSUME BenchInv, NEW c \in Conns, ClientRecv(c)
    PROVE  /\ UNCHANGED stations
           /\ UNCHANGED <<options, stopped, listening, bcast, sched, ogms, txq, clients>>
           /\ srv[c].pc = "recv" /\ Usable("modem", c) /\ LockFree
           /\ \E k \in 1 .. Len(conn[c].up) :
                LET u == SubSeq(conn[c].up, k + 1, Len(conn[c].up))
                    b == srv[c].buf \o SubSeq(conn[c].up, 1, k) IN
                /\ k \in Nat
                /\ SubSeq(conn[c].up, 1, k) \in Seq(Halves)
                /\ u \in Seq(Halves) /\ b \in Seq(Halves)
                /\ conn' = PutsUp(conn, c, u) /\ Srv(c, Todo(b), b)
                /\ Carries(conn, conn') /\ conn'[c].up = u
                /\ \A d \in Conns : conn'[d].down = conn[d].down /\ (d # c => conn'[d] = conn[d])
<1>1. /\ UNCHANGED stations /\ srv[c].pc = "recv" /\ Usable("modem", c) /\ LockFree
      /\ UNCHANGED <<options, stopped, listening, bcast, sched, ogms, txq, clients>>
  BY DEF ClientRecv
<1>2. c \in clients
  BY <1>1 DEF BenchInv, ModemSide, Registered, Uses, Usable
<1>3. PICK v : v = conn[c].up
  OBVIOUS
<1>4. PICK k \in 1 .. Len(v) :
           /\ conn' = PutsUp(conn, c, SubSeq(v, k + 1, Len(v)))
           /\ Srv(c, Todo(srv[c].buf \o SubSeq(v, 1, k)), srv[c].buf \o SubSeq(v, 1, k))
  BY <1>2, <1>3 DEF ClientRecv, PutsUp
<1>5. v \in Seq(Halves) /\ srv[c].buf \in Seq(Halves) /\ Wires(conn)
  BY <1>3, ModemParts DEF Wires, Connection
<1>6. k \in Nat /\ Len(v) \in Nat /\ k <= Len(v) /\ 0 + 1 = 1 /\ 0 \in Nat /\ 0 <= k
      /\ Len(v) <= Len(v)
  BY <1>5, LenProperties
<1>7. SubSeq(v, 1, k) \in Seq(Halves)
  BY <1>5, <1>6, Part
<1>8. PICK u \in Seq(Halves) : u = SubSeq(v, k + 1, Len(v))
  BY <1>5, <1>6, Part
<1>9. srv[c].buf \o SubSeq(v, 1, k) \in Seq(Halves)
  BY <1>5, <1>7, ConcatProperties
<1>10. Alive(conn[c], "modem")
  BY <1>1 DEF Alive, Usable
<1>11. /\ Carries(conn, PutsUp(conn, c, u)) /\ PutsUp(conn, c, u)[c].up = u
       /\ \A d \in Conns : /\ PutsUp(conn, c, u)[d].down = conn[d].down
                           /\ d # c => PutsUp(conn, c, u)[d] = conn[d]
  BY <1>5, <1>10, PutUp
<1>12. conn' = PutsUp(conn, c, u)
  BY <1>4, <1>8
<1> QED  BY <1>1, <1>3, <1>4, <1>6, <1>7, <1>8, <1>9, <1>11, <1>12

\* _accept_loop and _client_loop.
LEMMA ServeBench ==
    ASSUME ModemInv, BenchInv, NEW c \in Conns,
           Accept(c) \/ ClientRecv(c) \/ ClientRecvEnds(c) \/ ClientEnds(c)
    PROVE  BenchInv'
<1>1. /\ ModemTypes /\ Threads /\ Registered /\ Modes /\ Wires(conn) /\ Tame(conn, conn)
      /\ txq \in SUBSET Delayed /\ clients \in SUBSET Conns
  BY ModemParts
<1>2. TRUE \notin options.delay => txq = {}
  BY <1>1 DEF Modes
<1>3. <<>> \in Seq(Halves) /\ {"recv", "end", "off"} \subseteq SrvPcs
  BY DEF SrvPcs
<1>4. CASE Accept(c)
  <2>1. /\ UNCHANGED stations
        /\ UNCHANGED <<options, stopped, listening, bcast, sched, ogms, txq, conn>>
        /\ srv[c].pc = "off" /\ clients' = clients \cup {c} /\ Srv(c, "recv", <<>>)
    BY <1>4 DEF Accept
  <2>2. /\ srv' \in [Conns -> [pc : SrvPcs, buf : Seq(Halves), half : BOOLEAN]]
        /\ srv'[c].pc = "recv" /\ srv'[c].half = FALSE
        /\ \A d \in Conns : d # c => srv'[d] = srv[d]
    BY <1>1, <1>3, <2>1, SrvOK
  <2>3. ThreadStep(c)
    BY <2>1, <2>2 DEF ThreadStep
  <2>4. Elsewhere
    BY <1>1, <1>2, <2>1 DEF Elsewhere
  <2> QED  BY <1>1, <2>1, <2>3, <2>4, ThreadMoves
<1>5. CASE ClientRecv(c)
  <2>1. /\ UNCHANGED stations
        /\ UNCHANGED <<options, stopped, listening, bcast, sched, ogms, txq, clients>>
        /\ srv[c].pc = "recv"
    BY <1>5, ClientRecvFacts
  <2>2. PICK b \in Seq(Halves) : Srv(c, Todo(b), b) /\ Carries(conn, conn')
    BY <1>5, ClientRecvFacts
  <2>3. Tame(conn, conn')
    BY <2>2, CarriesTame
  <2>4. /\ srv' \in [Conns -> [pc : SrvPcs, buf : Seq(Halves), half : BOOLEAN]]
        /\ srv'[c].pc = Todo(b) /\ srv'[c].buf = b /\ srv'[c].half = FALSE
        /\ \A d \in Conns : d # c => srv'[d] = srv[d]
    BY <1>1, <2>2, TodoOK, SrvOK
  <2>5. /\ srv'[c].pc \in {"recv", "one", "all"}
        /\ srv'[c].pc # "recv" => Len(srv'[c].buf) >= 2
        /\ srv'[c].pc = "one" => options.echo
    BY <2>4, TodoOK
  <2>6. ThreadStep(c)
    BY <2>1, <2>4, <2>5 DEF ThreadStep
  <2>7. Elsewhere
    BY <1>1, <1>2, <2>1 DEF Elsewhere
  <2> QED  BY <2>3, <2>6, <2>7, ThreadMoves
<1>6. CASE ClientRecvEnds(c)
  <2>1. /\ UNCHANGED stations
        /\ UNCHANGED <<options, stopped, listening, bcast, sched, ogms, txq, conn, clients>>
        /\ srv[c].pc = "recv" /\ Srv(c, "end", <<>>)
    BY <1>6 DEF ClientRecvEnds
  <2>2. /\ srv' \in [Conns -> [pc : SrvPcs, buf : Seq(Halves), half : BOOLEAN]]
        /\ srv'[c].pc = "end" /\ srv'[c].half = FALSE /\ srv'[c].buf = <<>>
        /\ \A d \in Conns : d # c => srv'[d] = srv[d]
    BY <1>1, <1>3, <2>1, SrvOK
  <2>3. ThreadStep(c)
    BY <2>1, <2>2 DEF ThreadStep
  <2>4. Elsewhere
    BY <1>1, <1>2, <2>1 DEF Elsewhere
  <2> QED  BY <1>1, <2>1, <2>3, <2>4, ThreadMoves
<1>7. CASE ClientEnds(c)
  <2>1. /\ UNCHANGED stations
        /\ UNCHANGED <<options, stopped, listening, bcast, sched, ogms, txq>>
        /\ srv[c].pc = "end" /\ Srv(c, "off", <<>>) /\ DropClients({c} \cap clients)
    BY <1>7 DEF ClientEnds
  <2>2. /\ srv' \in [Conns -> [pc : SrvPcs, buf : Seq(Halves), half : BOOLEAN]]
        /\ srv'[c].pc = "off" /\ srv'[c].half = FALSE /\ srv'[c].buf = <<>>
        /\ \A d \in Conns : d # c => srv'[d] = srv[d]
    BY <1>1, <1>3, <2>1, SrvOK
  <2>3. PICK cs : cs = {c} \cap clients
    OBVIOUS
  <2>4. Drops(cs)
    BY <1>1, <2>1, <2>3, DropsOK
  <2>5. ThreadStep(c)
    BY <2>1, <2>2 DEF ThreadStep
  <2>6. Elsewhere
    BY <1>1, <1>2, <2>1, <2>4 DEF Elsewhere, Drops
  <2> QED  BY <2>4, <2>5, <2>6, ThreadMoves DEF Drops
<1> QED  BY <1>4, <1>5, <1>6, <1>7

\* send_to_one.
LEMMA EchoBench ==
    ASSUME ModemInv, BenchInv, NEW c \in Conns, EchoFrame(c) \/ EchoFails(c)
    PROVE  BenchInv'
<1>1. /\ ModemTypes /\ Threads /\ Registered /\ Modes /\ Wires(conn) /\ Tame(conn, conn)
      /\ txq \in SUBSET Delayed /\ clients \in SUBSET Conns
      /\ srv \in [Conns -> [pc : SrvPcs, buf : Seq(Halves), half : BOOLEAN]]
  BY ModemParts
<1>2. /\ UNCHANGED stations /\ UNCHANGED <<options, stopped, listening, bcast, sched, ogms>>
      /\ srv[c].pc = "one"
  BY DEF EchoFrame, EchoFails
<1>3. /\ srv[c].buf \in Seq(Halves) /\ Len(srv[c].buf) >= 2 /\ options.echo
      /\ TRUE \notin options.delay => txq = {}
      /\ srv[c].half \in BOOLEAN
      /\ srv[c].half => FALSE \in options.delay
  BY <1>1, <1>2 DEF Threads, Modes
<1>4. FrameOf(srv[c].buf) \in Halves \X Halves
  BY <1>3, RestOK
<1>5. "all" \in SrvPcs /\ "one" \in SrvPcs
  BY DEF SrvPcs
<1>6. CASE EchoFrame(c)
  <2>1. UNCHANGED clients
    BY <1>6 DEF EchoFrame
  <2>2. CASE /\ ~srv[c].half /\ conn' = conn /\ srv' = [srv EXCEPT ![c].pc = "all"]
             /\ \/ txq' = txq
                \/ /\ TRUE \in options.delay
                   /\ txq' = txq \cup {[by |-> c, to |-> c, frame |-> FrameOf(srv[c].buf)]}
    <3>1. /\ srv' \in [Conns -> [pc : SrvPcs, buf : Seq(Halves), half : BOOLEAN]]
          /\ srv'[c].pc = "all" /\ srv'[c].buf = srv[c].buf /\ ~srv'[c].half
          /\ \A d \in Conns : d # c => srv'[d] = srv[d]
      BY <1>1, <1>5, <2>2
    <3>2. txq' \in SUBSET Delayed /\ (TRUE \notin options.delay => txq' = {})
      <4>1. [by |-> c, to |-> c, frame |-> FrameOf(srv[c].buf)] \in Delayed
        BY <1>4 DEF Delayed
      <4> QED  BY <1>1, <1>3, <2>2, <4>1
    <3>3. ThreadStep(c)
      BY <1>2, <1>3, <3>1 DEF ThreadStep
    <3>4. Elsewhere
      BY <1>1, <1>2, <2>1, <3>2 DEF Elsewhere
    <3> QED  BY <1>1, <2>2, <3>3, <3>4, ThreadMoves
  <2>3. CASE /\ FALSE \in options.delay /\ Usable("modem", c) /\ txq' = txq
             /\ conn' = Down(c, FrameOf(srv[c].buf), srv[c].half)
             /\ srv' = [srv EXCEPT ![c].half = ~srv[c].half,
                                   ![c].pc = IF srv[c].half THEN "all" ELSE "one"]
    <3>1. Tame(conn, conn')
      BY <1>1, <1>3, <1>4, <2>3, DownOK, CarriesTame DEF Downlinked
    <3>2. PICK h \in BOOLEAN : h = srv[c].half
      BY <1>3
    <3>3. PICK p \in SrvPcs : p = IF h THEN "all" ELSE "one"
      BY <1>5
    <3>4. srv' = [srv EXCEPT ![c].half = ~h, ![c].pc = p]
      BY <2>3, <3>2, <3>3
    <3>5. /\ srv' \in [Conns -> [pc : SrvPcs, buf : Seq(Halves), half : BOOLEAN]]
          /\ srv'[c].pc = p /\ srv'[c].buf = srv[c].buf /\ srv'[c].half = ~h
          /\ \A d \in Conns : d # c => srv'[d] = srv[d]
      BY <1>1, <3>4
    <3>6. p \in {"one", "all"} /\ (~h => p = "one")
      BY <3>3
    <3>7. ThreadStep(c)
      BY <1>2, <1>3, <2>3, <3>5, <3>6 DEF ThreadStep
    <3>8. Elsewhere
      BY <1>1, <1>2, <1>3, <2>1, <2>3 DEF Elsewhere
    <3> QED  BY <3>1, <3>7, <3>8, ThreadMoves
  <2> QED  BY <1>6, <2>2, <2>3 DEF EchoFrame
<1>7. CASE EchoFails(c)
  <2>1. /\ DropClients({c} \cap clients) /\ txq' = txq
        /\ srv' = [srv EXCEPT ![c].pc = "all", ![c].half = FALSE]
    BY <1>7 DEF EchoFails
  <2>2. /\ srv' \in [Conns -> [pc : SrvPcs, buf : Seq(Halves), half : BOOLEAN]]
        /\ srv'[c].pc = "all" /\ srv'[c].buf = srv[c].buf /\ srv'[c].half = FALSE
        /\ \A d \in Conns : d # c => srv'[d] = srv[d]
    BY <1>1, <1>5, <2>1
  <2>3. PICK cs : cs = {c} \cap clients
    OBVIOUS
  <2>4. Drops(cs)
    BY <1>1, <2>1, <2>3, DropsOK
  <2>5. ThreadStep(c)
    BY <1>2, <1>3, <2>1, <2>2 DEF ThreadStep
  <2>6. Elsewhere
    BY <1>1, <1>2, <1>3, <2>1, <2>4 DEF Elsewhere, Drops
  <2> QED  BY <2>4, <2>5, <2>6, ThreadMoves DEF Drops
<1> QED  BY <1>6, <1>7

\* A step of the broadcast: what becomes of it, and of the thread that made it.
Airs ==
    /\ bcast' \in Sending
    /\ bcast'.todo # {} \/ bcast'.now # None => bcast'.frame \in Halves \X Halves
    /\ bcast'.by \in Conns => srv'[bcast'.by].pc = "wait"
    /\ bcast'.half <=> bcast'.now # None
    /\ bcast'.now \notin bcast'.dead \cup bcast'.todo /\ bcast'.todo \cap bcast'.dead = {}
    /\ FALSE \notin options.delay => bcast'.now = None /\ bcast'.dead = {}
    /\ ~(options.broadcast \/ options.fake_ogm) =>
         bcast'.todo = {} /\ bcast'.now = None /\ bcast'.dead = {}
    /\ \A d \in Conns : d \in bcast'.todo \cup bcast'.dead \cup {bcast'.now} =>
                          d \in bcast.todo \cup bcast.dead \cup {bcast.now} \cup clients'
ThreadsKept ==
    /\ srv' \in [Conns -> [pc : SrvPcs, buf : Seq(Halves), half : BOOLEAN]]
    /\ \A d \in Conns :
         \/ srv'[d] = srv[d]
         \/ /\ srv[d].pc # "off" /\ srv'[d].pc \in {"recv", "one", "all", "wait"} /\ ~srv'[d].half
            /\ srv'[d].pc # "recv" => Len(srv'[d].buf) >= 2
            /\ srv'[d].pc = "one" => options.echo
\* Then the invariant is kept.
LEMMA BroadcastMoves ==
    ASSUME BenchInv, UNCHANGED stations, UNCHANGED <<options, stopped, listening, sched>>,
           Tame(conn, conn'), Sent \subseteq Sent', ogms' \in Nat, Airs, ThreadsKept,
           txq' \in SUBSET Delayed, TRUE \notin options.delay => txq' = {},
           clients' \in SUBSET Conns,
           \A d \in Conns : d \in clients /\ "modem" \in conn'[d].open => d \in clients'
    PROVE  BenchInv'
<1>1. /\ ModemTypes /\ ModemFrames /\ Threads /\ Registered /\ Modes
      /\ bcast \in Sending /\ sched \in Sending
  BY ModemParts
<1>2. ModemTypes'
  BY <1>1 DEF ModemTypes, Airs, ThreadsKept
<1>3. ModemFrames'
  BY <1>1 DEF ModemFrames, Airs
<1>4. Threads'
  <2>1. ASSUME NEW d \in Conns
        PROVE  /\ srv'[d].pc \in {"off", "end"} => srv'[d].buf = <<>>
               /\ srv'[d].pc \in {"one", "all", "wait"} => Len(srv'[d].buf) >= 2
               /\ srv'[d].half => srv'[d].pc = "one"
               /\ srv'[d].pc = "one" => options.echo
    <3>1. CASE srv'[d] = srv[d]
      BY <1>1, <3>1 DEF Threads
    <3>2. CASE srv'[d] # srv[d]
      BY <3>2 DEF ThreadsKept
    <3> QED  BY <3>1, <3>2
  <2> QED  BY <2>1 DEF Threads, Airs
<1>5. Modes'
  <2>1. \A d \in Conns : srv'[d].half => srv[d].half
    BY DEF ThreadsKept
  <2> QED  BY <1>1, <2>1 DEF Modes, Airs
<1>6. Registered'
  <2>1. \A d \in Conns : Uses(d)' /\ d \notin clients' => Uses(d)
    <3> SUFFICES ASSUME NEW d \in Conns, Uses(d)', d \notin clients' PROVE Uses(d)
      OBVIOUS
    <3>1. srv'[d].pc # "off" => srv[d].pc # "off"
      BY DEF ThreadsKept
    <3> QED  BY <3>1 DEF Uses, Airs
  <2> QED  BY <1>1, <2>1, StillRegistered
<1> QED  BY <1>2, <1>3, <1>4, <1>5, <1>6, ModemMovesOn DEF ModemSide

\* The broadcast begins.
Begins(b, y, f) ==
    /\ b \in Sending /\ b.by = y /\ b.frame = f /\ b.todo = clients
    /\ b.now = None /\ b.half = FALSE /\ b.dead = {}
\* Broadcasting begins one.
LEMMA BroadcastingOK ==
    ASSUME clients \in SUBSET Conns, NEW y \in Conns \cup {Modem}, NEW f \in Halves \X Halves
    PROVE  Begins(Broadcasting(y, f), y, f)
<1>1. PICK q : q = [Quiet EXCEPT !.by = y]
  OBVIOUS
<1>2. /\ q \in Sending /\ q.by = y /\ q.now = None /\ q.half = FALSE /\ q.dead = {}
  BY <1>1, QuietOK DEF Sending
<1>3. PICK r : r = [q EXCEPT !.frame = f]
  OBVIOUS
<1>4. /\ r \in Sending /\ r.by = y /\ r.frame = f /\ r.now = None /\ r.half = FALSE /\ r.dead = {}
  BY <1>2, <1>3 DEF Sending
<1>5. PICK z : z = [r EXCEPT !.todo = clients]
  OBVIOUS
<1>6. /\ z \in Sending /\ z.by = y /\ z.frame = f /\ z.now = None /\ z.half = FALSE /\ z.dead = {}
      /\ z.todo = clients
  BY <1>4, <1>5 DEF Sending
<1>7. Broadcasting(y, f) = z
  <2>1. PICK a, b, c, d, e, g :
            Quiet = [by |-> a, frame |-> b, todo |-> c, now |-> d, half |-> e, dead |-> g]
    BY DEF Quiet
  <2> QED  BY <1>1, <1>3, <1>5, <2>1 DEF Broadcasting
<1> QED  BY <1>6, <1>7 DEF Begins

\* send_to_all begins.
LEMMA BeginBench ==
    ASSUME ModemInv, BenchInv, NEW c \in Conns, BroadcastFrame(c)
    PROVE  BenchInv'
<1>1. /\ ModemTypes /\ Threads /\ Registered /\ Modes /\ Wires(conn) /\ Tame(conn, conn)
      /\ txq \in SUBSET Delayed /\ clients \in SUBSET Conns
      /\ srv \in [Conns -> [pc : SrvPcs, buf : Seq(Halves), half : BOOLEAN]]
  BY ModemParts
<1>2. /\ UNCHANGED stations
      /\ UNCHANGED <<options, stopped, listening, conn, clients, txq, sched, ogms>>
      /\ srv[c].pc = "all"
  BY DEF BroadcastFrame
<1>3. /\ srv[c].buf \in Seq(Halves) /\ Len(srv[c].buf) >= 2 /\ ~srv[c].half
      /\ TRUE \notin options.delay => txq = {}
  BY <1>1, <1>2 DEF Threads, Modes
<1>4. FrameOf(srv[c].buf) \in Halves \X Halves /\ Rest(srv[c].buf) \in Seq(Halves)
  BY <1>3, RestOK
<1>5. CASE options.broadcast
  <2>1. /\ LockFree /\ bcast' = Broadcasting(c, FrameOf(srv[c].buf))
        /\ srv' = [srv EXCEPT ![c].pc = "wait"]
    BY <1>5 DEF BroadcastFrame
  <2>2. /\ bcast' \in Sending /\ bcast'.by = c /\ bcast'.frame = FrameOf(srv[c].buf)
        /\ bcast'.todo = clients /\ bcast'.now = None /\ bcast'.half = FALSE /\ bcast'.dead = {}
    <3>1. PICK f : f = FrameOf(srv[c].buf)
      OBVIOUS
    <3>2. Begins(bcast', c, f)
      BY <1>1, <1>4, <2>1, <3>1, BroadcastingOK
    <3> QED  BY <3>1, <3>2 DEF Begins
  <2>3. /\ srv' \in [Conns -> [pc : SrvPcs, buf : Seq(Halves), half : BOOLEAN]]
        /\ srv'[c].pc = "wait" /\ srv'[c].buf = srv[c].buf /\ ~srv'[c].half
        /\ \A d \in Conns : d # c => srv'[d] = srv[d]
    <3>1. "wait" \in SrvPcs
      BY DEF SrvPcs
    <3> QED  BY <1>1, <1>3, <2>1, <3>1
  <2>4. ThreadsKept
    BY <1>2, <1>3, <2>3 DEF ThreadsKept
  <2>5. Airs
    BY <1>1, <1>2, <1>4, <1>5, <2>2, <2>3, ConnAssumption DEF Airs
  <2>6. Sent \subseteq Sent' /\ ogms' \in Nat
    BY <1>1, <1>2, SameSent DEF ModemTypes
  <2> QED  BY <1>1, <1>2, <1>3, <2>4, <2>5, <2>6, BroadcastMoves
<1>6. CASE ~options.broadcast
  <2>1. Srv(c, Todo(Rest(srv[c].buf)), Rest(srv[c].buf)) /\ bcast' = bcast
    BY <1>6 DEF BroadcastFrame
  <2>2. /\ srv' \in [Conns -> [pc : SrvPcs, buf : Seq(Halves), half : BOOLEAN]]
        /\ srv'[c].pc = Todo(Rest(srv[c].buf)) /\ srv'[c].buf = Rest(srv[c].buf)
        /\ srv'[c].half = FALSE /\ \A d \in Conns : d # c => srv'[d] = srv[d]
    <3>1. PICK b \in Seq(Halves) : b = Rest(srv[c].buf)
      BY <1>4
    <3>2. PICK t \in SrvPcs : t = Todo(b)
      BY <3>1, TodoOK
    <3>3. Srv(c, t, b)
      BY <2>1, <3>1, <3>2
    <3>4. /\ srv' \in [Conns -> [pc : SrvPcs, buf : Seq(Halves), half : BOOLEAN]]
          /\ srv'[c].pc = t /\ srv'[c].buf = b
          /\ srv'[c].half = FALSE /\ \A d \in Conns : d # c => srv'[d] = srv[d]
      BY <1>1, <3>3, SrvOK
    <3> QED  BY <3>1, <3>2, <3>4
  <2>3. /\ srv'[c].pc \in {"recv", "one", "all"}
        /\ srv'[c].pc # "recv" => Len(srv'[c].buf) >= 2
        /\ srv'[c].pc = "one" => options.echo
    BY <1>4, <2>2, TodoOK
  <2>4. ThreadStep(c)
    BY <1>2, <2>2, <2>3 DEF ThreadStep
  <2>5. Elsewhere
    BY <1>1, <1>2, <1>3, <2>1 DEF Elsewhere
  <2> QED  BY <1>1, <1>2, <2>4, <2>5, ThreadMoves
<1> QED  BY <1>5, <1>6

\* _fake_ogm_loop numbers its frames.
LEMMA OgmFacts ==
    ASSUME BenchInv, InjectOgm
    PROVE  /\ Sent \subseteq Sent' /\ Frame(Modem, ogms + 1) \in Sent' /\ ogms' \in Nat
           /\ Pieces(Frame(Modem, ogms + 1)) \in Halves \X Halves
<1>1. ogms \in Nat /\ ogms' = ogms + 1 /\ sent' = sent
  BY ModemParts DEF InjectOgm, stations
<1>2. Frame(Modem, ogms + 1) \in Frames /\ Frame(Modem, ogms + 1).no = ogms + 1
      /\ Frame(Modem, ogms + 1).src = Modem
  BY <1>1 DEF Frame, Frames
<1>3. Sent \subseteq Sent'
  <2> SUFFICES ASSUME NEW f \in Sent PROVE f \in Sent'
    OBVIOUS
  <2>1. f \in Frames /\ f.src \in Stations \cup {Modem} /\ f.no \in Nat
    BY DEF Sent, Frames
  <2>2. CASE f.src = Modem
    <3>1. f.no \in 1 .. ogms
      BY <2>2 DEF Sent
    <3>2. f.no \in 1 .. ogms'
      BY <1>1, <2>1, <3>1
    <3> QED  BY <2>1, <2>2, <3>2 DEF Sent
  <2>3. CASE f.src # Modem
    BY <1>1, <2>1, <2>3 DEF Sent
  <2> QED  BY <2>2, <2>3
<1>4. Frame(Modem, ogms + 1) \in Sent'
  BY <1>1, <1>2 DEF Sent
<1>5. Pieces(Frame(Modem, ogms + 1)) \in Halves \X Halves
  BY <1>2, PiecesOK
<1>6. ogms' \in Nat
  BY <1>1
<1> QED  BY <1>3, <1>4, <1>5, <1>6

\* Its broadcast begins.
LEMMA OgmBench ==
    ASSUME ModemInv, BenchInv, InjectOgm
    PROVE  BenchInv'
<1>1. /\ ModemTypes /\ Threads /\ Registered /\ Modes /\ Wires(conn) /\ Tame(conn, conn)
      /\ txq \in SUBSET Delayed /\ clients \in SUBSET Conns
      /\ srv \in [Conns -> [pc : SrvPcs, buf : Seq(Halves), half : BOOLEAN]]
  BY ModemParts
<1>2. /\ UNCHANGED stations
      /\ UNCHANGED <<options, stopped, listening, conn, clients, txq, sched, srv>>
      /\ LockFree /\ options.fake_ogm
      /\ bcast' = Broadcasting(Modem, Pieces(Frame(Modem, ogms + 1)))
  BY DEF InjectOgm
<1>3. /\ Sent \subseteq Sent' /\ ogms' \in Nat
      /\ Pieces(Frame(Modem, ogms + 1)) \in Halves \X Halves
  BY OgmFacts
<1>4. /\ bcast' \in Sending /\ bcast'.by = Modem
      /\ bcast'.frame = Pieces(Frame(Modem, ogms + 1))
      /\ bcast'.todo = clients /\ bcast'.now = None /\ bcast'.half = FALSE /\ bcast'.dead = {}
  <2>1. PICK f : f = Pieces(Frame(Modem, ogms + 1))
    OBVIOUS
  <2>2. Begins(bcast', Modem, f)
    BY <1>1, <1>2, <1>3, <2>1, BroadcastingOK
  <2> QED  BY <2>1, <2>2 DEF Begins
<1>5. Airs
  BY <1>1, <1>2, <1>3, <1>4, ConnAssumption, ModemAssumption DEF Airs
<1>6. ThreadsKept
  BY <1>1, <1>2 DEF ThreadsKept
<1>7. TRUE \notin options.delay => txq = {}
  BY <1>1 DEF Modes
<1> QED  BY <1>1, <1>2, <1>3, <1>5, <1>6, <1>7, BroadcastMoves

\* A broadcast, field by field.
Is(z, y, f, t, n, h, x) ==
    z \in Sending /\ z.by = y /\ z.frame = f /\ z.todo = t /\ z.now = n /\ z.half = h /\ z.dead = x

\* It serves its next client, or fails to.
LEMMA AirFields ==
    ASSUME NEW b \in Sending, NEW h \in BOOLEAN, NEW n \in Socket, NEW t \in SUBSET Conns,
           NEW x \in SUBSET Conns
    PROVE  /\ Is([b EXCEPT !.todo = t], b.by, b.frame, t, b.now, b.half, b.dead)
           /\ Is([b EXCEPT !.half = h, !.todo = t, !.now = n], b.by, b.frame, t, n, h, b.dead)
           /\ Is([b EXCEPT !.half = h, !.todo = t, !.now = n, !.dead = x],
                 b.by, b.frame, t, n, h, x)
<1>1. PICK p, q, r, u, v, w :
          b = [by |-> p, frame |-> q, todo |-> r, now |-> u, half |-> v, dead |-> w]
  BY DEF Sending
<1>2. PICK e : e = [b EXCEPT !.half = h]
  OBVIOUS
<1>3. Is(e, b.by, b.frame, b.todo, b.now, h, b.dead)
  BY <1>2 DEF Sending, Is
<1>4. PICK g : g = [e EXCEPT !.todo = t]
  OBVIOUS
<1>5. Is(g, b.by, b.frame, t, b.now, h, b.dead)
  BY <1>3, <1>4 DEF Sending, Is
<1>6. PICK z : z = [g EXCEPT !.now = n]
  OBVIOUS
<1>7. Is(z, b.by, b.frame, t, n, h, b.dead)
  BY <1>5, <1>6 DEF Sending, Is
<1>8. [b EXCEPT !.half = h, !.todo = t, !.now = n] = z
  BY <1>1, <1>2, <1>4, <1>6
<1>9. [b EXCEPT !.half = h, !.todo = t, !.now = n, !.dead = x] = [z EXCEPT !.dead = x]
  BY <1>1, <1>2, <1>4, <1>6
<1>10. Is([b EXCEPT !.todo = t], b.by, b.frame, t, b.now, b.half, b.dead)
  BY DEF Sending, Is
<1>11. Is([z EXCEPT !.dead = x], b.by, b.frame, t, n, h, x)
  BY <1>7 DEF Sending, Is
<1> QED  BY <1>7, <1>8, <1>9, <1>10, <1>11

\* What SkipClient and WriteClient do.
Skips(c) ==
    /\ c \in bcast.todo /\ bcast.now = None
    /\ Is(bcast', bcast.by, bcast.frame, bcast.todo \ {c}, bcast.now, bcast.half, bcast.dead)
    /\ conn' = conn
    /\ \/ txq' = txq
       \/ /\ TRUE \in options.delay
          /\ txq' = txq \cup {[by |-> bcast.by, to |-> c, frame |-> bcast.frame]}
Serves(c) ==
    /\ FALSE \in options.delay /\ txq' = txq
    /\ \/ c \in bcast.todo /\ bcast.now = None
       \/ c = bcast.now
    /\ \/ /\ Usable("modem", c)
          /\ Downlinked(conn', c, Piece(bcast.frame, bcast.half))
          /\ Is(bcast', bcast.by, bcast.frame, bcast.todo \ {c}, IF bcast.half THEN None ELSE c,
                ~bcast.half, bcast.dead)
       \/ /\ conn' = conn
          /\ Is(bcast', bcast.by, bcast.frame, bcast.todo \ {c}, None, FALSE, bcast.dead \cup {c})
\* Each of them skips or serves its client.
LEMMA AirFacts ==
    ASSUME BenchInv, NEW c \in Conns, SkipClient(c) \/ WriteClient(c)
    PROVE  /\ UNCHANGED stations
           /\ UNCHANGED <<options, stopped, listening, clients, srv, sched, ogms>>
           /\ bcast.frame \in Halves \X Halves /\ (bcast.todo # {} \/ bcast.now # None)
           /\ Skips(c) \/ Serves(c)
<1>1. /\ UNCHANGED stations
      /\ UNCHANGED <<options, stopped, listening, clients, srv, sched, ogms>>
  BY DEF SkipClient, WriteClient
<1>2. bcast \in Sending /\ Wires(conn) /\ ModemFrames
  BY ModemParts
<1>3. bcast.todo # {} \/ bcast.now # None
  BY ConnAssumption DEF SkipClient, WriteClient
<1>4. bcast.frame \in Halves \X Halves
  BY <1>2, <1>3 DEF ModemFrames
<1>5. PICK t \in SUBSET Conns, x \in SUBSET Conns : t = bcast.todo \ {c} /\ x = bcast.dead \cup {c}
  BY <1>2 DEF Sending
<1>6. CASE SkipClient(c)
  <2>1. bcast' = [bcast EXCEPT !.todo = t] /\ conn' = conn
    BY <1>5, <1>6 DEF SkipClient
  <2>2. Is(bcast', bcast.by, bcast.frame, t, bcast.now, bcast.half, bcast.dead)
    BY <1>2, <2>1, AirFields
  <2>3. Skips(c)
    BY <1>5, <1>6, <2>1, <2>2 DEF Skips, SkipClient
  <2> QED  BY <1>1, <1>3, <1>4, <2>3
<1>7. CASE WriteClient(c)
  <2>1. /\ FALSE \in options.delay /\ txq' = txq
        /\ (c \in bcast.todo /\ bcast.now = None) \/ c = bcast.now
    BY <1>7 DEF WriteClient
  <2>2. CASE /\ Usable("modem", c) /\ conn' = Down(c, bcast.frame, bcast.half)
             /\ bcast' = [bcast EXCEPT !.half = ~bcast.half, !.todo = bcast.todo \ {c},
                                       !.now = IF bcast.half THEN None ELSE c]
    <3>1. bcast.half \in BOOLEAN
      BY <1>2 DEF Sending
    <3>2. Downlinked(conn', c, Piece(bcast.frame, bcast.half))
      BY <1>2, <1>4, <2>2, <3>1, DownOK
    <3>3. PICK h \in BOOLEAN : h = ~bcast.half
      BY <3>1
    <3>4. PICK n \in Socket : n = IF bcast.half THEN None ELSE c
      OBVIOUS
    <3>5. bcast' = [bcast EXCEPT !.half = h, !.todo = t, !.now = n]
      BY <1>5, <2>2, <3>3, <3>4
    <3>6. Is(bcast', bcast.by, bcast.frame, t, n, h, bcast.dead)
      BY <1>2, <3>5, AirFields
    <3>7. Serves(c)
      BY <1>5, <2>1, <2>2, <3>2, <3>3, <3>4, <3>6 DEF Serves
    <3> QED  BY <1>1, <1>3, <1>4, <3>7
  <2>3. CASE /\ conn' = conn
             /\ bcast' = [bcast EXCEPT !.half = FALSE, !.todo = bcast.todo \ {c}, !.now = None,
                                       !.dead = bcast.dead \cup {c}]
    <3>1. PICK h \in BOOLEAN : h = FALSE
      OBVIOUS
    <3>2. PICK n \in Socket : n = None
      OBVIOUS
    <3>3. bcast' = [bcast EXCEPT !.half = h, !.todo = t, !.now = n, !.dead = x]
      BY <1>5, <2>3, <3>1, <3>2
    <3>4. Is(bcast', bcast.by, bcast.frame, t, n, h, x)
      BY <1>2, <3>3, AirFields
    <3>5. Serves(c)
      BY <1>5, <2>1, <2>3, <3>1, <3>2, <3>4 DEF Serves
    <3> QED  BY <1>1, <1>3, <1>4, <3>5
  <2> QED  BY <1>7, <2>2, <2>3 DEF WriteClient
<1> QED  BY <1>6, <1>7

\* The broadcast goes on.
LEMMA AirBench ==
    ASSUME ModemInv, BenchInv, NEW c \in Conns, SkipClient(c) \/ WriteClient(c)
    PROVE  BenchInv'
<1>1. /\ UNCHANGED stations
      /\ UNCHANGED <<options, stopped, listening, clients, srv, sched, ogms>>
      /\ bcast.frame \in Halves \X Halves /\ (bcast.todo # {} \/ bcast.now # None)
      /\ Skips(c) \/ Serves(c)
  BY AirFacts
<1>2. /\ Threads /\ Modes /\ Tame(conn, conn)
      /\ srv \in [Conns -> [pc : SrvPcs, buf : Seq(Halves), half : BOOLEAN]]
      /\ bcast \in Sending /\ txq \in SUBSET Delayed
      /\ clients \in SUBSET Conns /\ ogms \in Nat
  BY ModemParts
<1>3. ThreadsKept
  BY <1>1, <1>2 DEF ThreadsKept
<1>4. Sent \subseteq Sent' /\ ogms' \in Nat
  BY <1>1, <1>2, SameSent
<1>5. /\ bcast.by \in Conns => srv[bcast.by].pc = "wait"
      /\ bcast.half <=> bcast.now # None
      /\ bcast.now \notin bcast.dead \cup bcast.todo /\ bcast.todo \cap bcast.dead = {}
      /\ FALSE \notin options.delay => bcast.now = None /\ bcast.dead = {}
      /\ ~(options.broadcast \/ options.fake_ogm) => bcast.todo = {} /\ bcast.now = None
      /\ TRUE \notin options.delay => txq = {}
  BY <1>2 DEF Threads, Modes
<1>6. CASE Skips(c)
  <2>1. Is(bcast', bcast.by, bcast.frame, bcast.todo \ {c}, bcast.now, bcast.half, bcast.dead)
    BY <1>6 DEF Skips
  <2>2. Airs
    BY <1>1, <1>5, <2>1 DEF Airs, Is
  <2>3. txq' \in SUBSET Delayed /\ (TRUE \notin options.delay => txq' = {})
    <3>1. [by |-> bcast.by, to |-> c, frame |-> bcast.frame] \in Delayed
      BY <1>1, <1>2 DEF Delayed, Sending
    <3> QED  BY <1>2, <1>5, <1>6, <3>1 DEF Skips
  <2>4. Tame(conn, conn')
    BY <1>2, <1>6 DEF Skips
  <2> QED  BY <1>1, <1>2, <1>3, <1>4, <2>2, <2>3, <2>4, BroadcastMoves
<1>7. CASE Serves(c)
  <2>1. /\ FALSE \in options.delay /\ txq' = txq
        /\ (c \in bcast.todo /\ bcast.now = None) \/ c = bcast.now
        /\ c # None
    BY <1>7, ConnAssumption DEF Serves
  <2>2. CASE /\ Downlinked(conn', c, Piece(bcast.frame, bcast.half))
             /\ Is(bcast', bcast.by, bcast.frame, bcast.todo \ {c}, IF bcast.half THEN None ELSE c,
                   ~bcast.half, bcast.dead)
    <3>1. Tame(conn, conn')
      BY <2>2, CarriesTame DEF Downlinked
    <3>2. /\ bcast' \in Sending /\ bcast'.by = bcast.by /\ bcast'.frame = bcast.frame
          /\ bcast'.todo = bcast.todo \ {c} /\ bcast'.dead = bcast.dead
      BY <2>2 DEF Is
    <3>3. (bcast'.half <=> bcast'.now # None) /\ bcast'.now \in {None, c}
      BY <2>1, <2>2 DEF Is
    <3>4. None \notin Conns /\ bcast.dead \in SUBSET Conns /\ bcast.todo \in SUBSET Conns
      BY <1>2, ConnAssumption DEF Sending
    <3>5. bcast'.now \notin bcast'.dead \cup bcast'.todo /\ bcast'.todo \cap bcast'.dead = {}
      BY <1>5, <2>1, <3>2, <3>3, <3>4
    <3>6. /\ options.broadcast \/ options.fake_ogm
          /\ \A d \in Conns : d \in bcast'.todo \cup bcast'.dead \cup {bcast'.now} =>
                               d \in bcast.todo \cup bcast.dead \cup {bcast.now}
      BY <1>5, <2>1, <3>2, <3>3, ConnAssumption
    <3>7. Airs
      BY <1>1, <1>5, <2>1, <3>2, <3>3, <3>5, <3>6 DEF Airs
    <3> QED  BY <1>1, <1>2, <1>3, <1>4, <1>5, <2>1, <3>1, <3>7, BroadcastMoves
  <2>3. CASE /\ conn' = conn
             /\ Is(bcast', bcast.by, bcast.frame, bcast.todo \ {c}, None, FALSE, bcast.dead \cup {c})
    <3>1. Tame(conn, conn')
      BY <1>2, <2>3
    <3>2. /\ bcast' \in Sending /\ bcast'.by = bcast.by /\ bcast'.frame = bcast.frame
          /\ bcast'.todo = bcast.todo \ {c} /\ bcast'.dead = bcast.dead \cup {c}
          /\ bcast'.half = FALSE /\ bcast'.now = None
      BY <2>3 DEF Is
    <3>3. None \notin Conns /\ bcast.dead \in SUBSET Conns /\ bcast.todo \in SUBSET Conns
      BY <1>2, ConnAssumption DEF Sending
    <3>4. bcast'.now \notin bcast'.dead \cup bcast'.todo /\ bcast'.todo \cap bcast'.dead = {}
      BY <1>5, <3>2, <3>3
    <3>5. /\ options.broadcast \/ options.fake_ogm
          /\ \A d \in Conns : d \in bcast'.todo \cup bcast'.dead \cup {bcast'.now} =>
                               d \in bcast.todo \cup bcast.dead \cup {bcast.now}
      BY <1>5, <2>1, <3>2, ConnAssumption
    <3>6. Airs
      BY <1>1, <1>5, <2>1, <3>2, <3>4, <3>5 DEF Airs
    <3> QED  BY <1>1, <1>2, <1>3, <1>4, <1>5, <2>1, <3>1, <3>6, BroadcastMoves
  <2> QED  BY <1>7, <2>2, <2>3 DEF Serves
<1> QED  BY <1>1, <1>6, <1>7

\* The end of a broadcast.
LEMMA EndBench ==
    ASSUME ModemInv, BenchInv, BroadcastEnds
    PROVE  BenchInv'
<1>1. /\ ModemTypes /\ Threads /\ Modes /\ Wires(conn)
      /\ srv \in [Conns -> [pc : SrvPcs, buf : Seq(Halves), half : BOOLEAN]]
      /\ bcast \in Sending /\ txq \in SUBSET Delayed
      /\ clients \in SUBSET Conns /\ ogms \in Nat
  BY ModemParts
<1>2. /\ UNCHANGED stations /\ UNCHANGED <<options, stopped, listening, txq, sched, ogms>>
      /\ bcast' = Quiet /\ DropClients(bcast.dead)
  BY DEF BroadcastEnds
<1>3. PICK cs : cs = bcast.dead
  OBVIOUS
<1>4. Drops(cs)
  BY <1>1, <1>2, <1>3, DropsOK
<1>5. Airs
  BY <1>2, QuietOK, ConnAssumption DEF Airs
<1>6. ThreadsKept
  <2>1. CASE bcast.by \in Conns
    <3>1. PICK c \in Conns : c = bcast.by
      BY <2>1
    <3>2. PICK b : b = Rest(srv[c].buf)
      OBVIOUS
    <3>3. srv[c].pc = "wait" /\ Len(srv[c].buf) >= 2 /\ srv[c].buf \in Seq(Halves)
      BY <1>1, <3>1 DEF Threads
    <3>4. b \in Seq(Halves)
      BY <3>2, <3>3, RestOK
    <3>5. Srv(c, Todo(b), b)
      BY <2>1, <3>1, <3>2 DEF BroadcastEnds
    <3>6. /\ srv' \in [Conns -> [pc : SrvPcs, buf : Seq(Halves), half : BOOLEAN]]
          /\ srv'[c].pc = Todo(b) /\ srv'[c].buf = b /\ srv'[c].half = FALSE
          /\ \A d \in Conns : d # c => srv'[d] = srv[d]
      BY <1>1, <3>4, <3>5, TodoOK, SrvOK
    <3>7. /\ srv'[c].pc \in {"recv", "one", "all"}
          /\ srv'[c].pc # "recv" => Len(srv'[c].buf) >= 2
          /\ srv'[c].pc = "one" => options.echo
      BY <3>4, <3>6, TodoOK
    <3> QED  BY <3>3, <3>6, <3>7 DEF ThreadsKept
  <2>2. CASE bcast.by \notin Conns
    BY <1>1, <2>2 DEF BroadcastEnds, ThreadsKept
  <2> QED  BY <2>1, <2>2
<1>7. Sent \subseteq Sent' /\ ogms' \in Nat
  BY <1>1, <1>2, SameSent
<1>8. TRUE \notin options.delay => txq = {}
  BY <1>1 DEF Modes
<1> QED  BY <1>1, <1>2, <1>4, <1>5, <1>6, <1>7, <1>8, BroadcastMoves DEF Drops

\* A step of _tx_scheduler_loop.
LEMMA SchedulerMoves ==
    ASSUME BenchInv, UNCHANGED stations,
           UNCHANGED <<options, stopped, listening, bcast, srv, ogms>>,
           Tame(conn, conn'), txq' \subseteq txq, sched' \in Sending,
           sched'.now # None => sched'.frame \in Halves \X Halves /\ TRUE \in options.delay,
           sched'.half => sched'.now # None,
           sched'.now \in {None, sched.now} \cup clients',
           clients' \in SUBSET Conns,
           \A d \in Conns : d \in clients /\ "modem" \in conn'[d].open => d \in clients'
    PROVE  BenchInv'
<1>1. /\ ModemTypes /\ ModemFrames /\ Threads /\ Registered /\ Modes
      /\ txq \in SUBSET Delayed
  BY ModemParts
<1>2. ModemTypes' /\ ModemFrames' /\ Threads' /\ Modes'
  <2>1. ModemTypes'
    BY <1>1 DEF ModemTypes
  <2>2. ModemFrames'
    BY <1>1 DEF ModemFrames
  <2>3. Threads'
    BY <1>1 DEF Threads
  <2>4. Modes'
    BY <1>1 DEF Modes
  <2> QED  BY <2>1, <2>2, <2>3, <2>4
<1>3. Registered'
  <2>1. \A d \in Conns : Uses(d)' /\ d \notin clients' => Uses(d)
    BY ConnAssumption DEF Uses
  <2> QED  BY <1>1, <2>1, StillRegistered
<1>4. Sent \subseteq Sent'
  BY SameSent
<1> QED  BY <1>2, <1>3, <1>4, ModemMovesOn DEF ModemSide

\* What Schedule and SendDelayed do.
Takes(q) ==
    /\ q \in txq /\ sched = Quiet /\ LockFree /\ txq' = txq \ {q}
    /\ UNCHANGED <<conn, clients>>
    /\ \/ sched' = Quiet
       \/ q.to \in clients /\ Is(sched', None, q.frame, {}, q.to, FALSE, {})
Delivers ==
    LET c == sched.now IN
    /\ c \in Conns /\ txq' = txq
    /\ \/ /\ Usable("modem", c) /\ clients' = clients
          /\ Downlinked(conn', c, Piece(sched.frame, sched.half))
          /\ IF sched.half THEN sched' = Quiet
             ELSE Is(sched', sched.by, sched.frame, sched.todo, c, TRUE, sched.dead)
       \/ LockFree /\ Drops({c} \cap clients) /\ sched' = Quiet
\* Its step takes a frame, or delivers one.
LEMMA SchedulerFacts ==
    ASSUME BenchInv, SchedulerStep
    PROVE  /\ UNCHANGED stations
           /\ UNCHANGED <<options, stopped, listening, bcast, srv, ogms>>
           /\ (\E q \in txq : Takes(q)) \/ Delivers
<1>1. /\ UNCHANGED stations /\ UNCHANGED <<options, stopped, listening, bcast, srv, ogms>>
  BY DEF SchedulerStep, Schedule, SendDelayed
<1>2. sched \in Sending /\ Wires(conn) /\ ModemFrames /\ txq \in SUBSET Delayed
  BY ModemParts
<1>3. ASSUME NEW q \in txq, Schedule(q) PROVE Takes(q)
  <2>1. /\ sched = Quiet /\ LockFree /\ txq' = txq \ {q} /\ UNCHANGED <<conn, clients>>
    BY <1>3 DEF Schedule
  <2>2. CASE q.to \in clients
    <3>1. PICK f, n : f = q.frame /\ n = q.to
      OBVIOUS
    <3>2. f \in Halves \X Halves /\ n \in Conns
      BY <1>2, <3>1 DEF Delayed
    <3>3. PICK e : e = [Quiet EXCEPT !.frame = f]
      OBVIOUS
    <3>4. Is(e, None, f, {}, None, FALSE, {})
      BY <3>2, <3>3, QuietOK DEF Sending, Is
    <3>5. PICK g : g = [e EXCEPT !.now = n]
      OBVIOUS
    <3>6. Is(g, None, f, {}, n, FALSE, {})
      BY <3>2, <3>4, <3>5 DEF Sending, Is
    <3>7. [Quiet EXCEPT !.frame = f, !.now = n] = g
      <4>1. PICK p, r, t, u, v, w :
                Quiet = [by |-> p, frame |-> r, todo |-> t, now |-> u, half |-> v, dead |-> w]
        BY DEF Quiet
      <4> QED  BY <3>3, <3>5, <4>1
    <3>8. sched' = g
      BY <1>3, <2>2, <3>1, <3>7 DEF Schedule
    <3> QED  BY <2>1, <2>2, <3>1, <3>6, <3>8 DEF Takes
  <2>3. CASE q.to \notin clients
    BY <1>3, <2>1, <2>3 DEF Takes, Schedule
  <2> QED  BY <2>2, <2>3
<1>4. ASSUME SendDelayed PROVE Delivers
  <2>1. PICK c : c = sched.now
    OBVIOUS
  <2>2. c \in Conns /\ txq' = txq /\ sched.frame \in Halves \X Halves /\ sched.half \in BOOLEAN
    BY <1>2, <1>4, <2>1 DEF SendDelayed, Sending, ModemFrames
  <2>3. CASE /\ Usable("modem", c) /\ conn' = Down(c, sched.frame, sched.half) /\ clients' = clients
             /\ sched' = IF sched.half THEN Quiet ELSE [sched EXCEPT !.half = TRUE]
    <3>1. Downlinked(conn', c, Piece(sched.frame, sched.half))
      BY <1>2, <2>2, <2>3, DownOK
    <3>2. Is([sched EXCEPT !.half = TRUE], sched.by, sched.frame, sched.todo, c, TRUE, sched.dead)
      BY <1>2, <2>1 DEF Sending, Is
    <3> QED  BY <2>1, <2>2, <2>3, <3>1, <3>2 DEF Delivers
  <2>4. CASE LockFree /\ DropClients({c} \cap clients) /\ sched' = Quiet
    <3>1. PICK cs : cs = {c} \cap clients
      OBVIOUS
    <3>2. Drops(cs)
      BY <1>2, <2>4, <3>1, DropsOK
    <3> QED  BY <2>1, <2>2, <2>4, <3>1, <3>2 DEF Delivers
  <2> QED  BY <1>4, <2>1, <2>3, <2>4 DEF SendDelayed
<1> QED  BY <1>1, <1>3, <1>4 DEF SchedulerStep

\* _tx_scheduler_loop keeps the invariant.
LEMMA SchedulerBench ==
    ASSUME ModemInv, BenchInv, SchedulerStep
    PROVE  BenchInv'
<1>1. /\ UNCHANGED stations /\ UNCHANGED <<options, stopped, listening, bcast, srv, ogms>>
      /\ (\E q \in txq : Takes(q)) \/ Delivers
  BY SchedulerFacts
<1>2. /\ sched \in Sending /\ Tame(conn, conn) /\ ModemFrames /\ Modes /\ txq \in SUBSET Delayed
      /\ clients \in SUBSET Conns
  BY ModemParts
<1>3. ASSUME NEW q \in txq, Takes(q) PROVE BenchInv'
  <2>1. TRUE \in options.delay /\ q.frame \in Halves \X Halves
    BY <1>2 DEF Modes, Delayed
  <2>2. /\ sched' \in Sending /\ sched'.now \in {None} \cup clients /\ sched'.half = FALSE
        /\ sched'.now # None => sched'.frame = q.frame
    BY <1>3, QuietOK DEF Takes, Is
  <2>3. txq' \subseteq txq /\ UNCHANGED <<conn, clients>>
    BY <1>3 DEF Takes
  <2> QED  BY <1>1, <1>2, <2>1, <2>2, <2>3, SchedulerMoves
<1>4. CASE Delivers
  <2>1. PICK c \in Conns : c = sched.now
    BY <1>4 DEF Delivers
  <2>2. c # None /\ txq' = txq
    BY <1>4, ConnAssumption DEF Delivers
  <2>3. sched.frame \in Halves \X Halves /\ TRUE \in options.delay
    BY <1>2, <2>1, <2>2 DEF Modes, ModemFrames
  <2>4. CASE /\ clients' = clients /\ Downlinked(conn', c, Piece(sched.frame, sched.half))
             /\ IF sched.half THEN sched' = Quiet
                ELSE Is(sched', sched.by, sched.frame, sched.todo, c, TRUE, sched.dead)
    <3>1. Tame(conn, conn')
      BY <2>4, CarriesTame DEF Downlinked
    <3>2. /\ sched' \in Sending /\ sched'.now \in {None, c} /\ (sched'.half => sched'.now = c)
          /\ sched'.now # None => sched'.frame = sched.frame
      BY <2>4, QuietOK DEF Is
    <3> QED  BY <1>1, <1>2, <2>1, <2>2, <2>3, <2>4, <3>1, <3>2, SchedulerMoves
  <2>5. CASE Drops({c} \cap clients) /\ sched' = Quiet
    <3>1. PICK cs : cs = {c} \cap clients
      OBVIOUS
    <3>2. /\ Tame(conn, conn') /\ clients' \in SUBSET Conns
          /\ \A d \in Conns : d \in clients /\ "modem" \in conn'[d].open => d \in clients'
      BY <1>2, <2>5, <3>1 DEF Drops
    <3>3. sched' \in Sending /\ sched'.now = None /\ sched'.half = FALSE
      BY <2>5, QuietOK
    <3> QED  BY <1>1, <2>2, <3>2, <3>3, SchedulerMoves
  <2> QED  BY <1>4, <2>1, <2>4, <2>5 DEF Delivers
<1> QED  BY <1>1, <1>3, <1>4

\* stop() of the modem.
Halts ==
    /\ UNCHANGED stations /\ UNCHANGED <<options, srv, bcast, txq, sched, ogms>> /\ LockFree
    /\ clients' = {} /\ stopped' /\ ~listening' /\ Tame(conn, conn')
    /\ \A d \in Conns : /\ "modem" \notin conn'[d].open
                        /\ conn'[d] = conn[d] \/ Ended(conn[d], conn'[d], "modem")
\* No connection is open at the modem after it.
LEMMA HaltFacts ==
    ASSUME BenchInv, ModemStops
    PROVE  Halts
<1>1. /\ UNCHANGED stations /\ UNCHANGED <<options, srv, bcast, txq, sched, ogms>> /\ LockFree
      /\ clients' = {} /\ stopped' /\ ~listening'
      /\ conn' = Close(conn, "modem", {c \in Conns : "modem" \in conn[c].open})
  BY DEF ModemStops
<1>2. PICK cs : cs = {c \in Conns : "modem" \in conn[c].open}
  OBVIOUS
<1>3. /\ Tame(conn, conn')
      /\ \A c \in Conns : IF c \in cs THEN Ended(conn[c], conn'[c], "modem") ELSE conn'[c] = conn[c]
  BY <1>1, <1>2, ModemParts, Closing
<1>4. \A d \in Conns : "modem" \notin conn'[d].open
  BY <1>2, <1>3 DEF Ended
<1> QED  BY <1>1, <1>3, <1>4 DEF Halts

\* It keeps the invariant.
LEMMA HaltBench ==
    ASSUME ModemInv, BenchInv, ModemStops
    PROVE  BenchInv'
<1>1. Halts
  BY HaltFacts
<1> USE DEF Halts
<1>2. /\ ModemTypes /\ ModemFrames /\ Threads /\ Modes
  BY ModemParts
<1>3. ModemTypes'
  BY <1>1, <1>2 DEF ModemTypes
<1>4. ModemFrames' /\ Threads' /\ Modes'
  BY <1>1, <1>2 DEF ModemFrames, Threads, Modes
<1>5. Registered'
  BY <1>1 DEF Registered
<1>6. Sent \subseteq Sent'
  BY <1>1, SameSent
<1> QED  BY <1>1, <1>3, <1>4, <1>5, <1>6, ModemMovesOn DEF ModemSide

\* In the beginning nothing is on its way.
LEMMA BenchInit ==
    ASSUME Init PROVE BenchInv
<1>1. LinkInit /\ clients = {} /\ bcast = Quiet /\ txq = {} /\ sched = Quiet /\ ogms = 0
      /\ stopped = FALSE /\ srv = [c \in Conns |-> NoThread]
  BY DEF Init
<1>2. NoThread \in [pc : SrvPcs, buf : Seq(Halves), half : BOOLEAN]
      /\ NoThread.pc = "off" /\ NoThread.buf = <<>> /\ NoThread.half = FALSE
  <2>1. <<>> \in Seq(Halves) /\ "off" \in SrvPcs
    BY DEF SrvPcs
  <2> QED  BY <2>1 DEF NoThread
<1>3. /\ srv \in [Conns -> [pc : SrvPcs, buf : Seq(Halves), half : BOOLEAN]]
      /\ \A c \in Conns : srv[c].pc = "off" /\ srv[c].buf = <<>> /\ srv[c].half = FALSE
  BY <1>1, <1>2
<1>4. ModemTypes
  BY <1>1, <1>3, QuietOK DEF ModemTypes
<1>5. ModemFrames /\ Modes
  BY <1>1, <1>3, QuietOK DEF ModemFrames, Modes, LinkInit
<1>6. Threads
  BY <1>1, <1>3, QuietOK, ConnAssumption DEF Threads
<1>7. Registered
  BY <1>1, <1>3, QuietOK, ConnAssumption DEF Registered, Uses
<1>8. ConnOK(NoConn) /\ NoConn.open = {}
  <2>1. <<>> \in Seq(Halves)
    OBVIOUS
  <2> QED  BY <2>1 DEF NoConn, ConnOK, Connection
<1>9. conn = [c \in Conns |-> NoConn]
  BY <1>1 DEF LinkInit
<1>10. Wires(conn) /\ Mine
  BY <1>8, <1>9 DEF Wires, ConnOK, Mine
<1>11. LinkTypes /\ LinkFrames
  <2>1. /\ sent = [s \in Stations |-> 0] /\ queue = [s \in Stations |-> <<>>]
        /\ buffer = [s \in Stations |-> <<>>] /\ received = [s \in Stations |-> <<>>]
        /\ rx = [s \in Stations |-> [pc |-> IF running[s] THEN "top" ELSE "done", sock |-> None]]
        /\ tx = [s \in Stations |-> [pc |-> IF running[s] THEN "get" ELSE "done",
                                     frame |-> None, sock |-> None]]
    BY <1>1 DEF LinkInit
  <2>2. /\ sent \in [Stations -> Nat] /\ queue \in [Stations -> Seq(Frames)]
        /\ buffer \in [Stations -> Seq(Halves)]
        /\ received \in [Stations -> Seq(Halves \X Halves)]
    BY <2>1
  <2>3. tx \in [Stations -> [pc : TxPcs, frame : Frames \cup {None}, sock : Socket]]
    BY <2>1 DEF TxPcs
  <2>4. \A s \in Stations : /\ queue[s] = <<>> /\ Len(queue[s]) = 0 /\ tx[s].pc # "send"
                            /\ rx[s].pc \in {"top", "done"}
    BY <2>1
  <2>5. \A s \in Stations : \A i \in 1 .. Len(queue[s]) : FALSE
    BY <2>4
  <2>6. LinkTypes
    BY <2>2, <2>3 DEF LinkTypes
  <2>7. LinkFrames
    BY <2>4, <2>5 DEF LinkFrames
  <2> QED  BY <2>6, <2>7
<1> QED  BY <1>4, <1>5, <1>6, <1>7, <1>10, <1>11 DEF BenchInv, ModemSide

\* Every step keeps the invariant.
LEMMA BenchStep ==
    ASSUME ModemInv, BenchInv, [Next]_allVars PROVE BenchInv'
<1>1. CASE UNCHANGED allVars
  <2>1. /\ UNCHANGED modem
        /\ UNCHANGED <<sent, listening, queue, rx, tx, buffer, received, sock, conn>>
    BY <1>1 DEF allVars, vars, threads, link
  <2>2. Sent' = Sent
    BY <2>1 DEF Sent, modem
  <2>3. LinkTypes' /\ LinkFrames' /\ Tame(conn, conn')
    BY <2>1, <2>2, BenchTypes DEF LinkTypes, LinkFrames
  <2> QED  BY <2>1, <2>3, LinkMovesOn
<1>2. ASSUME NEW s \in Stations, LinkStep(s), UNCHANGED modem PROVE BenchInv'
  BY <1>2, RxBench, TxBench, StopBench, SendBench DEF LinkStep, SendStep
<1>3. ASSUME NEW s \in Stations, NEW c \in Unused, Connect(s, c), UNCHANGED modem PROVE BenchInv'
  BY <1>3, ConnectBench
<1>4. ASSUME NEW c \in Conns, Reset(c), UNCHANGED modem PROVE BenchInv'
  BY <1>4, ResetBench
<1>5. ASSUME NEW c \in Conns, ServeStep(c) PROVE BenchInv'
  BY <1>5, ServeBench, EchoBench, BeginBench DEF ServeStep
<1>6. CASE BroadcastStep
  BY <1>6, AirBench, EndBench DEF BroadcastStep
<1>7. CASE SchedulerStep \/ InjectOgm \/ ModemStops
  BY <1>7, SchedulerBench, OgmBench, HaltBench
<1> QED  BY <1>1, <1>2, <1>3, <1>4, <1>5, <1>6, <1>7 DEF Next, StationStep

-----------------------------------------------------------------------------
(* What travels is whole frames, and perhaps the first piece of one more.  *)

Flow(w, S) ==
    \A i \in Nat \ {0} :
        2 * i - 1 <= Len(w) => \E f \in S : /\ w[2 * i - 1] = <<f, 1>>
                                            /\ 2 * i <= Len(w) => w[2 * i] = <<f, 2>>
Open(w) == \E n \in Nat : Len(w) = 2 * n + 1

\* Nothing travels.
LEMMA FlowEmpty == ASSUME NEW S PROVE Flow(<<>>, S) /\ ~Open(<<>>)
<1>1. Len(<<>>) = 0
  OBVIOUS
<1> QED  BY <1>1 DEF Flow, Open

\* More frames may be known.
LEMMA FlowMore == ASSUME NEW w, NEW S, NEW T, S \subseteq T, Flow(w, S) PROVE Flow(w, T)
  BY DEF Flow

\* The first piece of a frame.
LEMMA FlowFirst ==
    ASSUME NEW w \in Seq(Halves), NEW S, NEW f \in S, Flow(w, S), ~Open(w)
    PROVE  LET v == Append(w, <<f, 1>>) IN Flow(v, S) /\ Open(v) /\ v[Len(v)] = <<f, 1>>
<1> PICK x : x = <<f, 1>>
  OBVIOUS
<1> DEFINE v == Append(w, x)
<1>1. Len(w) \in Nat /\ Len(v) = Len(w) + 1 /\ v[Len(w) + 1] = x
      /\ \A i \in 1 .. Len(w) : v[i] = w[i]
  OBVIOUS
<1> HIDE DEF v
<1>2. PICK n \in Nat : Len(w) = 2 * n
  <2>1. \E n \in Nat : Len(w) = 2 * n \/ Len(w) = 2 * n + 1
    <3>1. /\ Len(w) \div 2 \in Nat
          /\ Len(w) = 2 * (Len(w) \div 2) \/ Len(w) = 2 * (Len(w) \div 2) + 1
      BY <1>1
    <3> QED  BY <3>1
  <2> QED  BY <2>1 DEF Open
<1>3. Flow(v, S)
  <2> SUFFICES ASSUME NEW i \in Nat \ {0}, 2 * i - 1 <= Len(v)
               PROVE  \E g \in S : /\ v[2 * i - 1] = <<g, 1>>
                                   /\ 2 * i <= Len(v) => v[2 * i] = <<g, 2>>
    BY DEF Flow
  <2>1. CASE i = n + 1
    <3>1. 2 * i - 1 = Len(w) + 1 /\ ~(2 * i <= Len(v))
      BY <1>1, <1>2, <2>1
    <3> QED  BY <1>1, <3>1
  <2>2. CASE i # n + 1
    <3>1. /\ i <= n /\ 2 * i - 1 \in 1 .. Len(w) /\ 2 * i \in 1 .. Len(w)
          /\ 2 * i - 1 <= Len(w) /\ 2 * i <= Len(w)
      BY <1>1, <1>2, <2>2
    <3>2. v[2 * i - 1] = w[2 * i - 1] /\ v[2 * i] = w[2 * i]
      BY <1>1, <3>1
    <3>3. \E g \in S : w[2 * i - 1] = <<g, 1>> /\ w[2 * i] = <<g, 2>>
      BY <3>1 DEF Flow
    <3> QED  BY <3>2, <3>3
  <2> QED  BY <2>1, <2>2
<1>4. Open(v)
  BY <1>1, <1>2 DEF Open
<1> QED  BY <1>1, <1>3, <1>4 DEF v

\* And the second.
LEMMA FlowSecond ==
    ASSUME NEW w \in Seq(Halves), NEW S, NEW f \in S, Flow(w, S), Open(w), w[Len(w)] = <<f, 1>>
    PROVE  LET v == Append(w, <<f, 2>>) IN Flow(v, S) /\ ~Open(v)
<1> PICK x : x = <<f, 2>>
  OBVIOUS
<1> DEFINE v == Append(w, x)
<1>1. Len(w) \in Nat /\ Len(v) = Len(w) + 1 /\ v[Len(w) + 1] = x
      /\ \A i \in 1 .. Len(w) : v[i] = w[i]
  OBVIOUS
<1> HIDE DEF v
<1>2. PICK n \in Nat : Len(w) = 2 * n + 1
  BY DEF Open
<1>3. Flow(v, S)
  <2> SUFFICES ASSUME NEW i \in Nat \ {0}, 2 * i - 1 <= Len(v)
               PROVE  \E g \in S : /\ v[2 * i - 1] = <<g, 1>>
                                   /\ 2 * i <= Len(v) => v[2 * i] = <<g, 2>>
    BY DEF Flow
  <2>1. CASE i = n + 1
    <3>1. 2 * i - 1 = Len(w) /\ 2 * i = Len(w) + 1 /\ Len(w) \in 1 .. Len(w)
      BY <1>1, <1>2, <2>1
    <3> QED  BY <1>1, <3>1
  <2>2. CASE i # n + 1
    <3>1. /\ i <= n /\ 2 * i - 1 \in 1 .. Len(w) /\ 2 * i \in 1 .. Len(w)
          /\ 2 * i - 1 <= Len(w) /\ 2 * i <= Len(w)
      BY <1>1, <1>2, <2>2
    <3>2. v[2 * i - 1] = w[2 * i - 1] /\ v[2 * i] = w[2 * i]
      BY <1>1, <3>1
    <3>3. \E g \in S : w[2 * i - 1] = <<g, 1>> /\ w[2 * i] = <<g, 2>>
      BY <3>1 DEF Flow
    <3> QED  BY <3>2, <3>3
  <2> QED  BY <2>1, <2>2
<1>4. ~Open(v)
  BY <1>1, <1>2 DEF Open
<1> QED  BY <1>3, <1>4 DEF v

\* Whole frames are taken away at the head.
LEMMA FlowCut ==
    ASSUME NEW w \in Seq(Halves), NEW S, Flow(w, S), NEW m \in Nat, 2 * m <= Len(w)
    PROVE  LET v == SubSeq(w, 2 * m + 1, Len(w)) IN
           /\ Flow(v, S) /\ (Open(v) <=> Open(w)) /\ (Open(v) => v[Len(v)] = w[Len(w)])
<1> DEFINE v == SubSeq(w, 2 * m + 1, Len(w))
<1>1. /\ Len(w) \in Nat /\ Len(v) = Len(w) - 2 * m
      /\ \A i \in 1 .. Len(w) - 2 * m : v[i] = w[2 * m + i]
  <2>1. PICK a : a = 2 * m
    OBVIOUS
  <2>2. a \in Nat /\ Len(w) \in Nat /\ a <= Len(w) /\ Len(w) <= Len(w)
    BY <2>1, LenProperties
  <2>3. /\ Len(SubSeq(w, a + 1, Len(w))) = Len(w) - a
        /\ \A i \in 1 .. Len(w) - a : SubSeq(w, a + 1, Len(w))[i] = w[a + i]
    BY <2>2, Part
  <2> QED  BY <2>1, <2>2, <2>3
<1> HIDE DEF v
<1>2. Flow(v, S)
  <2> SUFFICES ASSUME NEW i \in Nat \ {0}, 2 * i - 1 <= Len(v)
               PROVE  \E g \in S : /\ v[2 * i - 1] = <<g, 1>>
                                   /\ 2 * i <= Len(v) => v[2 * i] = <<g, 2>>
    BY DEF Flow
  <2>1. PICK k \in Nat \ {0} : k = m + i
    OBVIOUS
  <2>2. PICK g \in S : w[2 * k - 1] = <<g, 1>> /\ (2 * k <= Len(w) => w[2 * k] = <<g, 2>>)
    <3>1. 2 * k - 1 <= Len(w)
      BY <1>1, <2>1
    <3> QED  BY <3>1 DEF Flow
  <2>3. v[2 * i - 1] = w[2 * k - 1]
    <3>1. 2 * i - 1 \in 1 .. Len(w) - 2 * m /\ 2 * m + (2 * i - 1) = 2 * k - 1
      BY <1>1, <2>1
    <3> QED  BY <1>1, <3>1
  <2>4. ASSUME 2 * i <= Len(v) PROVE v[2 * i] = <<g, 2>>
    <3>1. 2 * i \in 1 .. Len(w) - 2 * m /\ 2 * m + 2 * i = 2 * k /\ 2 * k <= Len(w)
      BY <1>1, <2>1, <2>4
    <3> QED  BY <1>1, <2>2, <3>1
  <2> QED  BY <2>2, <2>3, <2>4
<1>3. Open(v) <=> Open(w)
  <2>1. ASSUME NEW n \in Nat, Len(v) = 2 * n + 1 PROVE Open(w)
    <3>1. m + n \in Nat /\ Len(w) = 2 * (m + n) + 1
      BY <1>1, <2>1
    <3> QED  BY <3>1 DEF Open
  <2>2. ASSUME NEW n \in Nat, Len(w) = 2 * n + 1 PROVE Open(v)
    <3>1. n - m \in Nat /\ Len(v) = 2 * (n - m) + 1
      BY <1>1, <2>2
    <3> QED  BY <3>1 DEF Open
  <2> QED  BY <2>1, <2>2 DEF Open
<1>4. Open(v) => v[Len(v)] = w[Len(w)]
  <2>1. ASSUME NEW n \in Nat, Len(v) = 2 * n + 1 PROVE v[Len(v)] = w[Len(w)]
    <3>1. Len(v) \in 1 .. Len(w) - 2 * m /\ 2 * m + Len(v) = Len(w)
      BY <1>1, <2>1
    <3> QED  BY <1>1, <3>1
  <2> QED  BY <2>1 DEF Open
<1> QED  BY <1>2, <1>3, <1>4 DEF v

\* The rest has not come yet.
LEMMA FlowBefore ==
    ASSUME NEW a \in Seq(Halves), NEW b \in Seq(Halves), NEW S, Flow(a \o b, S)
    PROVE  Flow(a, S)
<1> PICK w : w = a \o b
  OBVIOUS
<1>1. /\ Len(a) \in Nat /\ Len(b) \in Nat /\ Len(w) = Len(a) + Len(b)
      /\ \A i \in 1 .. Len(a) : w[i] = a[i]
  BY ConcatProperties, LenProperties
<1> SUFFICES ASSUME NEW i \in Nat \ {0}, 2 * i - 1 <= Len(a)
             PROVE  \E g \in S : a[2 * i - 1] = <<g, 1>> /\ (2 * i <= Len(a) => a[2 * i] = <<g, 2>>)
  BY DEF Flow
<1>2. PICK g \in S : w[2 * i - 1] = <<g, 1>> /\ (2 * i <= Len(w) => w[2 * i] = <<g, 2>>)
  <2>1. 2 * i - 1 <= Len(w)
    BY <1>1
  <2> QED  BY <2>1 DEF Flow
<1>3. a[2 * i - 1] = w[2 * i - 1]
  <2>1. 2 * i - 1 \in 1 .. Len(a)
    BY <1>1
  <2> QED  BY <1>1, <2>1
<1>4. ASSUME 2 * i <= Len(a) PROVE a[2 * i] = w[2 * i] /\ 2 * i <= Len(w)
  <2>1. 2 * i \in 1 .. Len(a) /\ 2 * i <= Len(w)
    BY <1>1, <1>4
  <2> QED  BY <1>1, <2>1
<1> QED  BY <1>2, <1>3, <1>4

\* The frames that are whole.
LEMMA FlowPair ==
    ASSUME NEW w \in Seq(Halves), NEW S, Flow(w, S), NEW i \in Nat \ {0}, 2 * i <= Len(w)
    PROVE  \E f \in S : <<w[2 * i - 1], w[2 * i]>> = Pieces(f)
<1>1. Len(w) \in Nat
  BY LenProperties
<1>2. 2 * i - 1 <= Len(w)
  BY <1>1
<1>3. PICK f \in S : w[2 * i - 1] = <<f, 1>> /\ w[2 * i] = <<f, 2>>
  BY <1>2 DEF Flow
<1> QED  BY <1>3 DEF Pieces

\* Concatenation is associative.
LEMMA Regroup ==
    ASSUME NEW a \in Seq(Halves), NEW b \in Seq(Halves), NEW d \in Seq(Halves)
    PROVE  (a \o b) \o d = a \o (b \o d)
<1>1. PICK x : x = (a \o b) \o d
  OBVIOUS
<1>2. PICK y : y = a \o (b \o d)
  OBVIOUS
<1>3. PICK u \in Seq(Halves) : u = a \o b
  BY ConcatProperties
<1>4. PICK v \in Seq(Halves) : v = b \o d
  BY ConcatProperties
<1>5. /\ Len(u) = Len(a) + Len(b) /\ Len(a) \in Nat /\ Len(b) \in Nat /\ Len(d) \in Nat
      /\ \A i \in 1 .. Len(a) + Len(b) : u[i] = IF i <= Len(a) THEN a[i] ELSE b[i - Len(a)]
  BY <1>3, ConcatProperties, LenProperties
<1>6. /\ Len(v) = Len(b) + Len(d)
      /\ \A i \in 1 .. Len(b) + Len(d) : v[i] = IF i <= Len(b) THEN b[i] ELSE d[i - Len(b)]
  BY <1>4, ConcatProperties
<1>7. /\ x \in Seq(Halves) /\ Len(x) = Len(u) + Len(d)
      /\ \A i \in 1 .. Len(u) + Len(d) : x[i] = IF i <= Len(u) THEN u[i] ELSE d[i - Len(u)]
  BY <1>1, <1>3, ConcatProperties
<1>8. /\ y \in Seq(Halves) /\ Len(y) = Len(a) + Len(v)
      /\ \A i \in 1 .. Len(a) + Len(v) : y[i] = IF i <= Len(a) THEN a[i] ELSE v[i - Len(a)]
  BY <1>2, <1>4, ConcatProperties
<1>9. Len(x) = Len(y) /\ Len(x) = Len(a) + Len(b) + Len(d)
  BY <1>5, <1>6, <1>7, <1>8
<1>10. ASSUME NEW i \in 1 .. Len(x) PROVE x[i] = y[i]
  <2>0. i \in Nat /\ 1 <= i /\ i <= Len(a) + Len(b) + Len(d)
    BY <1>5, <1>9
  <2>1. /\ x[i] = IF i <= Len(u) THEN u[i] ELSE d[i - Len(u)]
        /\ y[i] = IF i <= Len(a) THEN a[i] ELSE v[i - Len(a)]
    <3>1. i \in 1 .. Len(u) + Len(d) /\ i \in 1 .. Len(a) + Len(v)
      BY <1>5, <1>6, <2>0
    <3> QED  BY <1>7, <1>8, <3>1
  <2>2. CASE i <= Len(a) + Len(b)
    <3>1. i \in 1 .. Len(a) + Len(b) /\ i <= Len(u)
      BY <1>5, <2>0, <2>2
    <3>2. x[i] = IF i <= Len(a) THEN a[i] ELSE b[i - Len(a)]
      BY <1>5, <2>1, <3>1
    <3>3. ASSUME ~(i <= Len(a)) PROVE v[i - Len(a)] = b[i - Len(a)]
      <4>1. i - Len(a) \in 1 .. Len(b) + Len(d) /\ i - Len(a) <= Len(b)
        BY <1>5, <2>0, <2>2, <3>3
      <4> QED  BY <1>6, <4>1
    <3> QED  BY <2>1, <3>2, <3>3
  <2>3. CASE ~(i <= Len(a) + Len(b))
    <3>1. /\ ~(i <= Len(u)) /\ ~(i <= Len(a)) /\ i - Len(a) \in 1 .. Len(b) + Len(d)
          /\ ~(i - Len(a) <= Len(b)) /\ (i - Len(a)) - Len(b) = i - Len(u)
      BY <1>5, <2>0, <2>3
    <3>2. v[i - Len(a)] = d[(i - Len(a)) - Len(b)]
      BY <1>6, <3>1
    <3> QED  BY <2>1, <3>1, <3>2
  <2> QED  BY <2>2, <2>3
<1>11. x = y
  BY <1>7, <1>8, <1>9, <1>10, SeqEqual
<1> QED  BY <1>1, <1>2, <1>11

\* Pieces that change hands.
LEMMA Handed ==
    ASSUME NEW a \in Seq(Halves), NEW v \in Seq(Halves), NEW k \in 1 .. Len(v)
    PROVE  (a \o SubSeq(v, 1, k)) \o SubSeq(v, k + 1, Len(v)) = a \o v
<1>1. Len(v) \in Nat
  BY LenProperties
<1>2. /\ 1 \in 1 .. Len(v) + 1 /\ k \in 1 - 1 .. Len(v) /\ Len(v) \in k .. Len(v)
      /\ k \in Nat /\ 0 \in Nat /\ 0 <= k /\ k <= Len(v) /\ Len(v) <= Len(v) /\ 0 + 1 = 1
  BY <1>1
<1>3. SubSeq(v, 1, k) \o SubSeq(v, k + 1, Len(v)) = SubSeq(v, 1, Len(v))
  BY <1>2, ConcatAdjacentSubSeq
<1>4. SubSeq(v, 1, Len(v)) = v
  BY SubSeqFull
<1>5. SubSeq(v, 0 + 1, k) \in Seq(Halves) /\ SubSeq(v, k + 1, Len(v)) \in Seq(Halves)
  BY <1>1, <1>2, Part
<1>6. SubSeq(v, 1, k) \in Seq(Halves) /\ SubSeq(v, k + 1, Len(v)) \in Seq(Halves)
  BY <1>2, <1>5
<1>7. (a \o SubSeq(v, 1, k)) \o SubSeq(v, k + 1, Len(v))
        = a \o (SubSeq(v, 1, k) \o SubSeq(v, k + 1, Len(v)))
  <2>1. PICK p \in Seq(Halves) : p = SubSeq(v, 1, k)
    BY <1>6
  <2>2. PICK q \in Seq(Halves) : q = SubSeq(v, k + 1, Len(v))
    BY <1>6
  <2>3. (a \o p) \o q = a \o (p \o q)
    BY Regroup
  <2> QED  BY <2>1, <2>2, <2>3
<1> QED  BY <1>3, <1>4, <1>7

\* Pieces that are taken away at the head.
LEMMA CutHead ==
    ASSUME NEW b \in Seq(Halves), NEW u \in Seq(Halves), NEW n \in Nat, n <= Len(b)
    PROVE  /\ SubSeq(b, n + 1, Len(b)) \o u = SubSeq(b \o u, n + 1, Len(b \o u))
           /\ n <= Len(b \o u)
<1> PICK w : w = b \o u
  OBVIOUS
<1>1. /\ w \in Seq(Halves) /\ Len(w) = Len(b) + Len(u) /\ Len(b) \in Nat /\ Len(u) \in Nat
      /\ \A i \in 1 .. Len(b) + Len(u) : w[i] = IF i <= Len(b) THEN b[i] ELSE u[i - Len(b)]
  BY ConcatProperties, LenProperties
<1>2. PICK x : x = SubSeq(b, n + 1, Len(b))
  OBVIOUS
<1>3. x \in Seq(Halves) /\ Len(x) = Len(b) - n /\ \A i \in 1 .. Len(b) - n : x[i] = b[n + i]
  BY <1>1, <1>2, Part
<1>4. PICK y : y = SubSeq(w, n + 1, Len(w))
  OBVIOUS
<1>5. n <= Len(w) /\ Len(w) \in Nat /\ Len(w) <= Len(w)
  BY <1>1
<1>6. y \in Seq(Halves) /\ Len(y) = Len(w) - n /\ \A i \in 1 .. Len(w) - n : y[i] = w[n + i]
  <2>1. PICK m \in Nat : m = Len(w)
    BY <1>5
  <2>2. n <= m /\ m <= Len(w) /\ y = SubSeq(w, n + 1, m)
    BY <1>4, <1>5, <2>1
  <2>3. y \in Seq(Halves) /\ Len(y) = m - n /\ \A i \in 1 .. m - n : y[i] = w[n + i]
    BY <1>1, <2>2, Part
  <2> QED  BY <2>1, <2>3
<1>7. PICK z : z = x \o u
  OBVIOUS
<1>8. /\ z \in Seq(Halves) /\ Len(z) = Len(x) + Len(u)
      /\ \A i \in 1 .. Len(x) + Len(u) : z[i] = IF i <= Len(x) THEN x[i] ELSE u[i - Len(x)]
  BY <1>3, <1>7, ConcatProperties
<1>9. Len(z) = Len(y) /\ Len(z) = Len(b) + Len(u) - n
  BY <1>1, <1>3, <1>6, <1>8
<1>10. ASSUME NEW i \in 1 .. Len(z) PROVE z[i] = y[i]
  <2>0. i \in Nat /\ 1 <= i /\ i <= Len(b) + Len(u) - n
    BY <1>1, <1>9
  <2>1. y[i] = w[n + i]
    <3>1. i \in 1 .. Len(w) - n
      BY <1>1, <2>0
    <3> QED  BY <1>6, <3>1
  <2>2. n + i \in 1 .. Len(b) + Len(u) /\ i \in 1 .. Len(x) + Len(u)
    BY <1>1, <1>3, <2>0
  <2>3. CASE i <= Len(b) - n
    <3>1. n + i <= Len(b) /\ i \in 1 .. Len(b) - n /\ i <= Len(x)
      BY <1>1, <1>3, <2>0, <2>3
    <3> QED  BY <1>1, <1>3, <1>8, <2>1, <2>2, <3>1
  <2>4. CASE ~(i <= Len(b) - n)
    <3>1. ~(n + i <= Len(b)) /\ ~(i <= Len(x)) /\ (n + i) - Len(b) = i - Len(x)
      BY <1>1, <1>3, <2>0, <2>4
    <3> QED  BY <1>1, <1>8, <2>1, <2>2, <3>1
  <2> QED  BY <2>3, <2>4
<1>11. z = y
  BY <1>6, <1>8, <1>9, <1>10, SeqEqual
<1> QED  BY <1>2, <1>4, <1>5, <1>7, <1>11

\* Pieces that are added at the end.
LEMMA AddEnd ==
    ASSUME NEW a \in Seq(Halves), NEW v \in Seq(Halves), NEW x \in Halves
    PROVE  a \o Append(v, x) = Append(a \o v, x)
<1>1. Append(v, x) = v \o <<x>>
  BY AppendIsConcat
<1>2. <<x>> \in Seq(Halves) /\ a \o v \in Seq(Halves)
  BY ConcatProperties
<1>3. (a \o v) \o <<x>> = a \o (v \o <<x>>)
  BY <1>2, Regroup
<1>4. Append(a \o v, x) = (a \o v) \o <<x>>
  BY <1>2, AppendIsConcat
<1> QED  BY <1>1, <1>3, <1>4

\* A frame, or its first piece, added at the end.
LEMMA FlowFrame ==
    ASSUME NEW w \in Seq(Halves), NEW S \in SUBSET Frames, NEW f \in S, Flow(w, S), ~Open(w)
    PROVE  /\ Flow(w \o Pieces(f), S) /\ ~Open(w \o Pieces(f))
           /\ Flow(w \o <<<<f, 1>>>>, S)
<1>1. PICK x, y : x = <<f, 1>> /\ y = <<f, 2>>
  OBVIOUS
<1>2. x \in Halves /\ y \in Halves /\ Pieces(f) = <<x, y>>
  BY <1>1, PiecesOK DEF Pieces
<1>3. PICK v : v = Append(w, x)
  OBVIOUS
<1>4. Flow(v, S) /\ Open(v) /\ v[Len(v)] = <<f, 1>> /\ v \in Seq(Halves)
  BY <1>1, <1>2, <1>3, FlowFirst, AppendProperties
<1>5. Flow(Append(v, y), S) /\ ~Open(Append(v, y))
  BY <1>1, <1>4, FlowSecond
<1>6. v = w \o <<x>> /\ <<x>> \in Seq(Halves) /\ <<y>> \in Seq(Halves)
  BY <1>2, <1>3, AppendIsConcat
<1>7. Append(v, y) = v \o <<y>>
  BY <1>2, <1>4, AppendIsConcat
<1>8. v \o <<y>> = w \o (<<x>> \o <<y>>)
  BY <1>6, Regroup
<1>9. <<x>> \o <<y>> = <<x, y>>
  <2>1. PICK a \in Seq(Halves), b \in Seq(Halves) : a = <<x>> /\ b = <<y>>
    BY <1>6
  <2>2. Len(a) = 1 /\ Len(b) = 1 /\ a[1] = x /\ b[1] = y
    BY <2>1
  <2>3. PICK z : z = a \o b
    OBVIOUS
  <2>4. /\ z \in Seq(Halves) /\ Len(z) = Len(a) + Len(b)
        /\ \A i \in 1 .. Len(a) + Len(b) : z[i] = IF i <= Len(a) THEN a[i] ELSE b[i - Len(a)]
    BY <2>3, ConcatProperties
  <2>5. Len(z) = 2 /\ z[1] = x /\ z[2] = y
    BY <2>2, <2>4
  <2>6. PICK t : t = <<x, y>>
    OBVIOUS
  <2>7. t \in Seq(Halves) /\ Len(t) = 2 /\ t[1] = x /\ t[2] = y
    BY <1>2, <2>6
  <2>8. \A i \in 1 .. 2 : z[i] = t[i]
    BY <2>5, <2>7
  <2>9. z = t
    BY <2>4, <2>5, <2>7, <2>8, SeqEqual
  <2> QED  BY <2>1, <2>3, <2>6, <2>9
<1> QED  BY <1>1, <1>2, <1>4, <1>5, <1>6, <1>7, <1>8, <1>9

-----------------------------------------------------------------------------
(* The pieces on their way.                                                *)

\* A connection that is being installed is nobody else's.
Apart == \A s \in Stations : rx[s].pc = "install" => rx[s].sock \notin {sock[s], tx[s].sock}

\* What the modem has in hand is whole.
Carried ==
    /\ bcast.todo # {} \/ bcast.now # None => bcast.frame \in Wholes
    /\ sched.now # None => sched.frame \in Wholes
    /\ \A q \in txq : q.frame \in Wholes

\* What has come for the modem over a connection, read or not.  When half a frame
\* was the last, nothing follows it: the transmit thread is in its error handler, or
\* the connection has ended.
Came(c) == srv[c].buf \o conn[c].up
Mute(c) == "link" \in conn[c].open /\ "modem" \in conn[c].open /\ ~conn[c].broken =>
             \E s \in Stations : sock[s] = c /\ tx[s].pc = "error"
UpInv(c) == Flow(Came(c), Sent) /\ (Open(Came(c)) => Mute(c))

\* What has come for a link.  A frame is not whole while somebody is writing it, and
\* only then, unless the modem will write no more.
Line(c) == (IF sock[conn[c].owner] = c THEN buffer[conn[c].owner] ELSE <<>>) \o conn[c].down
Shut(c) == ~Usable("modem", c) \/ c \in bcast.dead
Writing(c) == bcast.now = c \/ (sched.now = c /\ sched.half) \/ srv[c].half
InHand(c) == IF bcast.now = c THEN bcast.frame
             ELSE IF srv[c].half THEN FrameOf(srv[c].buf) ELSE sched.frame
DownInv(c) ==
    "link" \in conn[c].open =>
        /\ Flow(Line(c), Sent)
        /\ ~Shut(c) => /\ Open(Line(c)) <=> Writing(c)
                       /\ Writing(c) => Line(c)[Len(Line(c))] = InHand(c)[1]

\* What a link has given to rx_callback.
Got == \A s \in Stations : \A i \in 1 .. Len(received[s]) : received[s][i] \in Wholes

FlowInv == Apart /\ Carried /\ Got /\ \A c \in Conns : UpInv(c) /\ DownInv(c)

\* A connection that nothing new is known of, but perhaps that it has ended.
Calmer(c) ==
    /\ "link" \in conn'[c].open => "link" \in conn[c].open /\ conn'[c].owner = conn[c].owner
    /\ "modem" \in conn'[c].open => "modem" \in conn[c].open
    /\ conn'[c].open # {} /\ ~conn'[c].broken => ~conn[c].broken
\* Connections that are as they were, carry other pieces, or have ended, are calm.
LEMMA CalmIfSame == ASSUME NEW c \in Conns, conn'[c] = conn[c] PROVE Calmer(c)
  BY DEF Calmer

LEMMA CalmIfCarries == ASSUME NEW c \in Conns, Carries(conn, conn') PROVE Calmer(c)
  BY DEF Calmer, Carries

LEMMA CalmIfEnded ==
    ASSUME NEW c \in Conns, NEW e \in {"link", "modem"}, Ended(conn[c], conn'[c], e) PROVE Calmer(c)
  BY DEF Calmer, Ended

\* What has come for the modem is as it was.
LEMMA UpKept ==
    ASSUME NEW c \in Conns, UpInv(c), Sent \subseteq Sent', Came(c)' = Came(c), Mute(c) => Mute(c)'
    PROVE  UpInv(c)'
<1>1. Flow(Came(c), Sent')
  BY FlowMore DEF UpInv
<1> QED  BY <1>1 DEF UpInv

\* What has come for a link is as it was.
LEMMA DownKept ==
    ASSUME NEW c \in Conns, DownInv(c), Sent \subseteq Sent',
           "link" \in conn'[c].open => "link" \in conn[c].open /\ Line(c)' = Line(c),
           ~Shut(c)' => /\ ~Shut(c) /\ (Writing(c)' <=> Writing(c))
                        /\ Writing(c) => InHand(c)' = InHand(c)
    PROVE  DownInv(c)'
<1>1. "link" \in conn[c].open => Flow(Line(c), Sent')
  BY FlowMore DEF DownInv
<1> QED  BY <1>1 DEF DownInv

\* An ended thing stays shut.
LEMMA StaysShut ==
    ASSUME NEW c \in Conns, Calmer(c), bcast'.dead = bcast.dead, ~Shut(c)' PROVE ~Shut(c)
  BY DEF Calmer, Shut, Usable

\* The error handler of a transmit thread is still to come.
ErrorsKept ==
    \A x \in Stations, c \in Conns :
        sock[x] = c /\ tx[x].pc = "error" /\ "link" \in conn'[c].open =>
            sock'[x] = c /\ tx'[x].pc = "error"
\* Nothing follows half a frame, still.
LEMMA MuteKept ==
    ASSUME NEW c \in Conns, Calmer(c), ErrorsKept, Mute(c) PROVE Mute(c)'
<1> SUFFICES ASSUME "link" \in conn'[c].open, "modem" \in conn'[c].open, ~conn'[c].broken
             PROVE  \E s \in Stations : sock'[s] = c /\ tx'[s].pc = "error"
  BY DEF Mute
<1>1. "link" \in conn[c].open /\ "modem" \in conn[c].open /\ ~conn[c].broken
  BY DEF Calmer
<1>2. PICK s \in Stations : sock[s] = c /\ tx[s].pc = "error"
  BY <1>1 DEF Mute
<1> QED  BY <1>2 DEF ErrorsKept

\* More may have been sent.
LEMMA CarriedKept ==
    ASSUME Carried, Sent \subseteq Sent', UNCHANGED <<bcast, sched, txq>> PROVE Carried'
<1>1. Wholes \subseteq Wholes'
  BY SentGrows
<1> QED  BY <1>1 DEF Carried

\* What a link has received is as it was.
LEMMA GotKept ==
    ASSUME Got, Sent \subseteq Sent', UNCHANGED received PROVE Got'
<1>1. Wholes \subseteq Wholes'
  BY SentGrows
<1> QED  BY <1>1 DEF Got

\* A step of a link: the connections it does not use are as before.
LEMMA LinkFlow ==
    ASSUME FlowInv, UNCHANGED modem, Sent \subseteq Sent',
           \A c \in Conns : (Calmer(c) /\ conn'[c].up = conn[c].up) \/ UpInv(c)',
           \A c \in Conns : (Calmer(c) /\ ("link" \in conn'[c].open => Line(c)' = Line(c)))
                            \/ DownInv(c)',
           ErrorsKept, Apart', Got'
    PROVE  FlowInv'
<1>1. UNCHANGED <<srv, bcast, sched, txq>>
  BY DEF modem
<1>2. Carried'
  BY <1>1, CarriedKept DEF FlowInv
<1>3. ASSUME NEW c \in Conns, Calmer(c), conn'[c].up = conn[c].up PROVE UpInv(c)'
  <2>1. Came(c)' = Came(c)
    BY <1>1, <1>3 DEF Came
  <2>2. Mute(c) => Mute(c)'
    BY <1>3, MuteKept
  <2> QED  BY <2>1, <2>2, UpKept DEF FlowInv
<1>4. ASSUME NEW c \in Conns, Calmer(c), "link" \in conn'[c].open => Line(c)' = Line(c)
      PROVE  DownInv(c)'
  <2>1. (Writing(c)' <=> Writing(c)) /\ InHand(c)' = InHand(c)
    BY <1>1 DEF Writing, InHand
  <2>2. ~Shut(c)' => ~Shut(c)
    BY <1>1, <1>4, StaysShut
  <2>3. "link" \in conn'[c].open => "link" \in conn[c].open /\ Line(c)' = Line(c)
    BY <1>4 DEF Calmer
  <2> QED  BY <2>1, <2>2, <2>3, DownKept DEF FlowInv
<1> QED  BY <1>2, <1>3, <1>4 DEF FlowInv

\* A thread that only moves.
LEMMA IdleFlow ==
    ASSUME BenchInv, FlowInv, UNCHANGED modem, Sent \subseteq Sent',
           UNCHANGED <<conn, sock, buffer, received>>,
           \A x \in Stations : /\ tx[x].pc = "error" => tx'[x].pc = "error"
                               /\ tx'[x].sock \in {tx[x].sock, sock[x], None}
                               /\ rx'[x].pc = "install" => rx'[x] = rx[x]
    PROVE  FlowInv'
<1>1. \A c \in Conns : Calmer(c) /\ conn'[c].up = conn[c].up
  BY CalmIfSame
<1>2. \A c \in Conns : Line(c)' = Line(c)
  BY DEF Line
<1>3. ErrorsKept
  BY DEF ErrorsKept
<1>4. Got'
  BY GotKept DEF FlowInv
<1>5. Apart'
  <2> SUFFICES ASSUME NEW s \in Stations, rx'[s].pc = "install"
               PROVE  rx'[s].sock \notin {sock'[s], tx'[s].sock}
    BY DEF Apart
  <2>1. rx'[s] = rx[s] /\ rx[s].sock \in Conns
    BY DEF BenchInv, LinkFrames
  <2> QED  BY <2>1, ConnAssumption DEF FlowInv, Apart
<1> QED  BY <1>1, <1>2, <1>3, <1>4, <1>5, LinkFlow

\* The link gives up its connection, and perhaps has another.
Switches(s) ==
    /\ \A c \in Conns : c # sock[s] => conn'[c] = conn[c]
    /\ \A c \in Conns : c = sock[s] => /\ Calmer(c) /\ conn'[c].up = conn[c].up
                                       /\ "link" \notin conn'[c].open
    /\ \A x \in Stations : x # s => /\ sock'[x] = sock[x] /\ buffer'[x] = buffer[x]
                                    /\ tx'[x] = tx[x] /\ rx'[x] = rx[x]
    /\ sock'[s] \in Conns => buffer'[s] = <<>> /\ sock'[s] # sock[s]
    /\ rx'[s].pc = "install" => rx'[s] = rx[s] /\ sock'[s] = None
    /\ tx'[s].sock \in {tx[s].sock, None}
\* Then the invariant is kept.
LEMMA SwitchFlow ==
    ASSUME BenchInv, FlowInv, UNCHANGED modem, Sent \subseteq Sent', NEW s \in Stations,
           Switches(s), Got'
    PROVE  FlowInv'
<1>1. ASSUME NEW c \in Conns PROVE Calmer(c) /\ conn'[c].up = conn[c].up
  BY CalmIfSame DEF Switches
<1>2. ASSUME NEW c \in Conns, "link" \in conn'[c].open PROVE Line(c)' = Line(c)
  <2>1. c # sock[s] /\ conn'[c] = conn[c]
    BY <1>2 DEF Switches
  <2>2. conn[c].owner \in Stations
    BY <1>2, <2>1 DEF BenchInv, Wires, ConnOK
  <2>3. CASE conn[c].owner = s
    BY <2>1, <2>3 DEF Line, Switches
  <2>4. CASE conn[c].owner # s
    BY <2>1, <2>2, <2>4 DEF Line, Switches
  <2> QED  BY <2>3, <2>4
<1>3. ErrorsKept
  BY DEF ErrorsKept, Switches
<1>4. Apart'
  <2> SUFFICES ASSUME NEW x \in Stations, rx'[x].pc = "install"
               PROVE  rx'[x].sock \notin {sock'[x], tx'[x].sock}
    BY DEF Apart
  <2>1. rx'[x] = rx[x]
    BY DEF Switches
  <2>2. rx[x].sock \in Conns /\ rx[x].sock # None /\ rx[x].sock \notin {sock[x], tx[x].sock}
    BY <2>1, ConnAssumption DEF BenchInv, LinkFrames, FlowInv, Apart
  <2>3. CASE x = s
    BY <2>1, <2>2, <2>3 DEF Switches
  <2>4. CASE x # s
    BY <2>1, <2>2, <2>4 DEF Switches
  <2> QED  BY <2>3, <2>4
<1> QED  BY <1>1, <1>2, <1>3, <1>4, LinkFlow

\* DropSocket closes no connection but the link's.
LEMMA DropFacts ==
    ASSUME ModemInv, BenchInv, NEW s \in Stations, NEW K, Carries(conn, K),
           \A c \in Conns : K[c].up = conn[c].up /\ (c # sock[s] => K[c] = conn[c]),
           DropSocket(s, K)
    PROVE  /\ \A c \in Conns : c # sock[s] => conn'[c] = conn[c]
           /\ \A c \in Conns : c = sock[s] => /\ Calmer(c) /\ conn'[c].up = conn[c].up
                                              /\ "link" \notin conn'[c].open
           /\ sock'[s] = None
           /\ \A x \in Stations : x # s => sock'[x] = sock[x]
<1>1. Wires(K) /\ Tame(conn, K)
  BY CarriesTame DEF Carries
<1>2. /\ sock'[s] = None /\ \A x \in Stations : x # s => sock'[x] = sock[x]
      /\ \A c \in Conns : IF c = sock[s] THEN Ended(K[c], conn'[c], "link") ELSE conn'[c] = K[c]
  BY <1>1, Dropped
<1>3. ASSUME NEW c \in Conns, c = sock[s]
      PROVE  Calmer(c) /\ conn'[c].up = conn[c].up /\ "link" \notin conn'[c].open
  <2>1. /\ K[c].owner = conn[c].owner /\ K[c].open = conn[c].open /\ K[c].broken = conn[c].broken
        /\ K[c].up = conn[c].up
    BY DEF Carries
  <2>2. Ended(K[c], conn'[c], "link")
    BY <1>2, <1>3
  <2> QED  BY <2>1, <2>2 DEF Ended, Calmer
<1>4. \A c \in Conns : c # sock[s] => conn'[c] = conn[c]
  BY <1>2
<1> QED  BY <1>2, <1>3, <1>4

\* What recv returns is whole frames and perhaps a first piece.
LEMMA ArrivedWhole ==
    ASSUME ModemInv, BenchInv, FlowInv, NEW s \in Stations, NEW k \in Arrived(s)
    PROVE  LET b == Buffered(s, k)
               c == rx[s].sock
               u == SubSeq(conn[c].down, k + 1, Len(conn[c].down)) IN
           /\ Line(c) = b \o u
           /\ \A i \in 1 .. Len(WholeFrames(b)) : WholeFrames(b)[i] \in Wholes
<1>1. PICK c : c = rx[s].sock
  OBVIOUS
<1>2. Reads(s, c, k)
  BY <1>1, ReadFacts
<1>3. /\ c \in Conns /\ c = sock[s] /\ conn[c].owner = s /\ "link" \in conn[c].open
      /\ k \in 1 .. Len(conn[c].down) /\ Buffered(s, k) = buffer[s] \o SubSeq(conn[c].down, 1, k)
      /\ Buffered(s, k) \in Seq(Halves)
      /\ SubSeq(conn[c].down, k + 1, Len(conn[c].down)) \in Seq(Halves)
  BY <1>2 DEF Reads, Alive
<1>4. conn[c].down \in Seq(Halves) /\ buffer[s] \in Seq(Halves)
  BY <1>3 DEF BenchInv, Wires, Connection, LinkTypes
<1>5. PICK v : v = conn[c].down
  OBVIOUS
<1>6. Line(c) = buffer[s] \o v
  BY <1>3, <1>5 DEF Line
<1>7. PICK b \in Seq(Halves) : b = Buffered(s, k)
  BY <1>3
<1>8. PICK u \in Seq(Halves) : u = SubSeq(v, k + 1, Len(v))
  BY <1>3, <1>5
<1>9. Line(c) = b \o u
  <2>1. (buffer[s] \o SubSeq(v, 1, k)) \o SubSeq(v, k + 1, Len(v)) = buffer[s] \o v
    <3>1. PICK a \in Seq(Halves) : a = buffer[s]
      BY <1>4
    <3>2. v \in Seq(Halves) /\ k \in 1 .. Len(v)
      BY <1>3, <1>4, <1>5
    <3>3. (a \o SubSeq(v, 1, k)) \o SubSeq(v, k + 1, Len(v)) = a \o v
      BY <3>2, Handed
    <3> QED  BY <3>1, <3>3
  <2>2. b = buffer[s] \o SubSeq(v, 1, k)
    BY <1>3, <1>5, <1>7
  <2> QED  BY <1>6, <1>8, <2>1, <2>2
<1>10. Flow(Line(c), Sent)
  BY <1>3 DEF FlowInv, DownInv
<1>11. Flow(b, Sent)
  BY <1>9, <1>10, FlowBefore
<1>12. PICK m \in Nat :
             /\ 2 * m <= Len(b) /\ Len(WholeFrames(b)) = m
             /\ \A i \in 1 .. m : WholeFrames(b)[i] = <<b[2 * i - 1], b[2 * i]>>
  BY Drained
<1>13. ASSUME NEW i \in 1 .. Len(WholeFrames(b)) PROVE WholeFrames(b)[i] \in Wholes
  <2>1. i \in Nat \ {0} /\ 2 * i <= Len(b) /\ i \in 1 .. m
    BY <1>12, LenProperties
  <2>2. PICK f \in Sent : <<b[2 * i - 1], b[2 * i]>> = Pieces(f)
    BY <1>11, <2>1, FlowPair
  <2> QED  BY <1>12, <2>1, <2>2 DEF Wholes
<1> QED  BY <1>1, <1>5, <1>7, <1>8, <1>9, <1>13

\* More frames are given to the callback.
LEMMA GotMore ==
    ASSUME BenchInv, Got, Sent' = Sent, NEW s \in Stations, NEW g \in Seq(Halves \X Halves),
           \A i \in 1 .. Len(g) : g[i] \in Wholes,
           received' = [received EXCEPT ![s] = received[s] \o g]
    PROVE  Got'
<1>1. PICK r : r = received[s]
  OBVIOUS
<1>2. r \in Seq(Halves \X Halves) /\ received \in [Stations -> Seq(Halves \X Halves)]
  BY <1>1, BenchTypes
<1>3. /\ Len(r \o g) = Len(r) + Len(g) /\ Len(r) \in Nat /\ Len(g) \in Nat
      /\ \A i \in 1 .. Len(r) + Len(g) : (r \o g)[i] = IF i <= Len(r) THEN r[i] ELSE g[i - Len(r)]
  BY <1>2, ConcatProperties, LenProperties
<1>4. ASSUME NEW i \in 1 .. Len(r \o g) PROVE (r \o g)[i] \in Wholes
  <2>1. CASE i <= Len(r)
    <3>1. i \in 1 .. Len(r) /\ i \in 1 .. Len(r) + Len(g)
      BY <1>3, <2>1
    <3> QED  BY <1>1, <1>3, <2>1, <3>1 DEF Got
  <2>2. CASE ~(i <= Len(r))
    <3>1. i - Len(r) \in 1 .. Len(g) /\ i \in 1 .. Len(r) + Len(g)
      BY <1>3, <2>2
    <3> QED  BY <1>3, <2>2, <3>1
  <2> QED  BY <2>1, <2>2
<1>5. Wholes' = Wholes
  BY DEF Wholes
<1>6. received'[s] = r \o g /\ \A x \in Stations : x # s => received'[x] = received[x]
  BY <1>1, <1>2
<1>7. ASSUME NEW x \in Stations, NEW i \in 1 .. Len(received'[x]) PROVE received'[x][i] \in Wholes
  BY <1>4, <1>6 DEF Got
<1> QED  BY <1>5, <1>7 DEF Got

\* Nothing is numbered by the receive and the transmit thread.
LEMMA SentSame == ASSUME UNCHANGED modem, UNCHANGED sent PROVE Sent' = Sent /\ Sent \subseteq Sent'
  BY DEF modem, Sent

\* recv returns something.
LEMMA RecvFlow ==
    ASSUME ModemInv, BenchInv, FlowInv, NEW s \in Stations, RecvData(s), UNCHANGED modem
    PROVE  FlowInv'
<1>1. PICK k \in Arrived(s) :
             /\ UNCHANGED <<sent, tx, sock>> /\ Rx(s, "top", None)
             /\ conn' = Read(rx[s].sock, k)
             /\ received' = [received EXCEPT ![s] = received[s] \o WholeFrames(Buffered(s, k))]
             /\ buffer' = [buffer EXCEPT ![s] = RestOf(Buffered(s, k))]
  BY DEF RecvData, link
<1>2. PICK c : c = rx[s].sock
  OBVIOUS
<1>3. Reads(s, c, k)
  BY <1>2, ReadFacts
<1>4. PICK b \in Seq(Halves) : b = Buffered(s, k)
  BY <1>3 DEF Reads
<1>5. PICK u \in Seq(Halves) : u = SubSeq(conn[c].down, k + 1, Len(conn[c].down))
  BY <1>3 DEF Reads
<1>6. /\ Line(c) = b \o u
      /\ \A i \in 1 .. Len(WholeFrames(b)) : WholeFrames(b)[i] \in Wholes
  BY <1>2, <1>4, <1>5, ArrivedWhole
<1>7. /\ c \in Conns /\ c = sock[s] /\ conn[c].owner = s /\ "link" \in conn[c].open
      /\ Carries(conn, conn') /\ conn'[c].down = u
      /\ \A d \in Conns : conn'[d].up = conn[d].up /\ (d # c => conn'[d] = conn[d])
  BY <1>1, <1>2, <1>3, <1>5 DEF Reads, Alive
<1>8. Sent' = Sent /\ Sent \subseteq Sent'
  BY <1>1, SentSame
<1>9. Got'
  <2>1. WholeFrames(b) \in Seq(Halves \X Halves)
    BY <1>4, ReceivedOK
  <2>2. PICK g \in Seq(Halves \X Halves) : g = WholeFrames(b)
    BY <2>1
  <2> QED  BY <1>1, <1>4, <1>6, <1>8, <2>2, GotMore DEF FlowInv
<1>10. \A d \in Conns : Calmer(d) /\ conn'[d].up = conn[d].up
  BY <1>7, CalmIfCarries
<1>11. ErrorsKept
  BY <1>1 DEF ErrorsKept
<1>12. buffer'[s] = RestOf(b) /\ \A x \in Stations : x # s => buffer'[x] = buffer[x]
  BY <1>1, <1>4 DEF BenchInv, LinkTypes
<1>13. Apart'
  <2>1. /\ rx'[s].pc = "top" /\ \A x \in Stations : x # s => rx'[x] = rx[x]
    <3>1. "top" \in RxPcs
      BY DEF RxPcs
    <3> QED  BY <1>1, <3>1, RxOK
  <2> QED  BY <1>1, <2>1 DEF FlowInv, Apart
<1>14. ASSUME NEW d \in Conns, d # c, "link" \in conn'[d].open PROVE Line(d)' = Line(d)
  <2>1. conn'[d] = conn[d] /\ conn[d].owner \in Stations
    BY <1>7, <1>14 DEF BenchInv, Wires, ConnOK
  <2> QED  BY <1>1, <1>7, <1>12, <1>14, <2>1 DEF Line
<1>15. DownInv(c)'
  <2>1. PICK m \in Nat : /\ 2 * m <= Len(b) /\ 2 * m \in Nat
                         /\ RestOf(b) = SubSeq(b, 2 * m + 1, Len(b))
    <3>1. Len(b) \in Nat
      BY LenProperties
    <3>2. Len(b) \div 2 \in Nat /\ 2 * (Len(b) \div 2) <= Len(b) /\ 2 * (Len(b) \div 2) \in Nat
      BY <3>1
    <3> QED  BY <3>2 DEF RestOf
  <2>2. PICK w : w = Line(c)
    OBVIOUS
  <2>3. w \in Seq(Halves)
    BY <1>6, <2>2, ConcatProperties
  <2>4. Line(c)' = RestOf(b) \o u
    <3>1. conn'[c].owner = s /\ sock'[s] = c
      BY <1>1, <1>7 DEF Carries
    <3> QED  BY <1>7, <1>12, <3>1 DEF Line
  <2>5. Line(c)' = SubSeq(w, 2 * m + 1, Len(w)) /\ 2 * m <= Len(w)
    <3>1. PICK n \in Nat : n = 2 * m
      BY <2>1
    <3>2. SubSeq(b, n + 1, Len(b)) \o u = SubSeq(b \o u, n + 1, Len(b \o u)) /\ n <= Len(b \o u)
      BY <2>1, <3>1, CutHead
    <3> QED  BY <1>6, <2>1, <2>2, <2>4, <3>1, <3>2
  <2>6. /\ Flow(w, Sent)
        /\ ~Shut(c) => /\ Open(w) <=> Writing(c)
                       /\ Writing(c) => w[Len(w)] = InHand(c)[1]
    BY <1>7, <2>2 DEF FlowInv, DownInv
  <2>7. PICK v : v = SubSeq(w, 2 * m + 1, Len(w))
    OBVIOUS
  <2>8. Flow(v, Sent) /\ (Open(v) <=> Open(w)) /\ (Open(v) => v[Len(v)] = w[Len(w)])
    BY <2>3, <2>5, <2>6, <2>7, FlowCut
  <2>9. (Writing(c)' <=> Writing(c)) /\ InHand(c)' = InHand(c) /\ bcast' = bcast
    BY DEF Writing, InHand, modem
  <2>10. ~Shut(c)' => ~Shut(c)
    BY <1>7, <1>10, <2>9, StaysShut
  <2>11. Line(c)' = v
    BY <2>5, <2>7
  <2> QED  BY <1>8, <2>6, <2>8, <2>9, <2>10, <2>11 DEF DownInv
<1>16. \A d \in Conns : \/ Calmer(d) /\ ("link" \in conn'[d].open => Line(d)' = Line(d))
                        \/ DownInv(d)'
  BY <1>10, <1>14, <1>15
<1> QED  BY <1>8, <1>9, <1>10, <1>11, <1>13, <1>16, LinkFlow

\* The receive thread.
LEMMA RxFlow ==
    ASSUME ModemInv, BenchInv, FlowInv, NEW s \in Stations, RxWork(s), UNCHANGED modem
    PROVE  FlowInv'
<1>1. /\ sock[s] \in Socket /\ rx[s].sock \in Socket /\ Wires(conn) /\ Carries(conn, conn)
      /\ sock \in [Stations -> Socket] /\ buffer \in [Stations -> Seq(Halves)]
  BY Typed, BenchTypes, TameItself
<1>2. RxPcs = {"top", "connect", "install", "recv", "done"}
  BY DEF RxPcs
<1>3. UNCHANGED <<sent, tx>>
  BY DEF RxWork, RxTop, ConnectEnds, Install, RecvData, CallbackCrashes, RecvTimeout, RecvError
<1>4. Sent' = Sent /\ Sent \subseteq Sent'
  BY <1>3, SentSame
<1>5. CASE RxTop(s) \/ ConnectEnds(s) \/ RecvTimeout(s)
  <2>1. UNCHANGED <<conn, sock, buffer, received>>
    BY <1>5 DEF RxTop, ConnectEnds, RecvTimeout, link
  <2>2. PICK p \in RxPcs \ {"install"}, c \in Socket : Rx(s, p, c)
    <3>1. CASE ConnectEnds(s) \/ RecvTimeout(s)
      BY <1>2, <3>1 DEF ConnectEnds, RecvTimeout
    <3>2. CASE RxTop(s) /\ ~running[s]
      BY <1>2, <3>2 DEF RxTop
    <3>3. CASE RxTop(s) /\ running[s] /\ connected[s] /\ sock[s] # None
      BY <1>1, <1>2, <3>3 DEF RxTop
    <3>4. CASE RxTop(s) /\ running[s] /\ ~(connected[s] /\ sock[s] # None)
      BY <1>2, <3>4 DEF RxTop
    <3> QED  BY <1>5, <3>1, <3>2, <3>3, <3>4
  <2>3. rx'[s].pc = p /\ \A x \in Stations : x # s => rx'[x] = rx[x]
    BY <2>2, RxOK
  <2>4. \A x \in Stations : /\ tx[x].pc = "error" => tx'[x].pc = "error"
                            /\ tx'[x].sock \in {tx[x].sock, sock[x], None}
                            /\ rx'[x].pc = "install" => rx'[x] = rx[x]
    BY <1>3, <2>2, <2>3
  <2> QED  BY <1>4, <2>1, <2>4, IdleFlow
<1>6. CASE Install(s)
  <2>1. /\ UNCHANGED received
        /\ rx[s].pc = "install" /\ Rx(s, "recv", rx[s].sock)
        /\ conn' = Close(conn, "link", {sock[s]})
        /\ sock' = [sock EXCEPT ![s] = rx[s].sock]
        /\ buffer' = [buffer EXCEPT ![s] = <<>>]
    BY <1>6 DEF Install
  <2>2. /\ rx'[s].pc = "recv" /\ \A x \in Stations : x # s => rx'[x] = rx[x]
    BY <1>1, <1>2, <2>1, RxOK
  <2>3. \A c \in Conns : IF c \in {sock[s]} THEN Ended(conn[c], conn'[c], "link")
                         ELSE conn'[c] = conn[c]
    BY <1>1, <2>1, Closing
  <2>4. \A c \in Conns : c = sock[s] => /\ Calmer(c) /\ conn'[c].up = conn[c].up
                                        /\ "link" \notin conn'[c].open
    BY <2>3, CalmIfEnded DEF Ended
  <2>5. /\ sock'[s] = rx[s].sock /\ buffer'[s] = <<>> /\ rx[s].sock # sock[s]
        /\ \A x \in Stations : x # s => sock'[x] = sock[x] /\ buffer'[x] = buffer[x]
    BY <1>1, <2>1 DEF FlowInv, Apart
  <2>6. Switches(s)
    BY <1>3, <2>2, <2>3, <2>4, <2>5 DEF Switches
  <2>7. Got'
    BY <1>4, <2>1, GotKept DEF FlowInv
  <2> QED  BY <1>4, <2>6, <2>7, SwitchFlow
<1>7. CASE RecvData(s)
  BY <1>7, RecvFlow
<1>8. CASE CallbackCrashes(s)
  <2>0. PICK k \in Arrived(s) :
             /\ Rx(s, "done", None) /\ DropSocket(s, Read(rx[s].sock, k))
             /\ \E i \in 1 .. Len(WholeFrames(Buffered(s, k))) :
                  /\ received' = [received EXCEPT ![s] =
                                    received[s] \o SubSeq(WholeFrames(Buffered(s, k)), 1, i)]
                  /\ buffer' = [buffer EXCEPT ![s] =
                                  SubSeq(Buffered(s, k), 2 * i + 1, Len(Buffered(s, k)))]
    BY <1>8 DEF CallbackCrashes
  <2>1. PICK i \in 1 .. Len(WholeFrames(Buffered(s, k))) :
             /\ received' = [received EXCEPT ![s] =
                               received[s] \o SubSeq(WholeFrames(Buffered(s, k)), 1, i)]
             /\ buffer' = [buffer EXCEPT ![s] =
                             SubSeq(Buffered(s, k), 2 * i + 1, Len(Buffered(s, k)))]
    BY <2>0
  <2>2. PICK b : b = Buffered(s, k)
    OBVIOUS
  <2>3. PICK g \in Seq(Halves \X Halves) :
           /\ g = SubSeq(WholeFrames(b), 1, i) /\ Len(g) = i
           /\ \A j \in 1 .. i : g[j] = WholeFrames(b)[j]
    BY <2>1, <2>2, ReceivedOK
  <2>4. \A j \in 1 .. Len(g) : g[j] \in Wholes
    <3>1. \A j \in 1 .. Len(WholeFrames(b)) : WholeFrames(b)[j] \in Wholes
      BY <2>2, ArrivedWhole
    <3>2. Len(WholeFrames(b)) \in Nat
      BY <2>2, ReceivedOK, LenProperties
    <3>3. \A j \in 1 .. i : j \in 1 .. Len(WholeFrames(b))
      BY <2>1, <2>2, <3>2
    <3> QED  BY <2>3, <3>1, <3>3
  <2>5. Got'
    BY <1>4, <2>1, <2>2, <2>3, <2>4, GotMore DEF FlowInv
  <2>6. PICK c, K : c = rx[s].sock /\ K = Read(rx[s].sock, k)
    OBVIOUS
  <2>7. Reads(s, c, k)
    BY <2>6, ReadFacts
  <2>8. Carries(conn, K) /\ \A d \in Conns : K[d].up = conn[d].up /\ (d # sock[s] => K[d] = conn[d])
    BY <2>6, <2>7 DEF Reads
  <2>9. /\ \A d \in Conns : d # sock[s] => conn'[d] = conn[d]
        /\ \A d \in Conns : d = sock[s] => /\ Calmer(d) /\ conn'[d].up = conn[d].up
                                           /\ "link" \notin conn'[d].open
        /\ sock'[s] = None /\ \A x \in Stations : x # s => sock'[x] = sock[x]
    BY <2>0, <2>6, <2>8, DropFacts
  <2>10. rx'[s].pc = "done" /\ \A x \in Stations : x # s => rx'[x] = rx[x]
    BY <1>2, <2>0, RxOK
  <2>11. \A x \in Stations : x # s => buffer'[x] = buffer[x]
    BY <1>1, <2>1
  <2>12. Switches(s)
    BY <1>3, <2>9, <2>10, <2>11, ConnAssumption DEF Switches
  <2> QED  BY <1>4, <2>5, <2>12, SwitchFlow
<1>9. CASE RecvError(s)
  <2>1. UNCHANGED <<buffer, received>> /\ DropSocket(s, conn) /\ Rx(s, "top", None)
    BY <1>9 DEF RecvError
  <2>2. /\ \A d \in Conns : d # sock[s] => conn'[d] = conn[d]
        /\ \A d \in Conns : d = sock[s] => /\ Calmer(d) /\ conn'[d].up = conn[d].up
                                           /\ "link" \notin conn'[d].open
        /\ sock'[s] = None /\ \A x \in Stations : x # s => sock'[x] = sock[x]
    BY <1>1, <2>1, DropFacts
  <2>3. rx'[s].pc = "top" /\ \A x \in Stations : x # s => rx'[x] = rx[x]
    BY <1>2, <2>1, RxOK
  <2>4. Switches(s)
    BY <1>3, <2>1, <2>2, <2>3, ConnAssumption DEF Switches
  <2>5. Got'
    BY <1>4, <2>1, GotKept DEF FlowInv
  <2> QED  BY <1>4, <2>4, <2>5, SwitchFlow
<1> QED  BY <1>5, <1>6, <1>7, <1>8, <1>9 DEF RxWork

\* A transmit thread that only moves.
LEMMA TxApart ==
    ASSUME BenchInv, FlowInv, UNCHANGED <<rx, sock>>,
           \A x \in Stations : tx'[x].sock \in {tx[x].sock, sock[x], None}
    PROVE  Apart'
<1> SUFFICES ASSUME NEW x \in Stations, rx[x].pc = "install"
             PROVE  rx[x].sock \notin {sock[x], tx'[x].sock}
  BY DEF Apart
<1>1. rx[x].sock \in Conns /\ rx[x].sock # None
  BY ConnAssumption DEF BenchInv, LinkFrames
<1> QED  BY <1>1 DEF FlowInv, Apart

\* sendall writes a frame, or its first piece and times out.
LEMMA UpFlow ==
    ASSUME ModemInv, BenchInv, FlowInv, NEW s \in Stations, NEW c \in Conns, NEW v, NEW f \in Sent,
           UNCHANGED modem, UNCHANGED <<sent, rx, sock, buffer, received>>,
           tx[s].pc = "send", c = tx[s].sock, Usable("link", c), Uplinked(conn', c, v),
           \A x \in Stations : x # s => tx'[x] = tx[x], tx'[s].sock = None,
           \/ v = Pieces(f)
           \/ v = <<<<f, 1>>>> /\ tx'[s].pc = "error"
    PROVE  FlowInv'
<1>1. Sent' = Sent /\ Sent \subseteq Sent' /\ srv' = srv
  BY SentSame DEF modem
<1>2. Got'
  BY <1>1, GotKept DEF FlowInv
<1>3. Apart'
  BY TxApart
<1>4. ErrorsKept
  BY DEF ErrorsKept
<1>5. /\ Carries(conn, conn') /\ \A d \in Conns : conn'[d].down = conn[d].down
      /\ \A d \in Conns : d # c => conn'[d] = conn[d]
      /\ conn'[c].up = IF "modem" \in conn[c].open THEN conn[c].up \o v ELSE conn[c].up
  BY DEF Uplinked
<1>6. \A d \in Conns : Calmer(d)
  BY <1>5, CalmIfCarries
<1>7. \A d \in Conns : Line(d)' = Line(d)
  BY <1>5 DEF Line, Carries
<1>8. "link" \in conn[c].open /\ ~conn[c].broken /\ conn[c].owner = s
  BY DEF Usable, BenchInv, Mine
<1>9. sock[s] = c
  BY <1>8 DEF ModemInv, Owned, FlowInv, Apart
<1>10. ASSUME "modem" \in conn[c].open PROVE UpInv(c)'
  <2>1. PICK w : w = Came(c)
    OBVIOUS
  <2>2. conn[c].up \in Seq(Halves) /\ srv[c].buf \in Seq(Halves)
    BY ModemParts DEF Wires, Connection
  <2>3. w \in Seq(Halves)
    BY <2>1, <2>2, ConcatProperties DEF Came
  <2>4. Flow(w, Sent) /\ (Open(w) => Mute(c))
    BY <2>1 DEF FlowInv, UpInv
  <2>5. ~Mute(c)
    <3>1. ASSUME NEW x \in Stations, sock[x] = c, tx[x].pc = "error" PROVE FALSE
      <4>1. conn[c].owner = x
        BY <1>8, <3>1 DEF BenchInv, Mine
      <4> QED  BY <1>8, <3>1, <4>1
    <3> QED  BY <1>8, <1>10, <3>1 DEF Mute
  <2>6. Sent \in SUBSET Frames
    BY DEF Sent
  <2>7. f \in Frames
    BY <2>6
  <2>8. v \in Seq(Halves)
    BY <2>7, PiecesOK
  <2>9. Came(c)' = w \o v
    <3>1. Came(c)' = srv[c].buf \o (conn[c].up \o v)
      BY <1>1, <1>5, <1>10 DEF Came
    <3>2. (srv[c].buf \o conn[c].up) \o v = srv[c].buf \o (conn[c].up \o v)
      <4>1. PICK a \in Seq(Halves), b \in Seq(Halves), p \in Seq(Halves) :
                a = srv[c].buf /\ b = conn[c].up /\ p = v
        BY <2>2, <2>8
      <4>2. (a \o b) \o p = a \o (b \o p)
        BY Regroup
      <4> QED  BY <4>1, <4>2
    <3> QED  BY <2>1, <3>1, <3>2 DEF Came
  <2>10. CASE v = Pieces(f)
    <3>1. Flow(w \o v, Sent) /\ ~Open(w \o v)
      BY <2>3, <2>4, <2>5, <2>6, <2>10, FlowFrame
    <3> QED  BY <1>1, <2>9, <3>1 DEF UpInv
  <2>11. CASE v = <<<<f, 1>>>> /\ tx'[s].pc = "error"
    <3>1. Flow(w \o v, Sent)
      BY <2>3, <2>4, <2>5, <2>6, <2>11, FlowFrame
    <3>2. Mute(c)'
      BY <1>9, <2>11 DEF Mute
    <3> QED  BY <1>1, <2>9, <3>1, <3>2 DEF UpInv
  <2> QED  BY <2>10, <2>11
<1>11. \A d \in Conns : (Calmer(d) /\ conn'[d].up = conn[d].up) \/ UpInv(d)'
  BY <1>5, <1>6, <1>10
<1>12. \A d \in Conns : \/ Calmer(d) /\ ("link" \in conn'[d].open => Line(d)' = Line(d))
                        \/ DownInv(d)'
  BY <1>6, <1>7
<1> QED  BY <1>1, <1>2, <1>3, <1>4, <1>11, <1>12, LinkFlow

\* The transmit thread.
LEMMA TxFlow ==
    ASSUME ModemInv, BenchInv, FlowInv, NEW s \in Stations, TxStep(s), UNCHANGED modem
    PROVE  FlowInv'
<1>1. /\ sock[s] \in Socket /\ Wires(conn) /\ Carries(conn, conn) /\ LinkTypes
  BY Typed, BenchTypes, TameItself
<1>2. UNCHANGED <<sent, rx, buffer, received>>
  BY DEF TxStep, TxGet, TxSend, TxSendFails, TxError, TxEnds
<1>3. Sent' = Sent /\ Sent \subseteq Sent' /\ Sent \subseteq Frames
  BY <1>2, SentSame DEF Sent
<1>4. TxPcs = {"get", "send", "error", "done"}
  BY DEF TxPcs
<1>5. CASE TxGet(s) \/ TxEnds(s)
  <2>1. UNCHANGED <<conn, sock>> /\ tx[s].pc = "get"
    BY <1>5 DEF TxGet, TxEnds, link
  <2>2. tx'[s].sock \in {sock[s], None} /\ \A x \in Stations : x # s => tx'[x] = tx[x]
    <3>1. CASE TxGet(s)
      <4>1. queue[s] # <<>> /\ queue' = [queue EXCEPT ![s] = Tail(queue[s])]
        BY <3>1 DEF TxGet
      <4>2. Head(queue[s]) \in Frames
        BY <1>3, <4>1, QueueTail
      <4>3. CASE running[s] /\ connected[s] /\ sock[s] # None
        <5>1. Tx(s, "send", Head(queue[s]), sock[s])
          BY <3>1, <4>3 DEF TxGet
        <5> QED  BY <1>1, <1>4, <4>2, <5>1, TxOK
      <4>4. CASE ~(running[s] /\ connected[s] /\ sock[s] # None)
        <5>1. TxAgain(s)
          BY <3>1, <4>4 DEF TxGet
        <5> QED  BY <1>1, <5>1, TxAgainOK
      <4> QED  BY <4>3, <4>4
    <3>2. CASE TxEnds(s)
      <4>1. Tx(s, "done", None, None)
        BY <3>2 DEF TxEnds
      <4> QED  BY <1>1, <1>4, <4>1, TxOK
    <3> QED  BY <1>5, <3>1, <3>2
  <2>3. \A x \in Stations : /\ tx[x].pc = "error" => tx'[x].pc = "error"
                            /\ tx'[x].sock \in {tx[x].sock, sock[x], None}
                            /\ rx'[x].pc = "install" => rx'[x] = rx[x]
    BY <1>2, <2>1, <2>2
  <2> QED  BY <1>2, <1>3, <2>1, <2>3, IdleFlow
<1>6. CASE TxSend(s)
  <2>1. /\ UNCHANGED sock /\ tx[s].pc = "send" /\ Usable("link", tx[s].sock) /\ TxAgain(s)
        /\ conn' = Up(tx[s].sock, Pieces(tx[s].frame))
    BY <1>6 DEF TxSend, link
  <2>2. PICK c \in Conns, f \in Sent : c = tx[s].sock /\ f = tx[s].frame
    BY <2>1 DEF BenchInv, LinkFrames
  <2>3. Alive(conn[c], "link") /\ f \in Frames
    BY <1>3, <2>1, <2>2 DEF Alive, Usable
  <2>4. PICK v \in Seq(Halves) : v = Pieces(f)
    BY <2>3, PiecesOK
  <2>5. Uplinked(conn', c, v)
    BY <1>1, <2>1, <2>2, <2>3, <2>4, UpOK
  <2>6. tx'[s].sock = None /\ \A x \in Stations : x # s => tx'[x] = tx[x]
    BY <1>1, <2>1, TxAgainOK
  <2> QED  BY <1>2, <2>1, <2>2, <2>4, <2>5, <2>6, UpFlow
<1>7. CASE TxSendFails(s)
  <2>1. UNCHANGED sock /\ tx[s].pc = "send" /\ Tx(s, "error", None, None)
    BY <1>7 DEF TxSendFails, link
  <2>2. PICK c \in Conns, f \in Sent : c = tx[s].sock /\ f = tx[s].frame
    BY <2>1 DEF BenchInv, LinkFrames
  <2>3. /\ tx'[s].pc = "error" /\ tx'[s].sock = None
        /\ \A x \in Stations : x # s => tx'[x] = tx[x]
    BY <1>1, <1>4, <2>1, TxOK
  <2>4. CASE conn' = conn
    <3>1. \A x \in Stations : /\ tx[x].pc = "error" => tx'[x].pc = "error"
                              /\ tx'[x].sock \in {tx[x].sock, sock[x], None}
                              /\ rx'[x].pc = "install" => rx'[x] = rx[x]
      BY <1>2, <2>3
    <3> QED  BY <1>2, <1>3, <2>1, <2>4, <3>1, IdleFlow
  <2>5. CASE Usable("link", c) /\ conn' = Up(c, SubSeq(Pieces(f), 1, 1))
    <3>1. Alive(conn[c], "link") /\ f \in Frames
      BY <1>3, <2>5 DEF Alive, Usable
    <3>2. PICK v \in Seq(Halves) : v = <<<<f, 1>>>> /\ v = SubSeq(Pieces(f), 1, 1)
      BY <3>1, PiecesOK
    <3>3. Uplinked(conn', c, v)
      BY <1>1, <2>5, <3>1, <3>2, UpOK
    <3> QED  BY <1>2, <2>1, <2>2, <2>3, <2>5, <3>2, <3>3, UpFlow
  <2> QED  BY <1>7, <2>2, <2>4, <2>5 DEF TxSendFails
<1>8. CASE TxError(s)
  <2>1. TxAgain(s) /\ DropSocket(s, conn)
    BY <1>8 DEF TxError
  <2>2. /\ \A d \in Conns : d # sock[s] => conn'[d] = conn[d]
        /\ \A d \in Conns : d = sock[s] => /\ Calmer(d) /\ conn'[d].up = conn[d].up
                                           /\ "link" \notin conn'[d].open
        /\ sock'[s] = None /\ \A x \in Stations : x # s => sock'[x] = sock[x]
    BY <1>1, <2>1, DropFacts
  <2>3. tx'[s].sock = None /\ \A x \in Stations : x # s => tx'[x] = tx[x]
    BY <1>1, <2>1, TxAgainOK
  <2>4. Switches(s)
    BY <1>2, <2>2, <2>3, ConnAssumption DEF Switches
  <2>5. Got'
    BY <1>2, <1>3, GotKept DEF FlowInv
  <2> QED  BY <1>3, <2>4, <2>5, SwitchFlow
<1> QED  BY <1>5, <1>6, <1>7, <1>8 DEF TxStep

\* send(), and stop().
LEMMA CallFlow ==
    ASSUME ModemInv, BenchInv, FlowInv, NEW s \in Stations, UNCHANGED modem,
           \/ StopBegins(s) \/ StopEnds(s)
           \/ \E t \in Callers : SendBegins(s, t) \/ SendPut(s, t) \/ SendBehind(s, t)
    PROVE  FlowInv'
<1>1. CASE StopBegins(s) \/ \E t \in Callers : SendBegins(s, t) \/ SendPut(s, t) \/ SendBehind(s, t)
  <2>1. UNCHANGED <<conn, sock, buffer, received, rx, tx>>
    BY <1>1 DEF StopBegins, SendBegins, SendPut, SendBehind, link, threads
  <2>2. Sent \subseteq Sent'
    <3>1. CASE StopBegins(s) \/ \E t \in Callers : SendBegins(s, t) \/ SendBehind(s, t)
      BY <3>1, SentSame DEF StopBegins, SendBegins, SendBehind
    <3>2. CASE \E t \in Callers : SendPut(s, t)
      BY <3>2, PutFacts
    <3> QED  BY <1>1, <3>1, <3>2
  <2> QED  BY <2>1, <2>2, IdleFlow
<1>2. CASE StopEnds(s)
  <2>1. UNCHANGED <<sent, rx, tx, buffer, received>> /\ DropSocket(s, conn)
    BY <1>2 DEF StopEnds, threads
  <2>2. Carries(conn, conn)
    BY BenchTypes, TameItself
  <2>3. /\ \A d \in Conns : d # sock[s] => conn'[d] = conn[d]
        /\ \A d \in Conns : d = sock[s] => /\ Calmer(d) /\ conn'[d].up = conn[d].up
                                           /\ "link" \notin conn'[d].open
        /\ sock'[s] = None /\ \A x \in Stations : x # s => sock'[x] = sock[x]
    BY <2>1, <2>2, DropFacts
  <2>4. Switches(s)
    BY <2>1, <2>3, ConnAssumption DEF Switches
  <2>5. Sent \subseteq Sent'
    BY <2>1, SentSame
  <2>6. Got'
    BY <2>1, <2>5, GotKept DEF FlowInv
  <2> QED  BY <2>4, <2>5, <2>6, SwitchFlow
<1> QED  BY <1>1, <1>2

\* The network loses a connection, and what was on its way.
LEMMA ResetFlow ==
    ASSUME ModemInv, BenchInv, FlowInv, NEW c \in Conns, Reset(c), UNCHANGED modem
    PROVE  FlowInv'
<1>1. UNCHANGED <<sent, rx, tx, buffer, received, sock>> /\ srv' = srv
  BY DEF Reset, threads, link, modem
<1>2. Sent' = Sent /\ Sent \subseteq Sent'
  BY <1>1, SentSame
<1>3. /\ \A d \in Conns : d # c => conn'[d] = conn[d]
      /\ conn'[c].broken /\ conn'[c].up = <<>> /\ conn'[c].down = <<>>
      /\ conn'[c].open = conn[c].open /\ conn'[c].owner = conn[c].owner
  BY BenchTypes, Breaks
<1>4. \A d \in Conns : Calmer(d)
  BY <1>3 DEF Calmer
<1>5. Got' /\ ErrorsKept /\ Apart'
  BY <1>1, <1>2, GotKept DEF FlowInv, ErrorsKept, Apart
<1>6. UpInv(c)'
  <2>1. srv[c].buf \in Seq(Halves) /\ conn[c].up \in Seq(Halves)
    BY ModemParts DEF Wires, Connection
  <2>2. Came(c)' = srv[c].buf
    BY <1>1, <1>3, <2>1, ConcatEmptySeq DEF Came
  <2>3. Flow(srv[c].buf, Sent)
    BY <2>1, FlowBefore DEF FlowInv, UpInv, Came
  <2>4. Mute(c)'
    BY <1>3 DEF Mute
  <2> QED  BY <1>2, <2>2, <2>3, <2>4 DEF UpInv
<1>7. DownInv(c)'
  <2> SUFFICES ASSUME "link" \in conn[c].open PROVE Flow(Line(c)', Sent) /\ Shut(c)'
    BY <1>2, <1>3 DEF DownInv
  <2>1. conn[c].owner \in Stations /\ conn[c].down \in Seq(Halves)
    BY DEF BenchInv, Wires, ConnOK, Connection
  <2>2. PICK a : a = IF sock[conn[c].owner] = c THEN buffer[conn[c].owner] ELSE <<>>
    OBVIOUS
  <2>3. a \in Seq(Halves)
    BY <2>1, <2>2, BenchTypes
  <2>4. Line(c) = a \o conn[c].down /\ Line(c)' = a \o <<>>
    BY <1>1, <1>3, <2>2 DEF Line
  <2>5. Line(c)' = a
    BY <2>3, <2>4, ConcatEmptySeq
  <2>6. Flow(a, Sent)
    BY <2>1, <2>3, <2>4, FlowBefore DEF FlowInv, DownInv
  <2>7. Shut(c)'
    BY <1>3 DEF Shut, Usable
  <2> QED  BY <2>5, <2>6, <2>7
<1>8. \A d \in Conns : (Calmer(d) /\ conn'[d].up = conn[d].up) \/ UpInv(d)'
  BY <1>3, <1>4, <1>6
<1>9. \A d \in Conns : d # c => Line(d)' = Line(d)
  BY <1>1, <1>3 DEF Line
<1>10. \A d \in Conns : \/ Calmer(d) /\ ("link" \in conn'[d].open => Line(d)' = Line(d))
                        \/ DownInv(d)'
  BY <1>4, <1>7, <1>9
<1> QED  BY <1>2, <1>5, <1>8, <1>10, LinkFlow

\* A connection just made is empty.
LEMMA ConnectFlow ==
    ASSUME ModemInv, BenchInv, FlowInv, NEW s \in Stations, NEW c \in Unused, Connect(s, c),
           UNCHANGED modem
    PROVE  FlowInv'
<1>1. Dials(s, c)
  BY ConnectFacts
<1>2. /\ c \in Conns /\ UNCHANGED <<sent, tx, buffer, received, sock>>
      /\ UNCHANGED <<srv, bcast, sched>>
      /\ \A d \in Conns : d # c => conn'[d] = conn[d]
      /\ conn'[c].owner = s /\ conn'[c].up = <<>> /\ conn'[c].down = <<>>
      /\ rx'[s].sock = c /\ \A x \in Stations : x # s => rx'[x] = rx[x]
  BY <1>1 DEF Dials, modem
<1>3. /\ srv[c].pc = "off" /\ c # sock[s] /\ c # tx[s].sock /\ c # bcast.now /\ c # sched.now
  BY <1>1 DEF Dials, Free
<1>4. srv[c].buf = <<>> /\ ~srv[c].half
  BY <1>2, <1>3 DEF BenchInv, ModemSide, Threads
<1>5. Sent' = Sent /\ Sent \subseteq Sent'
  BY <1>2, SentSame
<1>6. ErrorsKept
  BY <1>2 DEF ErrorsKept
<1>7. Got'
  BY <1>2, <1>5, GotKept DEF FlowInv
<1>8. Apart'
  BY <1>2, <1>3 DEF FlowInv, Apart
<1>9. <<>> \o <<>> = <<>> /\ Flow(<<>>, Sent) /\ ~Open(<<>>)
  BY FlowEmpty
<1>10. UpInv(c)'
  <2>1. Came(c)' = <<>>
    BY <1>2, <1>4, <1>9 DEF Came
  <2> QED  BY <1>5, <1>9, <2>1 DEF UpInv
<1>11. DownInv(c)'
  <2>1. Line(c)' = <<>>
    BY <1>2, <1>3, <1>9 DEF Line
  <2>2. ~Writing(c)'
    BY <1>2, <1>3, <1>4 DEF Writing
  <2> QED  BY <1>5, <1>9, <2>1, <2>2 DEF DownInv
<1>12. ASSUME NEW d \in Conns, d # c
       PROVE  Calmer(d) /\ conn'[d].up = conn[d].up /\ Line(d)' = Line(d)
  BY <1>2, <1>12, CalmIfSame DEF Line
<1> QED  BY <1>5, <1>6, <1>7, <1>8, <1>10, <1>11, <1>12, LinkFlow

-----------------------------------------------------------------------------
(* Steps of the modem.                                                     *)

\* What has come over a connection stays, or the frame at the head of the buffer has
\* been served; or the modem has closed its end.
Served(c) ==
    /\ Calmer(c)
    /\ \/ srv'[c].buf = srv[c].buf
       \/ Len(srv[c].buf) >= 2 /\ srv'[c].buf = Rest(srv[c].buf)
    /\ \/ conn'[c].up = conn[c].up
       \/ conn'[c].up = <<>> /\ "modem" \notin conn'[c].open
\* It is still whole frames, and perhaps the first piece of one more.
LEMMA ServedFlow ==
    ASSUME BenchInv, FlowInv, UNCHANGED stations, Sent \subseteq Sent', NEW c \in Conns, Served(c)
    PROVE  UpInv(c)'
<1>1. PICK a \in Seq(Halves), u \in Seq(Halves) : a = srv[c].buf /\ u = conn[c].up
  BY ModemParts DEF Wires, Connection
<1>2. PICK w \in Seq(Halves) : w = a \o u
  BY ConcatProperties
<1>3. Flow(w, Sent') /\ (Open(w) => Mute(c))
  BY <1>1, <1>2, FlowMore DEF FlowInv, UpInv, Came
<1>4. Mute(c) => Mute(c)'
  <2>1. ErrorsKept
    BY DEF ErrorsKept, stations, link, threads
  <2> QED  BY <2>1, MuteKept DEF Served
<1>5. PICK b : b = srv'[c].buf
  OBVIOUS
<1>6. b \in Seq(Halves) /\ Flow(b \o u, Sent') /\ (Open(b \o u) => Mute(c)')
  <2>1. CASE b = a
    BY <1>2, <1>3, <1>4, <2>1
  <2>2. CASE Len(a) >= 2 /\ b = Rest(a)
    <3>1. b \in Seq(Halves)
      BY <2>2, RestOK
    <3>2. b = SubSeq(a, 2 + 1, Len(a)) /\ 2 <= Len(a) /\ 2 \in Nat
      BY <2>2 DEF Rest
    <3>3. b \o u = SubSeq(w, 2 + 1, Len(w)) /\ 2 <= Len(w)
      BY <1>2, <3>2, CutHead
    <3>4. 1 \in Nat /\ 2 * 1 = 2 /\ 2 * 1 <= Len(w)
      BY <3>3
    <3>5. /\ Flow(SubSeq(w, 2 * 1 + 1, Len(w)), Sent')
          /\ Open(SubSeq(w, 2 * 1 + 1, Len(w))) <=> Open(w)
      BY <1>3, <3>4, FlowCut
    <3> QED  BY <1>3, <1>4, <3>1, <3>3, <3>4, <3>5
  <2> QED  BY <1>1, <1>5, <2>1, <2>2 DEF Served
<1>7. CASE conn'[c].up = u
  BY <1>5, <1>6, <1>7 DEF UpInv, Came
<1>8. CASE conn'[c].up = <<>> /\ "modem" \notin conn'[c].open
  <2>1. Came(c)' = b
    BY <1>5, <1>6, <1>8, ConcatEmptySeq DEF Came
  <2>2. Flow(b, Sent')
    BY <1>6, FlowBefore
  <2>3. Mute(c)'
    BY <1>8 DEF Mute
  <2> QED  BY <2>1, <2>2, <2>3 DEF UpInv
<1> QED  BY <1>1, <1>7, <1>8 DEF Served

\* Nothing is written to a connection, and nobody begins to.
Unwritten(c) ==
    /\ Calmer(c) /\ conn'[c].down = conn[c].down
    /\ ~Shut(c)' => /\ ~Shut(c) /\ (Writing(c)' <=> Writing(c))
                    /\ Writing(c) => InHand(c)' = InHand(c)
\* What has come for the link is as it was.
LEMMA UnwrittenFlow ==
    ASSUME BenchInv, FlowInv, UNCHANGED stations, Sent \subseteq Sent',
           NEW c \in Conns, Unwritten(c)
    PROVE  DownInv(c)'
<1>1. "link" \in conn'[c].open => "link" \in conn[c].open /\ Line(c)' = Line(c)
  BY DEF Unwritten, Calmer, Line, stations, link
<1> QED  BY <1>1, DownKept DEF FlowInv, Unwritten

\* The next piece of a frame is written, by the only one who writes.
Written(c, f, h) ==
    /\ Downlinked(conn', c, Piece(f, h)) /\ f \in Wholes
    /\ h <=> Writing(c)
    /\ Writing(c) => InHand(c) = f
    /\ Writing(c)' <=> ~h
    /\ ~h => InHand(c)' = f
\* The line has one piece more.
LEMMA WrittenFlow ==
    ASSUME BenchInv, FlowInv, UNCHANGED stations, Sent \subseteq Sent', NEW c \in Conns,
           NEW f, NEW h \in BOOLEAN, Written(c, f, h), ~Shut(c)
    PROVE  DownInv(c)'
<1>1. SUFFICES ASSUME "link" \in conn'[c].open
               PROVE  /\ Flow(Line(c)', Sent') /\ (Open(Line(c)') <=> Writing(c)')
                      /\ Writing(c)' => Line(c)'[Len(Line(c)')] = InHand(c)'[1]
  BY DEF DownInv
<1>2. "link" \in conn[c].open /\ conn'[c].owner = conn[c].owner
  BY <1>1 DEF Written, Downlinked, Carries
<1>3. PICK g \in Sent : f = Pieces(g)
  BY DEF Written, Wholes
<1>4. g \in Frames
  BY DEF Sent
<1>5. PICK x \in Halves : x = Piece(f, h)
  BY <1>3, <1>4, PiecesOK DEF Piece
<1>6. (h => x = <<g, 2>>) /\ (~h => x = <<g, 1>>) /\ f[1] = <<g, 1>>
  BY <1>3, <1>4, <1>5, PiecesOK DEF Piece
<1>7. conn[c].owner \in Stations /\ conn[c].down \in Seq(Halves)
  BY <1>2 DEF BenchInv, Wires, ConnOK, Connection
<1>8. PICK a : a = IF sock[conn[c].owner] = c THEN buffer[conn[c].owner] ELSE <<>>
  OBVIOUS
<1>9. a \in Seq(Halves)
  BY <1>7, <1>8, BenchTypes
<1>10. PICK w \in Seq(Halves) : w = a \o conn[c].down
  BY <1>7, <1>9, ConcatProperties
<1>11. Line(c) = w
  BY <1>8, <1>10 DEF Line
<1>12. Line(c)' = a \o Append(conn[c].down, x)
  BY <1>2, <1>5, <1>8 DEF Line, stations, link, Written, Downlinked
<1>13. Line(c)' = Append(w, x)
  BY <1>7, <1>9, <1>10, <1>12, AddEnd
<1>14. Flow(w, Sent') /\ (Open(w) <=> h) /\ (h => w[Len(w)] = f[1]) /\ g \in Sent'
  BY <1>2, <1>11, FlowMore DEF FlowInv, DownInv, Written
<1>15. CASE h
  <2>1. Flow(Append(w, <<g, 2>>), Sent') /\ ~Open(Append(w, <<g, 2>>))
    BY <1>6, <1>14, <1>15, FlowSecond
  <2> QED  BY <1>6, <1>13, <1>15, <2>1 DEF Written
<1>16. CASE ~h
  <2>1. PICK v : v = Append(w, <<g, 1>>)
    OBVIOUS
  <2>2. Flow(v, Sent') /\ Open(v) /\ v[Len(v)] = <<g, 1>>
    BY <1>14, <1>16, <2>1, FlowFirst
  <2> QED  BY <1>6, <1>13, <1>16, <2>1, <2>2 DEF Written
<1> QED  BY <1>15, <1>16

\* A step of the modem.
LEMMA ModemFlow ==
    ASSUME BenchInv, FlowInv, UNCHANGED stations, Sent \subseteq Sent', Carried',
           \A c \in Conns : UpInv(c)' \/ Served(c),
           \A c \in Conns : DownInv(c)' \/ Unwritten(c)
    PROVE  FlowInv'
<1>1. Apart'
  BY DEF FlowInv, Apart, stations, link, threads
<1>2. Got'
  BY GotKept DEF FlowInv, stations
<1>3. \A c \in Conns : UpInv(c)'
  BY ServedFlow
<1>4. \A c \in Conns : DownInv(c)'
  BY UnwrittenFlow
<1> QED  BY <1>1, <1>2, <1>3, <1>4 DEF FlowInv

\* Only one thread writes.
LEMMA WhoWrites ==
    ASSUME OneWriter, BenchInv
    PROVE  /\ FALSE \in options.delay => TRUE \notin options.delay /\ txq = {} /\ sched.now = None
           /\ FALSE \in options.delay /\ options.echo =>
                bcast.todo = {} /\ bcast.now = None /\ bcast.dead = {}
           /\ bcast.todo # {} \/ bcast.now # None => \A c \in Conns : ~srv[c].half
           /\ TRUE \in options.delay =>
                bcast.now = None /\ bcast.dead = {} /\ \A c \in Conns : ~srv[c].half
<1>1. Modes /\ Threads
  BY ModemParts
<1>2. \/ options.delay = {TRUE}
      \/ options.delay = {FALSE} /\ ~(options.echo /\ (options.broadcast \/ options.fake_ogm))
  BY DEF OneWriter
<1>3. CASE options.delay = {TRUE}
  <2>1. FALSE \notin options.delay /\ TRUE \in options.delay
    BY <1>3
  <2> QED  BY <1>1, <2>1 DEF Modes
<1>4. CASE options.delay = {FALSE} /\ ~(options.echo /\ (options.broadcast \/ options.fake_ogm))
  <2>1. FALSE \in options.delay /\ TRUE \notin options.delay
    BY <1>4
  <2>2. options.echo => bcast.todo = {} /\ bcast.now = None /\ bcast.dead = {}
    BY <1>1, <1>4 DEF Modes
  <2>3. bcast.todo # {} \/ bcast.now # None => \A c \in Conns : ~srv[c].half
    BY <1>1, <2>2 DEF Threads
  <2> QED  BY <1>1, <2>1, <2>2, <2>3 DEF Modes
<1> QED  BY <1>2, <1>3, <1>4

\* The frame at the head of a buffer is whole.
LEMMA HeadWhole ==
    ASSUME BenchInv, FlowInv, NEW c \in Conns, Len(srv[c].buf) >= 2
    PROVE  FrameOf(srv[c].buf) \in Wholes
<1>1. PICK a \in Seq(Halves), u \in Seq(Halves) : a = srv[c].buf /\ u = conn[c].up
  BY ModemParts DEF Wires, Connection
<1>2. Flow(a \o u, Sent)
  BY <1>1 DEF FlowInv, UpInv, Came
<1>3. Flow(a, Sent)
  BY <1>2, FlowBefore
<1>4. 1 \in Nat \ {0} /\ 2 * 1 <= Len(a) /\ 2 * 1 - 1 = 1 /\ 2 * 1 = 2
  BY <1>1
<1>5. \E f \in Sent : <<a[2 * 1 - 1], a[2 * 1]>> = Pieces(f)
  BY <1>3, <1>4, FlowPair
<1>6. \E f \in Sent : <<a[1], a[2]>> = Pieces(f)
  BY <1>4, <1>5
<1> QED  BY <1>1, <1>6 DEF FrameOf, Wholes

\* Connections that are dropped.
LEMMA DropsCalm ==
    ASSUME NEW cs, Drops(cs), NEW d \in Conns
    PROVE  /\ Calmer(d) /\ conn'[d].down = conn[d].down
           /\ conn'[d].up = conn[d].up \/ (conn'[d].up = <<>> /\ "modem" \notin conn'[d].open)
           /\ d \in cs => "modem" \notin conn'[d].open /\ Shut(d)'
<1>1. CASE d \in cs
  <2>1. Ended(conn[d], conn'[d], "modem")
    BY <1>1 DEF Drops
  <2>2. conn'[d].up = <<>> /\ conn'[d].down = conn[d].down /\ "modem" \notin conn'[d].open
    BY <2>1 DEF Ended
  <2> QED  BY <2>1, <2>2, CalmIfEnded DEF Shut, Usable
<1>2. CASE d \notin cs
  <2>1. conn'[d] = conn[d]
    BY <1>2 DEF Drops
  <2> QED  BY <1>2, <2>1, CalmIfSame
<1> QED  BY <1>1, <1>2

\* The threads of the modem that move are not writing.
LEMMA NobodyWrites ==
    ASSUME NEW d \in Conns, UNCHANGED <<bcast, sched>>, Calmer(d), conn'[d].down = conn[d].down,
           srv'[d] = srv[d] \/ (~srv[d].half /\ ~srv'[d].half)
    PROVE  Unwritten(d)
<1>1. ~Shut(d)' => ~Shut(d)
  BY StaysShut
<1>2. Writing(d)' <=> Writing(d)
  BY DEF Writing
<1>3. Writing(d) => InHand(d)' = InHand(d)
  BY DEF Writing, InHand
<1> QED  BY <1>1, <1>2, <1>3 DEF Unwritten

\* _accept_loop and _client_loop.
LEMMA ServeFlow ==
    ASSUME ModemInv, BenchInv, FlowInv, NEW c \in Conns,
           Accept(c) \/ ClientRecv(c) \/ ClientRecvEnds(c) \/ ClientEnds(c)
    PROVE  FlowInv'
<1>1. UNCHANGED stations /\ UNCHANGED <<bcast, sched, txq, ogms>>
  BY DEF Accept, ClientRecv, ClientRecvEnds, ClientEnds
<1>2. Sent' = Sent /\ Sent \subseteq Sent'
  BY <1>1, SameSent
<1>3. Carried'
  BY <1>1, <1>2, CarriedKept DEF FlowInv
<1>4. ModemTypes /\ Threads /\ Registered /\ Wires(conn) /\ <<>> \in Seq(Halves)
  BY ModemParts
<1>5. {"recv", "end", "off"} \subseteq SrvPcs
  BY DEF SrvPcs
<1>6. Flow(<<>>, Sent') /\ ~Open(<<>>) /\ <<>> \o <<>> = <<>>
  BY FlowEmpty
<1>7. CASE Accept(c)
  <2>1. srv[c].pc = "off" /\ conn' = conn /\ Srv(c, "recv", <<>>)
    BY <1>7 DEF Accept
  <2>2. srv'[c].buf = <<>> /\ ~srv'[c].half /\ \A d \in Conns : d # c => srv'[d] = srv[d]
    BY <1>4, <1>5, <2>1, SrvOK
  <2>3. srv[c].buf = <<>> /\ ~srv[c].half
    BY <1>4, <2>1 DEF Threads
  <2>4. \A d \in Conns : Served(d)
    BY <2>1, <2>2, <2>3, CalmIfSame DEF Served
  <2>5. \A d \in Conns : Unwritten(d)
    BY <1>1, <2>1, <2>2, <2>3, NobodyWrites, CalmIfSame
  <2> QED  BY <1>1, <1>2, <1>3, <2>4, <2>5, ModemFlow
<1>8. CASE ClientRecv(c)
  <2>0. PICK k \in 1 .. Len(conn[c].up) : \E u, b :
            /\ u = SubSeq(conn[c].up, k + 1, Len(conn[c].up))
            /\ b = srv[c].buf \o SubSeq(conn[c].up, 1, k)
            /\ u \in Seq(Halves) /\ b \in Seq(Halves)
            /\ Srv(c, Todo(b), b) /\ srv[c].pc = "recv"
            /\ Carries(conn, conn') /\ conn'[c].up = u
            /\ \A d \in Conns : conn'[d].down = conn[d].down /\ (d # c => conn'[d] = conn[d])
    BY <1>8, ClientRecvFacts
  <2>1. PICK u, b :
            /\ u = SubSeq(conn[c].up, k + 1, Len(conn[c].up))
            /\ b = srv[c].buf \o SubSeq(conn[c].up, 1, k)
            /\ u \in Seq(Halves) /\ b \in Seq(Halves)
            /\ Srv(c, Todo(b), b) /\ srv[c].pc = "recv"
            /\ Carries(conn, conn') /\ conn'[c].up = u
            /\ \A d \in Conns : conn'[d].down = conn[d].down /\ (d # c => conn'[d] = conn[d])
    BY <2>0
  <2>2. srv'[c].buf = b /\ ~srv'[c].half /\ \A d \in Conns : d # c => srv'[d] = srv[d]
    <3>1. PICK t \in SrvPcs : t = Todo(b)
      BY <2>1, TodoOK
    <3>2. Srv(c, t, b) /\ b \in Seq(Halves)
      BY <2>1, <3>1
    <3> QED  BY <1>4, <3>2, SrvOK
  <2>3. ~srv[c].half /\ srv[c].buf \in Seq(Halves) /\ conn[c].up \in Seq(Halves)
    BY <1>4, <2>1 DEF Threads, ModemTypes, Wires, Connection
  <2>4. \A d \in Conns : Calmer(d)
    BY <2>1, CalmIfCarries
  <2>5. b \o u = srv[c].buf \o conn[c].up
    <3>1. PICK a \in Seq(Halves), v \in Seq(Halves) : a = srv[c].buf /\ v = conn[c].up
      BY <2>3
    <3>2. (a \o SubSeq(v, 1, k)) \o SubSeq(v, k + 1, Len(v)) = a \o v
      BY <3>1, Handed
    <3> QED  BY <2>1, <3>1, <3>2
  <2>6. Came(c)' = Came(c)
    BY <2>1, <2>2, <2>5 DEF Came
  <2>7. UpInv(c)'
    <3>1. ErrorsKept
      BY <1>1 DEF ErrorsKept, stations, link, threads
    <3> QED  BY <1>2, <2>4, <2>6, <3>1, MuteKept, UpKept DEF FlowInv
  <2>8. \A d \in Conns : d # c => Served(d)
    BY <2>1, <2>2, <2>4 DEF Served
  <2>9. \A d \in Conns : Unwritten(d)
    BY <1>1, <2>1, <2>2, <2>3, <2>4, NobodyWrites
  <2> QED  BY <1>1, <1>2, <1>3, <2>7, <2>8, <2>9, ModemFlow
<1>9. CASE ClientRecvEnds(c)
  <2>1. /\ srv[c].pc = "recv" /\ conn' = conn /\ Srv(c, "end", <<>>)
        /\ stopped \/ ~Usable("modem", c) \/ conn[c].up = <<>>
    BY <1>9 DEF ClientRecvEnds
  <2>2. srv'[c].buf = <<>> /\ ~srv'[c].half /\ \A d \in Conns : d # c => srv'[d] = srv[d]
    BY <1>4, <1>5, <2>1, SrvOK
  <2>3. conn[c].up = <<>> /\ ~srv[c].half
    BY <1>4, <2>1 DEF Threads, Registered, Usable, Wires, ConnOK, Alive
  <2>4. UpInv(c)'
    BY <1>6, <2>1, <2>2, <2>3 DEF UpInv, Came
  <2>5. \A d \in Conns : d # c => Served(d)
    BY <2>1, <2>2, CalmIfSame DEF Served
  <2>6. \A d \in Conns : Unwritten(d)
    BY <1>1, <2>1, <2>2, <2>3, NobodyWrites, CalmIfSame
  <2> QED  BY <1>1, <1>2, <1>3, <2>4, <2>5, <2>6, ModemFlow
<1>10. CASE ClientEnds(c)
  <2>1. srv[c].pc = "end" /\ DropClients({c} \cap clients) /\ Srv(c, "off", <<>>)
    BY <1>10 DEF ClientEnds
  <2>2. PICK cs : cs = {c} \cap clients
    OBVIOUS
  <2>3. Drops(cs)
    BY <1>4, <2>1, <2>2, DropsOK
  <2>4. srv'[c].buf = <<>> /\ ~srv'[c].half /\ \A d \in Conns : d # c => srv'[d] = srv[d]
    BY <1>4, <1>5, <2>1, SrvOK
  <2>5. srv[c].buf = <<>> /\ ~srv[c].half
    BY <1>4, <2>1 DEF Threads
  <2>6. \A d \in Conns : Served(d)
    BY <2>3, <2>4, <2>5, DropsCalm DEF Served
  <2>7. \A d \in Conns : Unwritten(d)
    BY <1>1, <2>3, <2>4, <2>5, NobodyWrites, DropsCalm
  <2> QED  BY <1>1, <1>2, <1>3, <2>6, <2>7, ModemFlow
<1> QED  BY <1>7, <1>8, <1>9, <1>10

\* A frame that is delayed.
LEMMA CarriedMore ==
    ASSUME Carried, Sent \subseteq Sent', UNCHANGED <<bcast, sched>>,
           NEW p, NEW c, NEW f \in Wholes,
           txq' = txq \cup {[by |-> p, to |-> c, frame |-> f]}
    PROVE  Carried'
<1>1. Wholes \subseteq Wholes'
  BY SentGrows
<1>2. ASSUME NEW q \in txq' PROVE q.frame \in Wholes'
  BY <1>1, <1>2 DEF Carried
<1> QED  BY <1>1, <1>2 DEF Carried

\* send_to_one.
LEMMA EchoFlow ==
    ASSUME OneWriter, ModemInv, BenchInv, FlowInv, NEW c \in Conns, EchoFrame(c) \/ EchoFails(c)
    PROVE  FlowInv'
<1>1. /\ UNCHANGED stations /\ UNCHANGED <<bcast, sched, ogms>> /\ srv[c].pc = "one"
  BY DEF EchoFrame, EchoFails
<1>2. Sent' = Sent /\ Sent \subseteq Sent'
  BY <1>1, SameSent
<1>3. /\ Threads /\ Registered /\ Wires(conn) /\ Carried
      /\ srv \in [Conns -> [pc : SrvPcs, buf : Seq(Halves), half : BOOLEAN]]
  BY ModemParts DEF FlowInv
<1>4. PICK f : f = FrameOf(srv[c].buf)
  OBVIOUS
<1>5. Len(srv[c].buf) >= 2 /\ options.echo
  BY <1>1, <1>3 DEF Threads
<1>6. f \in Wholes
  BY <1>4, <1>5, HeadWhole
<1>7. f \in Halves \X Halves
  BY <1>3, <1>4, <1>5, RestOK
<1>8. /\ srv'[c].buf = srv[c].buf /\ \A d \in Conns : d # c => srv'[d] = srv[d]
  <2>1. \/ srv' = [srv EXCEPT ![c].pc = "all"]
        \/ srv' = [srv EXCEPT ![c].half = ~@, ![c].pc = IF srv[c].half THEN "all" ELSE "one"]
        \/ srv' = [srv EXCEPT ![c].pc = "all", ![c].half = FALSE]
    BY DEF EchoFrame, EchoFails
  <2> QED  BY <1>3, <2>1
<1>9. CASE /\ ~srv[c].half /\ srv' = [srv EXCEPT ![c].pc = "all"] /\ conn' = conn
           /\ txq' = txq \/ txq' = txq \cup {[by |-> c, to |-> c, frame |-> f]}
  <2>1. ~srv'[c].half
    BY <1>3, <1>9
  <2>2. Carried'
    BY <1>1, <1>2, <1>3, <1>6, <1>9, CarriedKept, CarriedMore
  <2>3. \A d \in Conns : Served(d)
    BY <1>8, <1>9, CalmIfSame DEF Served
  <2>4. \A d \in Conns : Unwritten(d)
    BY <1>1, <1>8, <1>9, <2>1, NobodyWrites, CalmIfSame
  <2> QED  BY <1>1, <1>2, <2>2, <2>3, <2>4, ModemFlow
<1>10. CASE /\ FALSE \in options.delay /\ Usable("modem", c) /\ conn' = Down(c, f, srv[c].half)
            /\ srv' = [srv EXCEPT ![c].half = ~@, ![c].pc = IF srv[c].half THEN "all" ELSE "one"]
            /\ txq' = txq
  <2>1. PICK h \in BOOLEAN : h = srv[c].half
    BY <1>3
  <2>2. srv'[c].half = ~h
    BY <1>3, <1>10, <2>1
  <2>3. Downlinked(conn', c, Piece(f, h))
    BY <1>3, <1>7, <1>10, <2>1, DownOK
  <2>4. bcast.now = None /\ bcast.dead = {} /\ sched.now = None
    BY <1>5, <1>10, WhoWrites
  <2>5. c # None
    BY ConnAssumption
  <2>6. Writing(c) <=> h
    BY <2>1, <2>4, <2>5 DEF Writing
  <2>7. Writing(c)' <=> ~h
    BY <1>1, <2>2, <2>4, <2>5 DEF Writing
  <2>8. h => InHand(c) = f
    BY <1>4, <2>1, <2>4, <2>5 DEF InHand
  <2>9. ~h => InHand(c)' = f
    BY <1>1, <1>4, <1>8, <2>2, <2>4, <2>5 DEF InHand
  <2>10. Written(c, f, h)
    BY <1>6, <2>3, <2>6, <2>7, <2>8, <2>9 DEF Written
  <2>11. ~Shut(c)
    BY <1>10, <2>4 DEF Shut
  <2>12. DownInv(c)'
    BY <1>1, <1>2, <2>10, <2>11, WrittenFlow
  <2>13. /\ Carries(conn, conn') /\ \A d \in Conns : conn'[d].up = conn[d].up
         /\ \A d \in Conns : d # c => conn'[d] = conn[d]
    BY <2>3 DEF Downlinked
  <2>14. \A d \in Conns : Calmer(d)
    BY <2>13, CalmIfCarries
  <2>15. \A d \in Conns : Served(d)
    BY <1>8, <2>13, <2>14 DEF Served
  <2>16. \A d \in Conns : d # c => Unwritten(d)
    BY <1>1, <1>8, <2>13, <2>14, NobodyWrites
  <2>17. Carried'
    BY <1>1, <1>2, <1>3, <1>10, CarriedKept
  <2> QED  BY <1>1, <1>2, <2>12, <2>15, <2>16, <2>17, ModemFlow
<1>11. CASE EchoFails(c)
  <2>1. /\ LockFree /\ DropClients({c} \cap clients) /\ txq' = txq /\ WriteFails(c)
        /\ FALSE \in options.delay
    BY <1>11 DEF EchoFails
  <2>2. PICK cs : cs = {c} \cap clients
    OBVIOUS
  <2>3. Drops(cs)
    BY <1>3, <2>1, <2>2, DropsOK
  <2>4. \A d \in Conns : Served(d)
    BY <1>8, <2>3, DropsCalm DEF Served
  <2>5. \A d \in Conns : d # c => Unwritten(d)
    BY <1>1, <1>8, <2>3, DropsCalm, NobodyWrites
  <2>6. Shut(c)'
    <3>1. "modem" \in conn[c].open => c \in cs
      BY <1>1, <1>3, <2>2 DEF Registered, Uses
    <3>2. CASE c \in cs
      BY <2>3, <3>2, DropsCalm
    <3>3. CASE c \notin cs
      <4>1. conn'[c] = conn[c]
        BY <2>3, <3>3 DEF Drops
      <4> QED  BY <3>1, <3>3, <4>1 DEF Shut, Usable
    <3> QED  BY <3>2, <3>3
  <2>7. Unwritten(c)
    BY <2>3, <2>6, DropsCalm DEF Unwritten
  <2>8. Carried'
    BY <1>1, <1>2, <1>3, <2>1, CarriedKept
  <2> QED  BY <1>1, <1>2, <2>4, <2>5, <2>7, <2>8, ModemFlow
<1>12. CASE EchoFrame(c)
  BY <1>4, <1>9, <1>10, <1>12 DEF EchoFrame
<1> QED  BY <1>11, <1>12

\* The broadcast does not write to this client.
LEMMA NotServed ==
    ASSUME NEW d \in Conns, UNCHANGED sched, Calmer(d), conn'[d].down = conn[d].down,
           bcast.now # d, bcast'.now # d, d \in bcast.dead => Shut(d)',
           srv'[d] = srv[d] \/ (~srv[d].half /\ ~srv'[d].half)
    PROVE  Unwritten(d)
<1>1. ~Shut(d)' => ~Shut(d)
  BY DEF Shut, Calmer, Usable
<1>2. Writing(d)' <=> Writing(d)
  BY DEF Writing
<1>3. Writing(d) => InHand(d)' = InHand(d)
  BY DEF Writing, InHand
<1> QED  BY <1>1, <1>2, <1>3 DEF Unwritten

\* send_to_all begins.
LEMMA BeginFlow ==
    ASSUME ModemInv, BenchInv, FlowInv, NEW c \in Conns, BroadcastFrame(c)
    PROVE  FlowInv'
<1>1. /\ UNCHANGED stations /\ UNCHANGED <<sched, txq, ogms, conn>> /\ srv[c].pc = "all"
  BY DEF BroadcastFrame
<1>2. Sent' = Sent /\ Sent \subseteq Sent' /\ Wholes' = Wholes
  BY <1>1, SameSent
<1>3. /\ Threads /\ ModemTypes /\ Carried /\ clients \in SUBSET Conns
      /\ srv \in [Conns -> [pc : SrvPcs, buf : Seq(Halves), half : BOOLEAN]]
  BY ModemParts DEF FlowInv
<1>4. Len(srv[c].buf) >= 2 /\ ~srv[c].half /\ srv[c].buf \in Seq(Halves)
  BY <1>1, <1>3 DEF Threads
<1>5. CASE options.broadcast
  <2>1. PICK f : f = FrameOf(srv[c].buf)
    OBVIOUS
  <2>2. f \in Wholes /\ f \in Halves \X Halves
    BY <1>4, <2>1, HeadWhole, RestOK
  <2>3. /\ LockFree /\ bcast' = Broadcasting(c, f) /\ srv' = [srv EXCEPT ![c].pc = "wait"]
    BY <1>5, <2>1 DEF BroadcastFrame
  <2>4. Begins(bcast', c, f)
    BY <1>3, <2>2, <2>3, BroadcastingOK
  <2>5. /\ srv'[c].buf = srv[c].buf /\ ~srv'[c].half
        /\ \A d \in Conns : d # c => srv'[d] = srv[d]
    BY <1>3, <1>4, <2>3
  <2>6. Carried'
    BY <1>1, <1>2, <1>3, <2>2, <2>4 DEF Carried, Begins
  <2>7. \A d \in Conns : Served(d)
    BY <1>1, <2>5, CalmIfSame DEF Served
  <2>8. bcast.now = None /\ bcast.dead = {} /\ bcast'.now = None
    BY <2>3, <2>4, FreeOK DEF Begins
  <2>9. \A d \in Conns : Unwritten(d)
    BY <1>1, <1>4, <2>5, <2>8, NotServed, CalmIfSame, ConnAssumption
  <2> QED  BY <1>1, <1>2, <2>6, <2>7, <2>9, ModemFlow
<1>6. CASE ~options.broadcast
  <2>1. PICK b : b = Rest(srv[c].buf)
    OBVIOUS
  <2>2. Srv(c, Todo(b), b) /\ bcast' = bcast
    BY <1>6, <2>1 DEF BroadcastFrame
  <2>3. b \in Seq(Halves)
    BY <1>4, <2>1, RestOK
  <2>4. srv'[c].buf = b /\ ~srv'[c].half /\ \A d \in Conns : d # c => srv'[d] = srv[d]
    BY <1>3, <2>2, <2>3, TodoOK, SrvOK
  <2>5. Carried'
    BY <1>1, <1>2, <1>3, <2>2, CarriedKept
  <2>6. \A d \in Conns : Served(d)
    BY <1>1, <1>4, <2>1, <2>4, CalmIfSame DEF Served
  <2>7. \A d \in Conns : Unwritten(d)
    BY <1>1, <1>4, <2>2, <2>4, NobodyWrites, CalmIfSame
  <2> QED  BY <1>1, <1>2, <2>5, <2>6, <2>7, ModemFlow
<1> QED  BY <1>5, <1>6

\* _fake_ogm_loop.
LEMMA OgmFlow ==
    ASSUME ModemInv, BenchInv, FlowInv, InjectOgm
    PROVE  FlowInv'
<1>1. /\ UNCHANGED stations /\ UNCHANGED <<sched, txq, srv, conn>> /\ LockFree
      /\ bcast' = Broadcasting(Modem, Pieces(Frame(Modem, ogms + 1)))
  BY DEF InjectOgm
<1>2. /\ Sent \subseteq Sent' /\ Frame(Modem, ogms + 1) \in Sent'
      /\ Pieces(Frame(Modem, ogms + 1)) \in Halves \X Halves
  BY OgmFacts
<1>3. PICK f \in Halves \X Halves : f = Pieces(Frame(Modem, ogms + 1))
  BY <1>2
<1>4. f \in Wholes' /\ Wholes \subseteq Wholes'
  BY <1>2, <1>3, SentGrows DEF Wholes
<1>5. Begins(bcast', Modem, f)
  BY <1>1, <1>3, ModemParts, BroadcastingOK
<1>6. Carried'
  BY <1>1, <1>4, <1>5 DEF FlowInv, Carried, Begins
<1>7. \A d \in Conns : Served(d)
  BY <1>1, CalmIfSame DEF Served
<1>8. bcast.now = None /\ bcast.dead = {} /\ bcast'.now = None
  BY <1>1, <1>5, FreeOK DEF Begins
<1>9. \A d \in Conns : Unwritten(d)
  BY <1>1, <1>8, NotServed, CalmIfSame, ConnAssumption
<1> QED  BY <1>1, <1>2, <1>6, <1>7, <1>9, ModemFlow

\* It serves a client, or fails to.
LEMMA AirFlow ==
    ASSUME OneWriter, ModemInv, BenchInv, FlowInv, NEW c \in Conns, SkipClient(c) \/ WriteClient(c)
    PROVE  FlowInv'
<1>1. /\ UNCHANGED stations /\ UNCHANGED <<srv, sched, ogms>>
      /\ bcast.frame \in Halves \X Halves /\ (bcast.todo # {} \/ bcast.now # None)
      /\ Skips(c) \/ Serves(c)
  BY AirFacts
<1>2. Sent' = Sent /\ Sent \subseteq Sent' /\ Wholes' = Wholes
  BY <1>1, SameSent
<1>3. Modes /\ Carried /\ c # None /\ bcast \in Sending
  BY ModemParts, ConnAssumption DEF FlowInv
<1>4. PICK f \in Wholes : f = bcast.frame
  BY <1>1, <1>3 DEF Carried
<1>5. bcast'.frame = f
  BY <1>1, <1>4 DEF Skips, Serves, Is
<1>6. CASE Skips(c)
  <2>1. Carried'
    <3>0. PICK n : n = [by |-> bcast.by, to |-> c, frame |-> bcast.frame]
      OBVIOUS
    <3>1. \A q \in txq' : q.frame \in Wholes
      <4>1. txq' \subseteq txq \cup {n} /\ n.frame \in Wholes
        BY <1>4, <1>6, <3>0 DEF Skips
      <4> QED  BY <1>3, <4>1 DEF Carried
    <3> QED  BY <1>1, <1>2, <1>3, <1>4, <1>5, <3>1 DEF Carried
  <2>2. conn' = conn /\ bcast.now = None /\ bcast'.now = None /\ bcast'.dead = bcast.dead
    BY <1>6 DEF Skips, Is
  <2>3. \A d \in Conns : Served(d)
    BY <1>1, <2>2, CalmIfSame DEF Served
  <2>4. \A d \in Conns : d \in bcast.dead => Shut(d)'
    BY <2>2 DEF Shut
  <2>5. \A d \in Conns : Unwritten(d)
    BY <1>1, <2>2, <2>4, NotServed, CalmIfSame, ConnAssumption
  <2> QED  BY <1>1, <1>2, <2>1, <2>3, <2>5, ModemFlow
<1>7. CASE Serves(c)
  <2>1. /\ txq' = txq /\ FALSE \in options.delay /\ bcast.now \in {None, c}
        /\ bcast'.now \in {None, c} /\ bcast.dead \subseteq bcast'.dead
    BY <1>7 DEF Serves, Is
  <2>2. Carried'
    BY <1>1, <1>2, <1>3, <1>4, <1>5, <2>1 DEF Carried
  <2>3. sched.now = None /\ \A d \in Conns : ~srv[d].half
    BY <1>1, <2>1, WhoWrites
  <2>4. ASSUME conn' = conn, Is(bcast', bcast.by, bcast.frame, bcast.todo \ {c}, None, FALSE,
                                bcast.dead \cup {c})
        PROVE  FlowInv'
    <3>1. \A d \in Conns : Served(d)
      BY <1>1, <2>4, CalmIfSame DEF Served
    <3>2. Shut(c)'
      BY <2>4 DEF Is, Shut
    <3>3. Unwritten(c)
      BY <2>4, <3>2, CalmIfSame DEF Unwritten
    <3>4. \A d \in Conns : d \in bcast.dead => Shut(d)'
      BY <2>1 DEF Shut
    <3>5. \A d \in Conns : d # c => Unwritten(d)
      BY <1>1, <2>1, <2>4, <3>4, NotServed, CalmIfSame, ConnAssumption
    <3> QED  BY <1>1, <1>2, <2>2, <3>1, <3>3, <3>5, ModemFlow
  <2>5. ASSUME Usable("modem", c), Downlinked(conn', c, Piece(bcast.frame, bcast.half)),
               Is(bcast', bcast.by, bcast.frame, bcast.todo \ {c},
                  IF bcast.half THEN None ELSE c, ~bcast.half, bcast.dead)
        PROVE  FlowInv'
    <3>1. PICK h \in BOOLEAN : h = bcast.half
      BY <1>3 DEF Sending
    <3>2. Writing(c) <=> h
      BY <1>3, <2>1, <2>3, <3>1 DEF Writing, Modes
    <3>3. Writing(c)' <=> ~h
      BY <1>1, <1>3, <2>3, <2>5, <3>1 DEF Writing, Is
    <3>4. Writing(c) => InHand(c) = f
      BY <1>3, <1>4, <2>3 DEF Writing, InHand
    <3>5. ~h => InHand(c)' = f
      BY <1>4, <2>5, <3>1 DEF InHand, Is
    <3>6. Written(c, f, h)
      BY <1>4, <2>5, <3>1, <3>2, <3>3, <3>4, <3>5 DEF Written
    <3>7. c \notin bcast.dead
      BY <1>3, <1>7 DEF Modes, Serves
    <3>8. DownInv(c)'
      BY <1>1, <1>2, <2>5, <3>6, <3>7, WrittenFlow DEF Shut
    <3>9. /\ Carries(conn, conn') /\ \A d \in Conns : conn'[d].up = conn[d].up
          /\ \A d \in Conns : d # c => conn'[d] = conn[d]
      BY <2>5 DEF Downlinked
    <3>10. \A d \in Conns : Calmer(d)
      BY <3>9, CalmIfCarries
    <3>11. \A d \in Conns : Served(d)
      BY <1>1, <3>9, <3>10 DEF Served
    <3>12. \A d \in Conns : d \in bcast.dead => Shut(d)'
      BY <2>1 DEF Shut
    <3>13. \A d \in Conns : d # c => Unwritten(d)
      BY <1>1, <2>1, <3>9, <3>10, <3>12, NotServed, ConnAssumption
    <3> QED  BY <1>1, <1>2, <2>2, <3>8, <3>11, <3>13, ModemFlow
  <2> QED  BY <1>7, <2>4, <2>5 DEF Serves
<1> QED  BY <1>1, <1>6, <1>7

\* The end of a broadcast.
LEMMA EndFlow ==
    ASSUME ModemInv, BenchInv, FlowInv, BroadcastEnds
    PROVE  FlowInv'
<1>1. /\ UNCHANGED stations /\ UNCHANGED <<sched, txq, ogms>> /\ bcast.now = None
      /\ bcast' = Quiet /\ DropClients(bcast.dead)
  BY DEF BroadcastEnds
<1>2. Sent' = Sent /\ Sent \subseteq Sent' /\ Wholes' = Wholes
  BY <1>1, SameSent
<1>3. Threads /\ ModemTypes /\ Carried /\ Wires(conn)
  BY ModemParts DEF FlowInv
<1>4. PICK cs : cs = bcast.dead
  OBVIOUS
<1>5. Drops(cs)
  BY <1>1, <1>3, <1>4, DropsOK
<1>6. Carried'
  BY <1>1, <1>2, <1>3, QuietOK DEF Carried
<1>7. ASSUME NEW d \in Conns
      PROVE  /\ srv'[d] = srv[d] \/ (~srv[d].half /\ ~srv'[d].half)
             /\ \/ srv'[d].buf = srv[d].buf
                \/ Len(srv[d].buf) >= 2 /\ srv'[d].buf = Rest(srv[d].buf)
  <2>1. CASE bcast.by \in Conns
    <3>1. PICK c \in Conns : c = bcast.by
      BY <2>1
    <3>2. PICK b : b = Rest(srv[c].buf)
      OBVIOUS
    <3>3. srv[c].pc = "wait" /\ Len(srv[c].buf) >= 2 /\ srv[c].buf \in Seq(Halves) /\ ~srv[c].half
      BY <1>3, <3>1 DEF Threads, ModemTypes
    <3>4. b \in Seq(Halves)
      BY <3>2, <3>3, RestOK
    <3>5. Srv(c, Todo(b), b)
      BY <2>1, <3>1, <3>2 DEF BroadcastEnds
    <3>6. /\ srv'[c].buf = b /\ srv'[c].half = FALSE
          /\ \A x \in Conns : x # c => srv'[x] = srv[x]
      BY <1>3, <3>4, <3>5, TodoOK, SrvOK
    <3> QED  BY <3>2, <3>3, <3>6
  <2>2. CASE bcast.by \notin Conns
    BY <2>2 DEF BroadcastEnds
  <2> QED  BY <2>1, <2>2
<1>8. \A d \in Conns : Served(d)
  BY <1>5, <1>7, DropsCalm DEF Served
<1>9. bcast'.now = None
  BY <1>1, QuietOK
<1>10. \A d \in Conns : Unwritten(d)
  BY <1>1, <1>4, <1>5, <1>7, <1>9, DropsCalm, NotServed, ConnAssumption
<1> QED  BY <1>1, <1>2, <1>6, <1>8, <1>10, ModemFlow

\* _tx_scheduler_loop.
LEMMA SchedulerFlow ==
    ASSUME OneWriter, ModemInv, BenchInv, FlowInv, SchedulerStep
    PROVE  FlowInv'
<1>1. /\ UNCHANGED stations /\ UNCHANGED <<bcast, srv, ogms>>
      /\ (\E q \in txq : Takes(q)) \/ Delivers
  BY SchedulerFacts
<1>2. Sent' = Sent /\ Sent \subseteq Sent' /\ Wholes' = Wholes
  BY <1>1, SameSent
<1>3. Modes /\ Carried /\ Registered /\ sched \in Sending
  BY ModemParts DEF FlowInv
<1>4. ASSUME NEW q \in txq, Takes(q) PROVE FlowInv'
  <2>1. conn' = conn /\ sched.half = FALSE /\ sched'.half = FALSE /\ txq' \subseteq txq
    BY <1>4, QuietOK DEF Takes, Is
  <2>2. sched'.now # None => sched'.frame = q.frame
    BY <1>4, QuietOK DEF Takes, Is
  <2>3. Carried'
    BY <1>1, <1>2, <1>3, <2>1, <2>2 DEF Carried
  <2>4. \A d \in Conns : Served(d)
    BY <1>1, <2>1, CalmIfSame DEF Served
  <2>5. ASSUME NEW d \in Conns PROVE Unwritten(d)
    <3>1. Calmer(d)
      BY <2>1, CalmIfSame
    <3>2. ~Shut(d)' => ~Shut(d)
      BY <1>1, <3>1, StaysShut
    <3>3. Writing(d)' <=> Writing(d)
      BY <1>1, <2>1 DEF Writing
    <3>4. Writing(d) => InHand(d)' = InHand(d)
      BY <1>1, <2>1 DEF Writing, InHand
    <3> QED  BY <2>1, <3>1, <3>2, <3>3, <3>4 DEF Unwritten
  <2> QED  BY <1>1, <1>2, <2>3, <2>4, <2>5, ModemFlow
<1>5. CASE Delivers
  <2>1. PICK c \in Conns : c = sched.now
    BY <1>5 DEF Delivers
  <2>2. c # None /\ txq' = txq
    BY <1>5, ConnAssumption DEF Delivers
  <2>3. PICK f \in Wholes : f = sched.frame
    BY <1>3, <2>1, <2>2 DEF Carried
  <2>4. TRUE \in options.delay
    BY <1>3, <2>1, <2>2 DEF Modes
  <2>5. bcast.now = None /\ bcast.dead = {} /\ \A d \in Conns : ~srv[d].half
    BY <2>4, WhoWrites
  <2>6. \A d \in Conns : d # None
    BY ConnAssumption
  <2>7. ASSUME sched'.now \in {None, c}, sched'.now = c => sched'.frame = f,
               NEW d \in Conns, d # c, Calmer(d), conn'[d].down = conn[d].down
        PROVE  Unwritten(d)
    <3>1. ~Writing(d)' /\ ~Writing(d)
      BY <1>1, <2>1, <2>5, <2>6, <2>7 DEF Writing
    <3>2. ~Shut(d)' => ~Shut(d)
      BY <1>1, <2>7, StaysShut
    <3> QED  BY <2>7, <3>1, <3>2 DEF Unwritten
  <2>8. ASSUME Usable("modem", c), Downlinked(conn', c, Piece(sched.frame, sched.half)),
               IF sched.half THEN sched' = Quiet
               ELSE Is(sched', sched.by, sched.frame, sched.todo, c, TRUE, sched.dead)
        PROVE  FlowInv'
    <3>1. PICK h \in BOOLEAN : h = sched.half
      BY <1>3 DEF Sending
    <3>2. (h => sched'.now = None) /\ (~h => sched'.now = c /\ sched'.half /\ sched'.frame = f)
      BY <2>3, <2>8, <3>1, QuietOK DEF Is
    <3>3. Writing(c) <=> h
      BY <2>1, <2>2, <2>5, <3>1 DEF Writing
    <3>4. Writing(c)' <=> ~h
      BY <1>1, <2>2, <2>5, <3>2 DEF Writing
    <3>5. InHand(c) = f /\ (~h => InHand(c)' = f)
      BY <1>1, <2>2, <2>3, <2>5, <3>2 DEF InHand
    <3>6. Written(c, f, h)
      BY <2>3, <2>8, <3>1, <3>3, <3>4, <3>5 DEF Written
    <3>7. DownInv(c)'
      BY <1>1, <1>2, <2>5, <2>8, <3>6, WrittenFlow DEF Shut
    <3>8. /\ Carries(conn, conn') /\ \A d \in Conns : conn'[d].up = conn[d].up
          /\ \A d \in Conns : d # c => conn'[d] = conn[d]
      BY <2>8 DEF Downlinked
    <3>9. \A d \in Conns : Calmer(d)
      BY <3>8, CalmIfCarries
    <3>10. \A d \in Conns : Served(d)
      BY <1>1, <3>8, <3>9 DEF Served
    <3>11. \A d \in Conns : d # c => Unwritten(d)
      BY <2>2, <2>7, <3>2, <3>8, <3>9
    <3>12. Carried'
      BY <1>1, <1>2, <1>3, <2>2, <3>2 DEF Carried
    <3> QED  BY <1>1, <1>2, <3>7, <3>10, <3>11, <3>12, ModemFlow
  <2>9. ASSUME Drops({c} \cap clients), sched' = Quiet PROVE FlowInv'
    <3>1. PICK cs : cs = {c} \cap clients
      OBVIOUS
    <3>2. Drops(cs)
      BY <2>9, <3>1
    <3>3. sched'.now = None
      BY <2>9, QuietOK
    <3>4. \A d \in Conns : Served(d)
      BY <1>1, <3>2, DropsCalm DEF Served
    <3>5. \A d \in Conns : d # c => Unwritten(d)
      BY <2>2, <2>7, <3>2, <3>3, DropsCalm
    <3>6. "modem" \in conn[c].open => c \in cs
      BY <1>3, <2>1, <3>1 DEF Registered, Uses
    <3>7. Shut(c)'
      <4>1. CASE c \in cs
        BY <3>2, <4>1, DropsCalm
      <4>2. CASE c \notin cs
        <5>1. conn'[c] = conn[c]
          BY <3>2, <4>2 DEF Drops
        <5> QED  BY <3>6, <4>2, <5>1 DEF Shut, Usable
      <4> QED  BY <4>1, <4>2
    <3>8. Unwritten(c)
      BY <3>2, <3>7, DropsCalm DEF Unwritten
    <3>9. Carried'
      BY <1>1, <1>2, <1>3, <2>2, <3>3 DEF Carried
    <3> QED  BY <1>1, <1>2, <3>4, <3>5, <3>8, <3>9, ModemFlow
  <2> QED  BY <1>5, <2>1, <2>8, <2>9 DEF Delivers
<1> QED  BY <1>1, <1>4, <1>5

\* stop() of the modem.
LEMMA HaltFlow ==
    ASSUME ModemInv, BenchInv, FlowInv, ModemStops
    PROVE  FlowInv'
<1>1. Halts
  BY HaltFacts
<1>2. UNCHANGED stations /\ UNCHANGED <<srv, bcast, txq, sched, ogms>>
  BY <1>1 DEF Halts
<1>3. Sent' = Sent /\ Sent \subseteq Sent'
  BY <1>2, SameSent
<1>4. Carried'
  BY <1>2, <1>3, CarriedKept DEF FlowInv
<1>5. ASSUME NEW d \in Conns PROVE Served(d) /\ Unwritten(d)
  <2>1. "modem" \notin conn'[d].open
    BY <1>1 DEF Halts
  <2>2. CASE conn'[d] = conn[d]
    BY <1>2, <2>1, <2>2, CalmIfSame DEF Served, Unwritten, Shut, Usable
  <2>3. CASE Ended(conn[d], conn'[d], "modem")
    <3>1. conn'[d].up = <<>> /\ conn'[d].down = conn[d].down
      BY <2>3 DEF Ended
    <3> QED  BY <1>2, <2>1, <2>3, <3>1, CalmIfEnded DEF Served, Unwritten, Shut, Usable
  <2> QED  BY <1>1, <2>2, <2>3 DEF Halts
<1> QED  BY <1>2, <1>3, <1>4, <1>5, ModemFlow

\* In the beginning nothing is on its way.
LEMMA FlowInit ==
    ASSUME Init PROVE FlowInv
<1>1. /\ LinkInit /\ bcast = Quiet /\ txq = {} /\ sched = Quiet
      /\ srv = [c \in Conns |-> NoThread]
  BY DEF Init
<1>2. /\ received = [s \in Stations |-> <<>>] /\ conn = [c \in Conns |-> NoConn]
      /\ rx = [s \in Stations |-> [pc |-> IF running[s] THEN "top" ELSE "done", sock |-> None]]
  BY <1>1 DEF LinkInit
<1>3. Apart
  BY <1>2 DEF Apart
<1>4. Carried
  BY <1>1, QuietOK DEF Carried
<1>5. Got
  <2>1. \A s \in Stations : Len(received[s]) = 0
    BY <1>2
  <2> QED  BY <2>1 DEF Got
<1>6. ASSUME NEW c \in Conns PROVE UpInv(c) /\ DownInv(c)
  <2>1. srv[c].buf = <<>> /\ conn[c].up = <<>> /\ conn[c].open = {}
    BY <1>1, <1>2 DEF NoThread, NoConn
  <2>2. Came(c) = <<>>
    BY <2>1 DEF Came
  <2> QED  BY <2>1, <2>2, FlowEmpty DEF UpInv, DownInv
<1> QED  BY <1>3, <1>4, <1>5, <1>6 DEF FlowInv

\* Every step keeps the invariant.
LEMMA FlowStep ==
    ASSUME OneWriter, ModemInv, BenchInv, FlowInv, [Next]_allVars PROVE FlowInv'
<1>1. CASE UNCHANGED allVars
  <2>1. UNCHANGED modem /\ UNCHANGED <<sent, rx, tx, buffer, received, sock, conn>>
    BY <1>1 DEF allVars, vars, threads, link
  <2>2. Sent \subseteq Sent'
    BY <2>1 DEF Sent, modem
  <2> QED  BY <2>1, <2>2, IdleFlow
<1>2. ASSUME NEW s \in Stations, LinkStep(s), UNCHANGED modem PROVE FlowInv'
  BY <1>2, RxFlow, TxFlow, CallFlow DEF LinkStep, SendStep
<1>3. ASSUME NEW s \in Stations, NEW c \in Unused, Connect(s, c), UNCHANGED modem PROVE FlowInv'
  BY <1>3, ConnectFlow
<1>4. ASSUME NEW c \in Conns, Reset(c), UNCHANGED modem PROVE FlowInv'
  BY <1>4, ResetFlow
<1>5. ASSUME NEW c \in Conns, ServeStep(c) PROVE FlowInv'
  BY <1>5, ServeFlow, EchoFlow, BeginFlow DEF ServeStep
<1>6. CASE BroadcastStep
  BY <1>6, AirFlow, EndFlow DEF BroadcastStep
<1>7. CASE SchedulerStep \/ InjectOgm \/ ModemStops
  BY <1>7, SchedulerFlow, OgmFlow, HaltFlow
<1> QED  BY <1>1, <1>2, <1>3, <1>4, <1>5, <1>6, <1>7 DEF Next, StationStep

\* The options are those of the command line.
LEMMA SameOptions == ASSUME [Next]_allVars PROVE options' = options
<1>1. CASE UNCHANGED allVars \/ StationStep
  BY <1>1 DEF allVars, modem, StationStep
<1>2. ASSUME NEW c \in Conns, ServeStep(c) PROVE options' = options
  BY <1>2 DEF ServeStep, Accept, ClientRecv, ClientRecvEnds, EchoFrame, EchoFails,
              BroadcastFrame, ClientEnds
<1>3. CASE BroadcastStep \/ SchedulerStep \/ InjectOgm \/ ModemStops
  BY <1>3 DEF BroadcastStep, SkipClient, WriteClient, BroadcastEnds, SchedulerStep, Schedule,
              SendDelayed, InjectOgm, ModemStops
<1> QED  BY <1>1, <1>2, <1>3 DEF Next

\* Whatever is cut off, reset, timed out or dialled again in the middle of a frame, and
\* whatever the modem drops or delays, what _process_rx_bytes hands to rx_callback is
\* always a whole frame, both pieces of it, that was given to send() or made by
\* _fake_ogm_loop; provided that the command line has one thread at a time write to a
\* client.
THEOREM FramesArriveWhole == Spec => [](OneWriter => Got)
<1> DEFINE I == ModemInv /\ BenchInv /\ (OneWriter => FlowInv)
<1>1. Init => I
  BY ModemInit, BenchInit, FlowInit
<1>2. I /\ [Next]_allVars => I'
  <2> SUFFICES ASSUME I, [Next]_allVars PROVE I'
    OBVIOUS
  <2>1. ModemInv' /\ BenchInv'
    BY ModemStep, BenchStep
  <2>2. OneWriter' => OneWriter
    BY SameOptions DEF OneWriter
  <2>3. OneWriter' => FlowInv'
    BY <2>2, FlowStep
  <2> QED  BY <2>1, <2>3
<1>3. I => (OneWriter => Got)
  BY DEF FlowInv
<1> QED  BY <1>1, <1>2, <1>3, PTL DEF Spec

=============================================================================
