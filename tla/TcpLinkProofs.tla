---------------------------- MODULE TcpLinkProofs ---------------------------
(***************************************************************************)
(* Proofs about TcpLink, for any number of clients and connections: which  *)
(* connections an end holds open, what may travel on them, and that the    *)
(* link implements FrameLink.                                              *)
(***************************************************************************)
EXTENDS TcpLink, SequenceTheorems, TLAPS

RxPcs == {"top", "connect", "answer", "accept", "install", "read", "recv", "done"}
TxPcs == {"get", "socket", "clear", "send", "done"}
Bytes == {Password, Ok, Bad} \cup (Nat \X {1, 2})
Socket == Conns \cup {None}
Connection == [owner : Clients \cup {None}, open : SUBSET Ends,
               wire : [Ends -> Seq(Bytes)], broken : BOOLEAN]

\* The shape of the state.
Shape ==
    /\ running \in [Ends -> BOOLEAN] /\ connected \in [Ends -> BOOLEAN]
    /\ sock \in [Ends -> Socket]
    /\ queue \in [Ends -> Seq(Nat)]
    /\ rx \in [Ends -> [pc : RxPcs, cand : Socket, sock : Socket]]
    /\ tx \in [Ends -> [pc : TxPcs, frame : Nat, sock : Socket]]
    /\ backlog \in Seq(Conns)
    /\ conn \in [Conns -> Connection]
    /\ sent \in [Ends -> Nat]

\* What is on its way on a connection agrees with the password its client gave,
\* and only the client that dialled has its client end.
Allowed(b, owner) == /\ b = Bad => owner \notin trusted
                     /\ b \notin {Password, Bad} => owner \in trusted
ConnOK(k) ==
    /\ k \in Connection
    /\ \A e \in Clients : e \in k.open => k.owner = e
    /\ \A e \in Ends : \A i \in 1 .. Len(k.wire[e]) : Allowed(k.wire[e][i], k.owner)
ConnsOK(K) == K \in [Conns -> Connection] /\ \A c \in Conns : ConnOK(K[c])
Sound == ConnsOK(conn)

\* The phases of the receive threads.
Phases ==
    \A e \in Ends :
        /\ rx[e].pc = "answer" => e \in Clients /\ rx[e].cand # None
        /\ rx[e].pc \in {"accept", "install"} => e = Server
        /\ rx[e].pc = "install" => rx[e].cand # None
        /\ rx[e].cand # None => \/ e \in Clients /\ rx[e].pc \in {"answer", "connect"}
                                \/ e = Server /\ rx[e].pc = "install"
        /\ tx[e].pc = "send" => tx[e].sock # None
        /\ rx[e].pc = "recv" => rx[e].sock # None

Refs(e) == {sock[e], rx[e].cand, rx[e].sock, tx[e].sock}

\* Connections that wait for accept() are open at the server, hold the password,
\* and nothing else of the server refers to them.
Waits(c) == /\ Server \in conn[c].open
            /\ ~conn[c].broken => conn[c].wire[Server] # <<>>
            /\ c \notin Refs(Server)
Waiting == /\ \A i \in 1 .. Len(backlog) : Waits(backlog[i])
           /\ \A i, j \in 1 .. Len(backlog) : backlog[i] = backlog[j] => i = j

\* An end has no connection open but its own, the one it is setting up and, at
\* the server, those that wait.
Queued(c) == \E i \in 1 .. Len(backlog) : backlog[i] = c
Held == \A e \in Ends, c \in Conns :
            e \in conn[c].open => c \in {sock[e], rx[e].cand} \/ (e = Server /\ Queued(c))

\* A connection that is used for frames gave the password.
Good(c) == conn[c].open = {} \/ conn[c].owner \in trusted
Cleared ==
    /\ \A e \in Ends, c \in Conns : c \in {sock[e], tx[e].sock} => Good(c)
    /\ \A c \in Conns : c = rx[Server].cand => Good(c)
    /\ \A e \in Clients : sock[e] # None => e \in trusted

\* Why a link does not run: stop() was called, or its receive thread has ended.
Halted ==
    \A e \in Ends :
        /\ ~running[e] => e \in stopping \cup late \/ rx[e].pc = "done"
        /\ rx[e].pc = "done" => ~running[e]
        /\ e = Server /\ rx[e].pc = "done" /\ e \notin stopping \cup late => ~listening

TcpInv == /\ Shape /\ Sound /\ Phases /\ Waiting /\ Held /\ Cleared /\ Halted
          /\ ReleasedByStop

-----------------------------------------------------------------------------
(* What the operations on sockets do to a connection.                      *)

USE DEF Ends, Socket

\* L differs from K only in what travels, and nothing was taken from the server.
Same(K, L) ==
    \A c \in Conns :
        /\ L[c].open = K[c].open /\ L[c].owner = K[c].owner /\ L[c].broken = K[c].broken
        /\ K[c].wire[Server] # <<>> => L[c].wire[Server] # <<>>

\* In L the end e has hung up on the connections cs of K, and something may have
\* been taken from the server on the connections r.
Lessens(K, L, e, cs, r) ==
    \A c \in Conns :
        /\ L[c].open = IF c \in cs THEN K[c].open \ {e} ELSE K[c].open
        /\ L[c].open = {} \/ L[c].owner = K[c].owner
        /\ c \notin r /\ Server \in L[c].open /\ ~L[c].broken =>
             ~K[c].broken /\ (K[c].wire[Server] # <<>> => L[c].wire[Server] # <<>>)

\* A frame is neither an answer of the handshake nor the password.
LEMMA BytesDiffer ==
    /\ Password # Bad /\ Ok # Bad /\ Ok # Password
    /\ \A f, n : <<f, n>> \notin {Password, Ok, Bad}
<1>1. Len(Password) = 1 /\ Len(Ok) = 1 /\ Len(Bad) = 1
  BY DEF Password, Ok, Bad
<1>2. \A f, n : Len(<<f, n>>) = 2
  OBVIOUS
<1>3. Password[1] = "password" /\ Ok[1] = "ok" /\ Bad[1] = "bad"
  BY DEF Password, Ok, Bad
<1> QED  BY <1>1, <1>2, <1>3

\* Other bytes on their way.
LEMMA WireOK ==
    ASSUME NEW k, ConnOK(k), NEW x \in Ends, NEW w \in Seq(Bytes),
           \A i \in 1 .. Len(w) : Allowed(w[i], k.owner)
    PROVE  LET n == [k EXCEPT !.wire[x] = w] IN
           /\ ConnOK(n)
           /\ n.open = k.open /\ n.owner = k.owner /\ n.broken = k.broken
           /\ n.wire = [k.wire EXCEPT ![x] = w]
<1> DEFINE n == [k EXCEPT !.wire[x] = w]
<1>1. k \in Connection
  BY DEF ConnOK
<1>2. n = [k EXCEPT !.wire = [k.wire EXCEPT ![x] = w]]
  BY <1>1 DEF Connection
<1>3. /\ n.open = k.open /\ n.owner = k.owner /\ n.broken = k.broken
      /\ n.wire = [k.wire EXCEPT ![x] = w] /\ n \in Connection
  BY <1>1, <1>2 DEF Connection
<1> HIDE DEF n
<1>4. \A e \in Ends : n.wire[e] = IF e = x THEN w ELSE k.wire[e]
  BY <1>1, <1>3 DEF Connection
<1>5. ConnOK(n)
  BY <1>3, <1>4 DEF ConnOK
<1> QED  BY <1>3, <1>5 DEF n

\* A socket nobody holds is in order.
LEMMA NoConnOK == ConnOK(NoConn) /\ NoConn.open = {}
<1>1. NoConn \in Connection
  BY EmptySeq DEF NoConn, Connection
<1> QED  BY <1>1, EmptySeq DEF ConnOK, NoConn

\* So is a connection just made.
LEMMA DialledOK ==
    ASSUME NEW e \in Clients
    PROVE  /\ ConnOK(Dialled(e)) /\ Dialled(e).open = {e, Server}
           /\ Dialled(e).owner = e /\ Dialled(e).wire[Server] # <<>>
<1>1. <<Password>> \in Seq(Bytes) /\ <<>> \in Seq(Bytes) /\ Len(<<Password>>) = 1
  BY EmptySeq DEF Bytes
<1>2. Dialled(e) \in Connection
  BY <1>1 DEF Dialled, Connection
<1>3. /\ Dialled(e).open = {e, Server} /\ Dialled(e).owner = e
      /\ \A x \in Ends : Dialled(e).wire[x] = IF x = Server THEN <<Password>> ELSE <<>>
  BY DEF Dialled
<1>4. \A x \in Ends : \A i \in 1 .. Len(Dialled(e).wire[x]) : Dialled(e).wire[x][i] = Password
  BY <1>1, <1>3, EmptySeq
<1>5. ConnOK(Dialled(e))
  BY <1>2, <1>3, <1>4, EndAssumption, BytesDiffer DEF ConnOK, Allowed
<1> QED  BY <1>3, <1>5

\* A broken connection carries nothing.
LEMMA BrokenOK ==
    ASSUME NEW k, ConnOK(k)
    PROVE  LET n == [k EXCEPT !.broken = TRUE, !.wire = [e \in Ends |-> <<>>]] IN
           ConnOK(n) /\ n.open = k.open /\ n.owner = k.owner /\ n.broken = TRUE
<1> DEFINE n == [k EXCEPT !.broken = TRUE, !.wire = [e \in Ends |-> <<>>]]
<1>1. k \in Connection
  BY DEF ConnOK
<1>2. /\ n.open = k.open /\ n.owner = k.owner /\ n.broken = TRUE
      /\ n \in Connection /\ \A e \in Ends : n.wire[e] = <<>>
  BY <1>1, EmptySeq DEF Connection
<1> QED  BY <1>2, EmptySeq DEF ConnOK

\* _close_socket, on one connection.
LEMMA HungUpOK ==
    ASSUME NEW k, ConnOK(k), NEW e \in Ends
    PROVE  /\ ConnOK(HungUp(k, e))
           /\ HungUp(k, e).open = k.open \ {e}
           /\ HungUp(k, e).open = {} \/ HungUp(k, e).owner = k.owner
           /\ Server \in HungUp(k, e).open =>
                /\ HungUp(k, e).broken = k.broken
                /\ HungUp(k, e).wire[Server] = k.wire[Server]
<1>1. CASE k.open \subseteq {e}
  BY <1>1, NoConnOK DEF HungUp
<1>2. CASE ~(k.open \subseteq {e})
  <2> DEFINE z == <<>>
             m == [k EXCEPT !.wire[e] = z]
             n == [m EXCEPT !.open = k.open \ {e}]
  <2>1. /\ ConnOK(m) /\ m.open = k.open /\ m.owner = k.owner /\ m.broken = k.broken
        /\ m.wire = [k.wire EXCEPT ![e] = z]
    <3>1. z \in Seq(Bytes) /\ \A i \in 1 .. Len(z) : Allowed(z[i], k.owner)
      BY EmptySeq
    <3> HIDE DEF z
    <3> QED  BY <3>1, WireOK
  <2>2. k \in Connection /\ m \in Connection
    BY <2>1 DEF ConnOK
  <2>3. HungUp(k, e) = n
    BY <1>2, <2>2 DEF HungUp, Connection
  <2> HIDE DEF m
  <2>4. /\ n.open = k.open \ {e} /\ n.owner = k.owner /\ n.broken = k.broken
        /\ n.wire = m.wire /\ n \in Connection
    BY <2>1, <2>2 DEF Connection
  <2>5. ConnOK(n)
    BY <2>1, <2>4 DEF ConnOK
  <2>6. e # Server => n.wire[Server] = k.wire[Server]
    BY <2>1, <2>2, <2>4 DEF Connection
  <2> QED  BY <2>3, <2>4, <2>5, <2>6
<1> QED  BY <1>1, <1>2

\* Several connections are closed by one end.
LEMMA CloseOK ==
    ASSUME NEW K, ConnsOK(K), NEW e \in Ends, NEW cs
    PROVE  ConnsOK(Close(K, e, cs)) /\ Lessens(K, Close(K, e, cs), e, cs, {})
<1> DEFINE L == Close(K, e, cs)
<1>1. \A c \in Conns : L[c] = IF c \in cs THEN HungUp(K[c], e) ELSE K[c]
  BY DEF Close
<1>2. L = [c \in Conns |-> L[c]]
  BY DEF Close
<1> HIDE DEF L
<1>3. \A c \in Conns : ConnOK(L[c])
  BY <1>1, HungUpOK DEF ConnsOK
<1>4. ConnsOK(L)
  BY <1>2, <1>3 DEF ConnsOK, ConnOK
<1>5. Lessens(K, L, e, cs, {})
  <2>1. ASSUME NEW c \in Conns, c \notin cs PROVE L[c] = K[c]
    BY <1>1, <2>1
  <2>2. ASSUME NEW c \in Conns, c \in cs
        PROVE  /\ L[c].open = K[c].open \ {e}
               /\ L[c].open = {} \/ L[c].owner = K[c].owner
               /\ Server \in L[c].open => /\ L[c].broken = K[c].broken
                                         /\ L[c].wire[Server] = K[c].wire[Server]
    <3>1. ConnOK(K[c]) /\ L[c] = HungUp(K[c], e)
      BY <1>1, <2>2 DEF ConnsOK
    <3> QED  BY <3>1, HungUpOK
  <2> QED  BY <2>1, <2>2 DEF Lessens
<1> QED  BY <1>4, <1>5 DEF L

\* sendall: bytes that agree with the handshake of c.
LEMMA TransmitOK ==
    ASSUME Sound, NEW e \in Ends, NEW c \in Conns, NEW b \in Seq(Bytes),
           \A i \in 1 .. Len(b) : Allowed(b[i], conn[c].owner)
    PROVE  ConnsOK(Transmit(e, c, b)) /\ Same(conn, Transmit(e, c, b))
<1> DEFINE p == Peer(e, c)
           k == conn[c]
           w == k.wire[p] \o b
           n == [k EXCEPT !.wire[p] = w]
<1>1. CASE p \notin k.open
  BY <1>1 DEF Transmit, Same, Sound
<1>2. CASE p \in k.open
  <2>1. ConnOK(k) /\ k \in Connection /\ p \in Ends /\ conn \in [Conns -> Connection]
    BY <1>2 DEF Sound, ConnsOK, ConnOK, Connection
  <2>2. k.wire[p] \in Seq(Bytes)
    BY <2>1 DEF Connection
  <2>3. /\ w \in Seq(Bytes) /\ Len(w) = Len(k.wire[p]) + Len(b)
        /\ \A i \in 1 .. Len(w) : w[i] = IF i <= Len(k.wire[p]) THEN k.wire[p][i]
                                         ELSE b[i - Len(k.wire[p])]
    BY <2>2, ConcatProperties
  <2>4. Len(k.wire[p]) \in Nat /\ Len(b) \in Nat
    BY <2>2, LenProperties
  <2>5. \A i \in 1 .. Len(w) : Allowed(w[i], k.owner)
    <3> SUFFICES ASSUME NEW i \in 1 .. Len(w) PROVE Allowed(w[i], k.owner)
      OBVIOUS
    <3> HIDE DEF w
    <3>1. CASE i <= Len(k.wire[p])
      BY <3>1, <2>1, <2>3, <2>4 DEF ConnOK
    <3>2. CASE ~(i <= Len(k.wire[p]))
      <4>1. i - Len(k.wire[p]) \in 1 .. Len(b)
        BY <3>2, <2>3, <2>4
      <4> QED  BY <4>1, <3>2, <2>3
    <3> QED  BY <3>1, <3>2
  <2>6. w = <<>> => k.wire[p] = <<>>
    BY <2>2, ConcatEqualIffEmpty
  <2> HIDE DEF w, p, k
  <2>7. /\ ConnOK(n) /\ n.open = k.open /\ n.owner = k.owner /\ n.broken = k.broken
        /\ n.wire = [k.wire EXCEPT ![p] = w]
    BY <2>1, <2>3, <2>5, WireOK
  <2>8. k.wire[Server] # <<>> => n.wire[Server] # <<>>
    BY <2>1, <2>6, <2>7 DEF Connection
  <2>9. Transmit(e, c, b) = [conn EXCEPT ![c] = n]
    BY <1>2, <2>1 DEF Transmit, p, k, w
  <2> HIDE DEF n
  <2>10. \A d \in Conns : [conn EXCEPT ![c] = n][d] = IF d = c THEN n ELSE conn[d]
    BY <2>1
  <2>11. ConnsOK([conn EXCEPT ![c] = n])
    BY <2>1, <2>7 DEF ConnsOK, Sound, ConnOK
  <2>12. Same(conn, [conn EXCEPT ![c] = n])
    BY <2>7, <2>8, <2>10 DEF Same, k
  <2> QED  BY <2>9, <2>11, <2>12
<1> QED  BY <1>1, <1>2

\* Something was taken off what e has to receive on c.
LEMMA TakenOK ==
    ASSUME NEW K, ConnsOK(K), NEW e \in Ends, NEW c \in Conns, NEW w \in Seq(Bytes),
           \A i \in 1 .. Len(w) : Allowed(w[i], K[c].owner)
    PROVE  LET L == [K EXCEPT ![c].wire[e] = w] IN
           /\ ConnsOK(L)
           /\ Lessens(K, L, e, {}, IF e = Server THEN {c} ELSE {})
<1> DEFINE k == K[c]
           n == [k EXCEPT !.wire[e] = w]
           L == [K EXCEPT ![c].wire[e] = w]
<1>1. /\ ConnOK(n) /\ n.open = K[c].open /\ n.owner = K[c].owner /\ n.broken = K[c].broken
      /\ n.wire = [K[c].wire EXCEPT ![e] = w]
  <2>1. ConnOK(k) /\ \A i \in 1 .. Len(w) : Allowed(w[i], k.owner)
    BY DEF ConnsOK
  <2>2. /\ ConnOK(n) /\ n.open = k.open /\ n.owner = k.owner /\ n.broken = k.broken
        /\ n.wire = [k.wire EXCEPT ![e] = w]
    <3> HIDE DEF k
    <3> QED  BY <2>1, WireOK
  <2> QED  BY <2>2
<1>2. L = [K EXCEPT ![c] = n] /\ K \in [Conns -> Connection] /\ K[c] \in Connection
  BY DEF ConnsOK
<1> HIDE DEF L, n
<1>3. \A d \in Conns : L[d] = IF d = c THEN n ELSE K[d]
  BY <1>2
<1>4. ConnsOK(L)
  BY <1>1, <1>2 DEF ConnsOK, ConnOK
<1>5. e # Server => n.wire[Server] = K[c].wire[Server]
  BY <1>1, <1>2 DEF Connection
<1>6. Lessens(K, L, e, {}, IF e = Server THEN {c} ELSE {})
  BY <1>1, <1>3, <1>5 DEF Lessens
<1> QED  BY <1>4, <1>6 DEF L

\* Bytes on their way, and then a connection closed.
LEMMA LessensAfter ==
    ASSUME NEW K, NEW L, NEW M, NEW e, NEW cs, NEW r, NEW q,
           Lessens(K, L, e, {}, r), Lessens(L, M, e, cs, q)
    PROVE  Lessens(K, M, e, cs, r \cup q)
  BY DEF Lessens

\* Bytes on their way close nothing.
LEMMA SameLessens ==
    ASSUME NEW K, NEW L, NEW e, Same(K, L)
    PROVE  Lessens(K, L, e, {}, {})
  BY DEF Same, Lessens

-----------------------------------------------------------------------------
(* A step of one end that dials nobody and accepts nobody.  It keeps what  *)
(* concerns connections if it closes what it stops to hold, and comes to   *)
(* use only connections that gave the password.                            *)
LEMMA StepOnConnections ==
    ASSUME TcpInv, Shape', ConnsOK(conn'), trusted' = trusted, backlog' = backlog,
           NEW e \in Ends, NEW cs, NEW r, Lessens(conn, conn', e, cs, r),
           \A x \in Ends : x # e =>
               sock'[x] = sock[x] /\ rx'[x] = rx[x] /\ tx'[x] = tx[x],
           \A c \in Conns : c \in {sock[e], rx[e].cand} =>
                               c \in {sock'[e], rx'[e].cand} \/ c \in cs,
           \A c \in Conns : c \in {sock'[e], tx'[e].sock} => Good(c),
           e = Server => /\ \A c \in cs \cup r : ~Queued(c)
                         /\ \A c \in Conns : c \in Refs(e)' => c \in Refs(e)
                         /\ rx'[e].cand # None => rx'[e].cand = rx[e].cand,
           e \in Clients => r = {} /\ (sock'[e] # None => e \in trusted)
    PROVE  Sound' /\ Waiting' /\ Held' /\ Cleared'
<1> USE DEF TcpInv
<1>1. Sound'
  BY DEF Sound, ConnsOK, ConnOK, Allowed
<1>2. \A c \in Conns : Good(c) => Good(c)'
  BY DEF Good, Lessens
<1>3. Cleared'
  BY <1>2, EndAssumption DEF Cleared
<1>4. Held'
  <2> SUFFICES ASSUME NEW x \in Ends, NEW c \in Conns, x \in conn'[c].open
               PROVE  c \in {sock'[x], rx'[x].cand} \/ (x = Server /\ Queued(c)')
    BY DEF Held
  <2>1. x \in conn[c].open /\ ~(x = e /\ c \in cs)
    BY DEF Lessens
  <2>2. c \in {sock[x], rx[x].cand} \/ (x = Server /\ Queued(c))
    BY <2>1 DEF Held
  <2>3. Queued(c) = Queued(c)'
    BY DEF Queued
  <2> QED  BY <2>1, <2>2, <2>3
<1>5. Waiting'
  <2>1. \A i \in 1 .. Len(backlog) : backlog[i] \in Conns /\ Queued(backlog[i])
    BY ElementOfSeq DEF Shape, Queued
  <2>2. ASSUME NEW i \in 1 .. Len(backlog) PROVE Waits(backlog[i])'
    <3> DEFINE c == backlog[i]
    <3>1. c \in Conns /\ Queued(c) /\ Waits(c)
      BY <2>1 DEF Waiting
    <3> HIDE DEF c
    <3>2. c \notin r /\ (e = Server => c \notin cs)
      BY <3>1
    <3>3. Server \in conn'[c].open
      BY <3>1, <3>2 DEF Waits, Lessens
    <3>4. ~conn'[c].broken => conn'[c].wire[Server] # <<>>
      BY <3>1, <3>2, <3>3 DEF Waits, Lessens
    <3>5. c \notin Refs(Server)'
      BY <3>1 DEF Waits, Refs
    <3> QED  BY <3>3, <3>4, <3>5 DEF Waits, c
  <2> QED  BY <2>2 DEF Waiting
<1> QED  BY <1>1, <1>3, <1>4, <1>5

\* A step that stops no link: a receive thread ends only if stop() was called.
LEMMA StepOnThreads ==
    ASSUME TcpInv, UNCHANGED <<running, stopping, late>>,
           NEW e \in Ends, NEW cs, NEW r, Lessens(conn, conn', e, cs, r),
           \A x \in Ends : x # e => rx'[x] = rx[x],
           rx'[e].pc = "done" => rx[e].pc = "done" \/ ~running[e],
           rx[e].pc = "done" => rx'[e].pc = "done",
           listening' = listening \/ (e = Server /\ rx'[e].pc # "done")
    PROVE  Halted' /\ ReleasedByStop'
<1> USE DEF TcpInv
<1>1. Halted'
  BY DEF Halted
<1>2. ReleasedByStop'
  <2> SUFFICES ASSUME NEW x \in Ends, rx'[x].pc = "done", x \notin stopping' \cup late',
                      NEW c \in Conns
               PROVE  x \notin conn'[c].open
    BY DEF ReleasedByStop
  <2>1. rx[x].pc = "done" /\ x \notin stopping \cup late
    BY DEF Halted
  <2>2. x \notin conn[c].open
    BY <2>1 DEF ReleasedByStop
  <2>3. conn'[c].open \subseteq conn[c].open
    BY DEF Lessens
  <2> QED  BY <2>2, <2>3
<1> QED  BY <1>1, <1>2

-----------------------------------------------------------------------------
(* The actions, one after the other.                                       *)

\* What the invariant says of the variables of one end.
EndFacts(e) ==
    /\ sock[e] \in Socket /\ rx[e].cand \in Socket /\ rx[e].sock \in Socket
    /\ tx[e].sock \in Socket /\ tx[e].frame \in Nat /\ queue[e] \in Seq(Nat)
    /\ rx[e].pc \in RxPcs /\ tx[e].pc \in TxPcs
    /\ \A c \in Conns : c \in {sock[e], tx[e].sock} => Good(c)
    /\ \A c \in Refs(Server) : ~Queued(c)
    /\ ConnsOK(conn) /\ Lessens(conn, conn, e, {}, {})
    /\ e \in Clients => e # Server /\ (sock[e] # None => e \in trusted)

\* All of it follows from the invariant.
LEMMA Typed ==
    ASSUME TcpInv, NEW e \in Ends
    PROVE  EndFacts(e)
<1>1. \A c \in Refs(Server) : ~Queued(c)
  BY DEF TcpInv, Waiting, Waits, Queued
<1>2. Lessens(conn, conn, e, {}, {})
  BY DEF Lessens
<1>3. e \in Clients => e # Server
  BY EndAssumption
<1> QED  BY <1>1, <1>2, <1>3 DEF TcpInv, Shape, Cleared, Sound, EndFacts

\* Steps that change the receive thread of one end and no connection.
LEMMA RxMoves ==
    ASSUME TcpInv, NEW e \in Ends, NEW p \in RxPcs, NEW q \in Socket,
           UNCHANGED <<flags, sock, tx, backlog, conn, queue, sent, late, trusted>>,
           connected' \in [Ends -> BOOLEAN],
           Rx(e, p, rx[e].cand, q),
           q # None => q = sock[e],
           p = "recv" => q # None,
           p = "answer" => rx[e].pc = "answer",
           p = "install" => rx[e].pc = "install",
           p = "accept" => e = Server,
           p = "connect" \/ rx[e].cand = None,
           p = "connect" => e \in Clients \/ rx[e].cand = None,
           p = "done" => ~running[e],
           rx[e].pc # "done",
           listening' = listening \/ (e = Server /\ p # "done")
    PROVE  TcpInv'
<1>1. EndFacts(e)
  BY Typed
<1> USE DEF EndFacts
<1>2. /\ rx'[e] = [pc |-> p, cand |-> rx[e].cand, sock |-> q]
      /\ \A x \in Ends : x # e => rx'[x] = rx[x]
  BY DEF Rx, TcpInv, Shape
<1>3. Shape'
  BY <1>1 DEF TcpInv, Shape, Rx, flags
<1>4. Phases'
  BY <1>2 DEF TcpInv, Phases
<1>5. Sound' /\ Waiting' /\ Held' /\ Cleared'
  <2>1. e = Server => /\ \A c \in Conns : c \in Refs(e)' => c \in Refs(e)
                      /\ rx'[e].cand # None => rx'[e].cand = rx[e].cand
    BY <1>2, EndAssumption DEF Refs
  <2>2. \A c \in Conns : c \in {sock[e], rx[e].cand} => c \in {sock'[e], rx'[e].cand}
    BY <1>2
  <2>3. /\ Lessens(conn, conn', e, {}, {}) /\ ConnsOK(conn') /\ backlog' = backlog
        /\ trusted' = trusted
        /\ \A x \in Ends : x # e => sock'[x] = sock[x] /\ rx'[x] = rx[x] /\ tx'[x] = tx[x]
        /\ \A c \in Conns : c \in {sock'[e], tx'[e].sock} => Good(c)
        /\ e \in Clients => (sock'[e] # None => e \in trusted)
    BY <1>1, <1>2
  <2> QED  BY <1>3, <2>1, <2>2, <2>3, StepOnConnections
<1>6. Halted' /\ ReleasedByStop'
  <2>1. /\ Lessens(conn, conn', e, {}, {}) /\ UNCHANGED <<running, stopping, late>>
        /\ rx'[e].pc = p
    BY <1>1, <1>2 DEF flags
  <2> QED  BY <1>2, <2>1, StepOnThreads
<1> QED  BY <1>3, <1>4, <1>5, <1>6 DEF TcpInv

\* Steps that change the transmit thread or the queue of one end, and perhaps
\* what travels, and close at most the connection of the link.
LEMMA TxMoves ==
    ASSUME TcpInv, NEW e \in Ends, NEW cs,
           UNCHANGED <<flags, rx, kernel, late, trusted>>,
           connected' \in [Ends -> BOOLEAN], sock' \in [Ends -> Socket],
           queue' \in [Ends -> Seq(Nat)], sent' \in [Ends -> Nat],
           ConnsOK(conn'), Lessens(conn, conn', e, cs, {}),
           \A x \in Ends : x # e => sock'[x] = sock[x],
           \/ sock'[e] = sock[e] /\ cs = {}
           \/ sock'[e] = None /\ cs = {sock[e]},
           \/ tx' = tx
           \/ \E p \in TxPcs, f \in Nat, q \in {None, sock[e]} :
                 Tx(e, p, f, q) /\ (p = "send" => q # None)
    PROVE  TcpInv'
<1>1. EndFacts(e)
  BY Typed
<1> USE DEF EndFacts
<1>2. /\ \A x \in Ends : x # e => tx'[x] = tx[x]
      /\ tx'[e].sock \in {None, sock[e], tx[e].sock}
      /\ tx'[e].pc = "send" => tx'[e].sock # None
      /\ tx' \in [Ends -> [pc : TxPcs, frame : Nat, sock : Socket]]
  <2>1. tx \in [Ends -> [pc : TxPcs, frame : Nat, sock : Socket]]
    BY DEF TcpInv, Shape
  <2>2. CASE tx' = tx
    BY <2>1, <2>2 DEF TcpInv, Phases
  <2>3. CASE \E p \in TxPcs, f \in Nat, q \in {None, sock[e]} :
                 Tx(e, p, f, q) /\ (p = "send" => q # None)
    <3>1. PICK p \in TxPcs, f \in Nat, q \in {None, sock[e]} :
                 Tx(e, p, f, q) /\ (p = "send" => q # None)
      BY <2>3
    <3>2. [pc |-> p, frame |-> f, sock |-> q] \in [pc : TxPcs, frame : Nat, sock : Socket]
      BY <1>1
    <3> QED  BY <2>1, <3>1, <3>2 DEF Tx
  <2> QED  BY <2>2, <2>3
<1>3. Shape'
  BY <1>1, <1>2 DEF TcpInv, Shape, flags, kernel, ConnsOK
<1>4. Phases'
  BY <1>2 DEF TcpInv, Phases
<1>5. Sound' /\ Waiting' /\ Held' /\ Cleared'
  <2>1. e = Server => /\ \A c \in cs \cup {} : ~Queued(c)
                      /\ \A c \in Conns : c \in Refs(e)' => c \in Refs(e)
    BY <1>1, <1>2, EndAssumption DEF Refs
  <2>2. /\ backlog' = backlog /\ trusted' = trusted
        /\ \A x \in Ends : x # e => sock'[x] = sock[x] /\ rx'[x] = rx[x] /\ tx'[x] = tx[x]
        /\ \A c \in Conns : c \in {sock[e], rx[e].cand} =>
                               c \in {sock'[e], rx'[e].cand} \/ c \in cs
        /\ \A c \in Conns : c \in {sock'[e], tx'[e].sock} => Good(c)
        /\ rx'[e].cand = rx[e].cand
        /\ e \in Clients => (sock'[e] # None => e \in trusted)
    BY <1>1, <1>2, EndAssumption DEF kernel
  <2> QED  BY <1>3, <2>1, <2>2, StepOnConnections
<1>6. Halted' /\ ReleasedByStop'
  <2>1. UNCHANGED <<running, stopping, late, rx, listening>>
    BY DEF flags, kernel
  <2> QED  BY <2>1, StepOnThreads
<1> QED  BY <1>3, <1>4, <1>5, <1>6 DEF TcpInv

\* The head of _rx_loop.
LEMMA RxTopStep ==
    ASSUME TcpInv, NEW e \in Ends, RxTop(e) PROVE TcpInv'
<1>1. EndFacts(e)
  BY Typed
<1>2. rx[e].cand = None /\ rx[e].pc = "top"
  BY DEF RxTop, TcpInv, Phases
<1> DEFINE p == IF ~running[e] THEN "done" ELSE IF connected[e] THEN "read" ELSE "connect"
<1>3. p \in RxPcs /\ p \notin {"recv", "answer", "install", "accept"} /\ (p = "done" => ~running[e])
  BY DEF RxPcs
<1>4. Rx(e, p, rx[e].cand, None)
  BY <1>2 DEF RxTop
<1>5. /\ UNCHANGED <<flags, sock, tx, backlog, conn, queue, sent, late, trusted, listening>>
      /\ connected' \in [Ends -> BOOLEAN]
  BY DEF RxTop, link, kernel, history, TcpInv, Shape
<1> HIDE DEF p
<1> QED  BY <1>2, <1>3, <1>4, <1>5, RxMoves

\* The socket is looked up.
LEMMA RxSocketStep ==
    ASSUME TcpInv, NEW e \in Ends, RxSocket(e) PROVE TcpInv'
<1>1. EndFacts(e)
  BY Typed
<1>2. rx[e].cand = None /\ rx[e].pc = "read"
  BY DEF RxSocket, TcpInv, Phases
<1>3. /\ UNCHANGED <<flags, sock, tx, backlog, conn, queue, sent, late, trusted, listening>>
      /\ connected' \in [Ends -> BOOLEAN]
  BY DEF RxSocket, kernel, history, TcpInv, Shape
<1>4. CASE Rx(e, "top", None, None)
  BY <1>2, <1>3, <1>4, RxMoves DEF RxPcs
<1>5. CASE sock[e] # None /\ Rx(e, "recv", None, sock[e])
  BY <1>1, <1>2, <1>3, <1>5, RxMoves DEF RxPcs, EndFacts
<1> QED  BY <1>4, <1>5 DEF RxSocket

\* recv times out.
LEMMA RecvTimeoutStep ==
    ASSUME TcpInv, NEW e \in Ends, RecvTimeout(e) PROVE TcpInv'
<1>1. rx[e].cand = None /\ rx[e].pc = "recv"
  BY DEF RecvTimeout, TcpInv, Phases
<1>2. /\ UNCHANGED <<flags, sock, tx, backlog, conn, queue, sent, late, trusted, listening>>
      /\ connected' \in [Ends -> BOOLEAN] /\ Rx(e, "top", None, None)
  BY DEF RecvTimeout, link, kernel, history, TcpInv, Shape
<1> QED  BY <1>1, <1>2, RxMoves DEF RxPcs

\* The handshake of a client fails.
LEMMA HandshakeFailsStep ==
    ASSUME TcpInv, NEW e \in Ends, HandshakeFails(e) PROVE TcpInv'
<1>1. rx[e].pc = "answer" /\ e \in Clients
  BY DEF HandshakeFails, TcpInv, Phases
<1>2. /\ UNCHANGED <<flags, sock, tx, backlog, conn, queue, sent, late, trusted, listening>>
      /\ connected' \in [Ends -> BOOLEAN] /\ Rx(e, "connect", rx[e].cand, None)
  BY DEF HandshakeFails, link, kernel, history, TcpInv, Shape
<1> QED  BY <1>1, <1>2, RxMoves DEF RxPcs

\* The server listens.
LEMMA ListenStep ==
    ASSUME TcpInv, Listen PROVE TcpInv'
<1>1. rx[Server].pc = "connect" /\ rx[Server].cand = None
  BY EndAssumption DEF Listen, TcpInv, Phases
<1>2. /\ UNCHANGED <<flags, sock, tx, backlog, conn, queue, sent, late, trusted>>
      /\ connected' \in [Ends -> BOOLEAN] /\ Rx(Server, "accept", None, None)
  BY DEF Listen, link, kernel, history, TcpInv, Shape
<1> QED  BY <1>1, <1>2, RxMoves DEF RxPcs

\* send().
LEMMA SendStep ==
    ASSUME TcpInv, NEW e \in Ends, Send(e) PROVE TcpInv'
<1>1. EndFacts(e)
  BY Typed
<1>2. sent[e] \in Nat /\ sent' = [sent EXCEPT ![e] = sent[e] + 1] /\ sent \in [Ends -> Nat]
  BY DEF Send, TcpInv, Shape
<1>3. Enqueue(queue[e], sent[e] + 1) \in Seq(Nat)
  BY <1>1, <1>2, AppendProperties DEF Enqueue, EndFacts
<1>4. /\ queue' \in [Ends -> Seq(Nat)] /\ sent' \in [Ends -> Nat]
      /\ connected' \in [Ends -> BOOLEAN] /\ sock' \in [Ends -> Socket]
  BY <1>2, <1>3 DEF Send, link, TcpInv, Shape
<1>5. /\ UNCHANGED <<flags, rx, kernel, late, trusted, sock, conn, tx>>
  BY DEF Send, link
<1>6. ConnsOK(conn') /\ Lessens(conn, conn', e, {}, {})
  BY <1>1, <1>5 DEF EndFacts
<1> QED  BY <1>4, <1>5, <1>6, TxMoves

\* The end of a round of the transmit thread.
LEMMA TxAgainMoves ==
    ASSUME NEW e \in Ends, TxAgain(e)
    PROVE  \E p \in TxPcs, f \in Nat, q \in {None, sock[e]} :
                 Tx(e, p, f, q) /\ (p = "send" => q # None)
<1> DEFINE p == IF running[e] THEN "get" ELSE "done"
<1>1. Tx(e, p, 0, None) /\ p \in TxPcs /\ p # "send"
  BY DEF TxAgain, TxPcs
<1> HIDE DEF p
<1> QED  BY <1>1

\* The transmit thread takes a frame.
LEMMA TxGetStep ==
    ASSUME TcpInv, NEW e \in Ends, TxGet(e) PROVE TcpInv'
<1>1. EndFacts(e)
  BY Typed
<1>2. Tail(queue[e]) \in Seq(Nat) /\ Head(queue[e]) \in Nat
  BY <1>1, HeadTailProperties DEF TxGet, EndFacts
<1>3. /\ queue' \in [Ends -> Seq(Nat)] /\ sent' \in [Ends -> Nat]
      /\ connected' \in [Ends -> BOOLEAN] /\ sock' \in [Ends -> Socket]
  BY <1>2 DEF TxGet, link, history, TcpInv, Shape
<1>4. UNCHANGED <<flags, rx, kernel, late, trusted, sock, conn>>
  BY DEF TxGet, link, history
<1>5. ConnsOK(conn') /\ Lessens(conn, conn', e, {}, {})
  BY <1>1, <1>4 DEF EndFacts
<1>6. \E p \in TxPcs, f \in Nat, q \in {None, sock[e]} :
                 Tx(e, p, f, q) /\ (p = "send" => q # None)
  <2>1. CASE connected[e]
    <3>1. Tx(e, "socket", Head(queue[e]), None) /\ "socket" \in TxPcs
      BY <2>1 DEF TxGet, TxPcs
    <3> QED  BY <1>2, <3>1
  <2>2. CASE ~connected[e]
    BY <2>2, TxAgainMoves DEF TxGet
  <2> QED  BY <2>1, <2>2
<1> QED  BY <1>3, <1>4, <1>5, <1>6, TxMoves

\* It looks the socket up.
LEMMA TxSocketStep ==
    ASSUME TcpInv, NEW e \in Ends, TxSocket(e) PROVE TcpInv'
<1>1. EndFacts(e)
  BY Typed
<1>2. /\ queue' \in [Ends -> Seq(Nat)] /\ sent' \in [Ends -> Nat]
      /\ connected' \in [Ends -> BOOLEAN] /\ sock' \in [Ends -> Socket]
  BY DEF TxSocket, link, history, TcpInv, Shape
<1>3. UNCHANGED <<flags, rx, kernel, late, trusted, sock, conn>>
  BY DEF TxSocket, link, history
<1>4. ConnsOK(conn') /\ Lessens(conn, conn', e, {}, {})
  BY <1>1, <1>3 DEF EndFacts
<1>5. \E p \in TxPcs, f \in Nat, q \in {None, sock[e]} :
                 Tx(e, p, f, q) /\ (p = "send" => q # None)
  <2>1. CASE sock[e] = None
    <3>1. Tx(e, "clear", 0, None) /\ "clear" \in TxPcs
      BY <2>1 DEF TxSocket, TxPcs
    <3> QED  BY <3>1
  <2>2. CASE sock[e] # None
    <3>1. Tx(e, "send", tx[e].frame, sock[e]) /\ "send" \in TxPcs /\ tx[e].frame \in Nat
      BY <1>1, <2>2 DEF TxSocket, TxPcs, EndFacts
    <3> QED  BY <2>2, <3>1
  <2> QED  BY <2>1, <2>2
<1> QED  BY <1>2, <1>3, <1>4, <1>5, TxMoves

\* It clears the flag, or ends.
LEMMA TxClearStep ==
    ASSUME TcpInv, NEW e \in Ends, TxClear(e) \/ TxEnds(e) PROVE TcpInv'
<1>1. EndFacts(e)
  BY Typed
<1>2. /\ queue' \in [Ends -> Seq(Nat)] /\ sent' \in [Ends -> Nat]
      /\ connected' \in [Ends -> BOOLEAN] /\ sock' \in [Ends -> Socket]
  BY DEF TxClear, TxEnds, link, history, TcpInv, Shape
<1>3. UNCHANGED <<flags, rx, kernel, late, trusted, sock, conn>>
  BY DEF TxClear, TxEnds, link, history
<1>4. ConnsOK(conn') /\ Lessens(conn, conn', e, {}, {})
  BY <1>1, <1>3 DEF EndFacts
<1>5. \E p \in TxPcs, f \in Nat, q \in {None, sock[e]} :
                 Tx(e, p, f, q) /\ (p = "send" => q # None)
  <2>1. CASE TxClear(e)
    BY <2>1, TxAgainMoves DEF TxClear
  <2>2. CASE TxEnds(e)
    <3>1. Tx(e, "done", 0, None) /\ "done" \in TxPcs
      BY <2>2 DEF TxEnds, TxPcs
    <3> QED  BY <3>1
  <2> QED  BY <2>1, <2>2
<1> QED  BY <1>2, <1>3, <1>4, <1>5, TxMoves

\* What the transmit thread writes is allowed where it writes it.
LEMMA FrameAllowed ==
    ASSUME TcpInv, NEW e \in Ends, tx[e].pc = "send", Usable(e, tx[e].sock)
    PROVE  LET c == tx[e].sock
               b == Pieces(tx[e].frame)
           IN  /\ c \in Conns
               /\ b \in Seq(Bytes) /\ \A i \in 1 .. Len(b) : Allowed(b[i], conn[c].owner)
               /\ SubSeq(b, 1, 1) \in Seq(Bytes)
               /\ \A i \in 1 .. Len(SubSeq(b, 1, 1)) : Allowed(SubSeq(b, 1, 1)[i], conn[c].owner)
<1> DEFINE c == tx[e].sock
           f == tx[e].frame
           b == Pieces(f)
<1>1. EndFacts(e)
  BY Typed
<1>2. c \in Conns
  BY <1>1 DEF EndFacts, TcpInv, Phases
<1>3. conn[c].owner \in trusted
  BY <1>1, <1>2 DEF EndFacts, Good, Usable
<1>4. f \in Nat
  BY <1>1 DEF EndFacts
<1> HIDE DEF c, f
<1>5. <<f, 1>> \in Bytes /\ <<f, 2>> \in Bytes
  BY <1>4 DEF Bytes
<1>6. Allowed(<<f, 1>>, conn[c].owner) /\ Allowed(<<f, 2>>, conn[c].owner)
  BY <1>3, BytesDiffer DEF Allowed
<1>7. /\ b \in Seq(Bytes) /\ Len(b) = 2 /\ b[1] = <<f, 1>> /\ b[2] = <<f, 2>>
  BY <1>5 DEF Pieces
<1> HIDE DEF b
<1>8. \A i \in 1 .. Len(b) : Allowed(b[i], conn[c].owner)
  <2>1. \A i \in 1 .. Len(b) : i = 1 \/ i = 2
    BY <1>7
  <2> QED  BY <2>1, <1>6, <1>7
<1>9. /\ SubSeq(b, 1, 1) \in Seq(Bytes) /\ Len(SubSeq(b, 1, 1)) = 1
      /\ SubSeq(b, 1, 1)[1] = b[1]
  <2>1. \A i \in 1 .. 1 : b[i] \in Bytes
    BY <1>5, <1>7
  <2> QED  BY <2>1, SubSeqProperties
<1> QED  BY <1>2, <1>6, <1>7, <1>8, <1>9 DEF c, f, b

\* A frame is written.
LEMMA TxSendStep ==
    ASSUME TcpInv, NEW e \in Ends, TxSend(e) PROVE TcpInv'
<1>1. /\ queue' \in [Ends -> Seq(Nat)] /\ sent' \in [Ends -> Nat]
      /\ connected' \in [Ends -> BOOLEAN] /\ sock' \in [Ends -> Socket]
  BY DEF TxSend, link, history, TcpInv, Shape
<1>2. UNCHANGED <<flags, rx, kernel, late, trusted, sock>>
  BY DEF TxSend, link, history
<1>3. ConnsOK(conn') /\ Same(conn, conn')
  BY FrameAllowed, TransmitOK DEF TxSend, TcpInv
<1>4. Lessens(conn, conn', e, {}, {})
  BY <1>3, SameLessens
<1>5. \E p \in TxPcs, f \in Nat, q \in {None, sock[e]} :
                 Tx(e, p, f, q) /\ (p = "send" => q # None)
  BY TxAgainMoves DEF TxSend
<1> QED  BY <1>1, <1>2, <1>3, <1>4, <1>5, TxMoves

\* The write fails, perhaps in the middle of the frame.
LEMMA TxErrorStep ==
    ASSUME TcpInv, NEW e \in Ends, TxError(e) PROVE TcpInv'
<1>1. EndFacts(e)
  BY Typed
<1>2. PICK K : /\ ConnsOK(K) /\ Lessens(conn, K, e, {}, {})
               /\ DropConnection(e, K)
  <2>1. CASE DropConnection(e, conn)
    BY <1>1, <2>1 DEF EndFacts
  <2>2. CASE /\ Usable(e, tx[e].sock)
             /\ DropConnection(e, Transmit(e, tx[e].sock, SubSeq(Pieces(tx[e].frame), 1, 1)))
    <3> DEFINE K == Transmit(e, tx[e].sock, SubSeq(Pieces(tx[e].frame), 1, 1))
    <3>1. ConnsOK(K) /\ Same(conn, K)
      BY <2>2, FrameAllowed, TransmitOK DEF TxError, TcpInv
    <3> QED  BY <2>2, <3>1, SameLessens
  <2> QED  BY <2>1, <2>2 DEF TxError
<1>3. /\ ConnsOK(conn') /\ Lessens(K, conn', e, {sock[e]}, {})
  BY <1>2, CloseOK DEF DropConnection
<1>4. Lessens(conn, conn', e, {sock[e]}, {})
  BY <1>2, <1>3, LessensAfter
<1>5. /\ queue' \in [Ends -> Seq(Nat)] /\ sent' \in [Ends -> Nat]
      /\ connected' \in [Ends -> BOOLEAN] /\ sock' \in [Ends -> Socket]
      /\ sock'[e] = None /\ \A x \in Ends : x # e => sock'[x] = sock[x]
  BY <1>2 DEF TxError, DropConnection, history, TcpInv, Shape
<1>6. UNCHANGED <<flags, rx, kernel, late, trusted>>
  BY DEF TxError, history
<1>7. \E p \in TxPcs, f \in Nat, q \in {None, sock[e]} :
                 Tx(e, p, f, q) /\ (p = "send" => q # None)
  BY TxAgainMoves DEF TxError
<1> QED  BY <1>3, <1>4, <1>5, <1>6, <1>7, TxMoves

\* Steps of a receive thread that may close connections or make the one it was
\* setting up the connection of the link.
LEMMA RxCloses ==
    ASSUME TcpInv, NEW e \in Ends, NEW p \in {"top", "read", "done"}, NEW cs, NEW r,
           UNCHANGED <<tx, kernel, queue, sent, trusted>>,
           running' \in [Ends -> BOOLEAN], connected' \in [Ends -> BOOLEAN],
           ConnsOK(conn'), Lessens(conn, conn', e, cs, r),
           Rx(e, p, None, None),
           sock' \in [Ends -> Socket],
           \A x \in Ends : x # e => sock'[x] = sock[x],
           sock'[e] \in {sock[e], None, rx[e].cand},
           \A c \in Conns : c \in {sock[e], rx[e].cand} => c = sock'[e] \/ c \in cs,
           cs \subseteq {sock[e], rx[e].cand},
           r \subseteq {rx[e].sock}, e \in Clients => r = {},
           sock'[e] # sock[e] /\ sock'[e] # None =>
               Good(sock'[e]) /\ (e \in Clients => e \in trusted)
    PROVE  Shape' /\ Phases' /\ Sound' /\ Waiting' /\ Held' /\ Cleared'
<1>1. EndFacts(e)
  BY Typed
<1> USE DEF EndFacts
<1>2. /\ rx'[e] = [pc |-> p, cand |-> None, sock |-> None]
      /\ \A x \in Ends : x # e => rx'[x] = rx[x]
      /\ rx' \in [Ends -> [pc : RxPcs, cand : Socket, sock : Socket]]
  BY DEF Rx, TcpInv, Shape, RxPcs
<1>3. Shape'
  BY <1>2 DEF TcpInv, Shape, kernel, ConnsOK
<1>4. Phases'
  BY <1>2 DEF TcpInv, Phases
<1>5. Sound' /\ Waiting' /\ Held' /\ Cleared'
  <2>1. e = Server => /\ \A c \in cs \cup r : ~Queued(c)
                      /\ \A c \in Conns : c \in Refs(e)' => c \in Refs(e)
    BY <1>1, <1>2, EndAssumption DEF Refs
  <2>2. /\ backlog' = backlog /\ trusted' = trusted
        /\ \A x \in Ends : x # e => sock'[x] = sock[x] /\ rx'[x] = rx[x] /\ tx'[x] = tx[x]
        /\ \A c \in Conns : c \in {sock[e], rx[e].cand} =>
                               c \in {sock'[e], rx'[e].cand} \/ c \in cs
        /\ rx'[e].cand = None
    BY <1>2 DEF kernel
  <2>3. \A c \in Conns : c \in {sock'[e], tx'[e].sock} => Good(c)
    BY <1>1, EndAssumption
  <2>4. e \in Clients => (sock'[e] # None => e \in trusted)
    BY <1>1
  <2> QED  BY <1>3, <2>1, <2>2, <2>3, <2>4, StepOnConnections
<1> QED  BY <1>3, <1>4, <1>5

\* The same, when the thread goes on.
LEMMA RxGoesOn ==
    ASSUME TcpInv, NEW e \in Ends, NEW p \in {"top", "read"}, NEW cs, NEW r,
           Shape' /\ Phases' /\ Sound' /\ Waiting' /\ Held' /\ Cleared',
           UNCHANGED <<flags, kernel, late>>,
           Lessens(conn, conn', e, cs, r),
           Rx(e, p, None, None), rx[e].pc # "done"
    PROVE  TcpInv'
<1>1. rx'[e].pc = p /\ \A x \in Ends : x # e => rx'[x] = rx[x]
  BY DEF Rx, TcpInv, Shape
<1>2. UNCHANGED <<running, stopping, late, listening>>
  BY DEF flags, kernel
<1>3. Halted' /\ ReleasedByStop'
  BY <1>1, <1>2, StepOnThreads
<1> QED  BY <1>3 DEF TcpInv

\* A part of what is on its way.
LEMMA PartAllowed ==
    ASSUME NEW k, ConnOK(k), NEW e \in Ends, NEW j \in 1 .. Len(k.wire[e])
    PROVE  LET w == SubSeq(k.wire[e], j + 1, Len(k.wire[e])) IN
           w \in Seq(Bytes) /\ \A i \in 1 .. Len(w) : Allowed(w[i], k.owner)
<1> DEFINE v == k.wire[e]
           w == SubSeq(v, j + 1, Len(v))
<1>1. v \in Seq(Bytes) /\ Len(v) \in Nat /\ j \in Int /\ 1 <= j
  BY LenProperties DEF ConnOK, Connection
<1>2. \A i \in 1 .. Len(v) : v[i] \in Bytes /\ Allowed(v[i], k.owner)
  BY <1>1, ElementOfSeq DEF ConnOK
<1> HIDE DEF v
<1>3. \A i \in j + 1 .. Len(v) : v[i] \in Bytes
  BY <1>1, <1>2
<1>4. /\ w \in Seq(Bytes) /\ Len(w) = IF j + 1 <= Len(v) THEN Len(v) - j ELSE 0
      /\ \A i \in 1 .. Len(v) - j : w[i] = v[j + i]
  <2>1. j + 1 \in Int /\ Len(v) \in Int
    BY <1>1
  <2>2. /\ w \in Seq(Bytes)
        /\ Len(w) = IF j + 1 <= Len(v) THEN Len(v) - (j + 1) + 1 ELSE 0
        /\ \A i \in 1 .. Len(v) - (j + 1) + 1 : w[i] = v[(j + 1) + i - 1]
    BY <1>3, <2>1, SubSeqProperties
  <2> HIDE DEF w
  <2> QED  BY <1>1, <2>1, <2>2
<1> HIDE DEF w
<1>5. ASSUME NEW i \in 1 .. Len(w) PROVE Allowed(w[i], k.owner)
  <2>1. j + i \in 1 .. Len(v) /\ i \in 1 .. Len(v) - j
    BY <1>1, <1>4
  <2> QED  BY <1>2, <1>4, <2>1
<1> QED  BY <1>4, <1>5 DEF v, w

\* recv returns data.
LEMMA RecvDataStep ==
    ASSUME TcpInv, NEW e \in Ends, RecvData(e) PROVE TcpInv'
<1> DEFINE c == rx[e].sock
           r == IF e = Server THEN {c} ELSE {}
<1>1. EndFacts(e)
  BY Typed
<1>2. c \in Conns /\ rx[e].pc = "recv" /\ rx[e].cand = None
  BY <1>1 DEF RecvData, EndFacts, TcpInv, Phases
<1>3. PICK k \in 1 .. Len(conn[c].wire[e]) :
        conn' = [conn EXCEPT ![c].wire[e] = SubSeq(conn[c].wire[e], k + 1, Len(conn[c].wire[e]))]
  BY DEF RecvData, Incoming
<1>4. ConnsOK(conn) /\ ConnOK(conn[c])
  BY <1>2 DEF TcpInv, Sound, ConnsOK
<1> DEFINE w == SubSeq(conn[c].wire[e], k + 1, Len(conn[c].wire[e]))
<1>5. w \in Seq(Bytes) /\ \A i \in 1 .. Len(w) : Allowed(w[i], conn[c].owner)
  BY <1>3, <1>4, PartAllowed
<1>6. ConnsOK(conn') /\ Lessens(conn, conn', e, {}, r)
  <2> HIDE DEF w, c
  <2>1. conn' = [conn EXCEPT ![c].wire[e] = w]
    BY <1>3 DEF w
  <2> QED  BY <1>2, <1>4, <1>5, <2>1, TakenOK
<1>7. /\ UNCHANGED <<flags, tx, kernel, queue, sent, trusted, late, sock>>
      /\ running' \in [Ends -> BOOLEAN] /\ connected' \in [Ends -> BOOLEAN]
      /\ sock' \in [Ends -> Socket] /\ Rx(e, "top", None, None)
  BY DEF RecvData, flags, link, TcpInv, Shape
<1>8. r \subseteq {rx[e].sock} /\ (e \in Clients => r = {})
  BY EndAssumption
<1> HIDE DEF c, r
<1>9. Shape' /\ Phases' /\ Sound' /\ Waiting' /\ Held' /\ Cleared'
  <2>1. \A d \in Conns : d \in {sock[e], rx[e].cand} => d = sock'[e]
    BY <1>2, <1>7, EndAssumption
  <2> QED  BY <1>6, <1>7, <1>8, <2>1, RxCloses
<1> QED  BY <1>2, <1>6, <1>7, <1>9, RxGoesOn

\* recv fails, and the connection is dropped.
LEMMA RecvErrorStep ==
    ASSUME TcpInv, NEW e \in Ends, RecvError(e) PROVE TcpInv'
<1>1. EndFacts(e)
  BY Typed
<1>2. rx[e].pc = "recv" /\ rx[e].cand = None
  BY DEF RecvError, TcpInv, Phases
<1>3. ConnsOK(conn') /\ Lessens(conn, conn', e, {sock[e]}, {})
  BY <1>1, CloseOK DEF RecvError, DropConnection, EndFacts
<1>4. /\ UNCHANGED <<flags, tx, kernel, queue, sent, trusted, late>>
      /\ running' \in [Ends -> BOOLEAN] /\ connected' \in [Ends -> BOOLEAN]
      /\ sock' \in [Ends -> Socket] /\ Rx(e, "top", None, None)
      /\ sock'[e] = None /\ \A x \in Ends : x # e => sock'[x] = sock[x]
  BY DEF RecvError, DropConnection, flags, history, TcpInv, Shape
<1>5. Shape' /\ Phases' /\ Sound' /\ Waiting' /\ Held' /\ Cleared'
  <2>1. \A d \in Conns : d \in {sock[e], rx[e].cand} => d \in {sock[e]}
    BY <1>2, EndAssumption
  <2> QED  BY <1>3, <1>4, <2>1, RxCloses
<1> QED  BY <1>2, <1>3, <1>4, <1>5, RxGoesOn

\* The loop that connects or accepts ends.
LEMMA ConnectReturnsStep ==
    ASSUME TcpInv, NEW e \in Ends, ConnectReturns(e) PROVE TcpInv'
<1>1. EndFacts(e)
  BY Typed
<1>2. rx[e].pc # "done"
  BY DEF ConnectReturns
<1>3. ConnsOK(conn') /\ Lessens(conn, conn', e, {rx[e].cand}, {})
  BY <1>1, CloseOK DEF ConnectReturns, EndFacts
<1>4. /\ UNCHANGED <<flags, tx, kernel, queue, sent, trusted, late, sock>>
      /\ running' \in [Ends -> BOOLEAN] /\ connected' \in [Ends -> BOOLEAN]
      /\ sock' \in [Ends -> Socket] /\ Rx(e, "read", None, None)
  BY DEF ConnectReturns, link, flags, history, TcpInv, Shape
<1>5. Shape' /\ Phases' /\ Sound' /\ Waiting' /\ Held' /\ Cleared'
  BY <1>3, <1>4, RxCloses
<1> QED  BY <1>2, <1>3, <1>4, <1>5, RxGoesOn

\* What a client reads in a handshake.
LEMMA AnswerFacts ==
    ASSUME TcpInv, NEW e \in Ends, NEW a, Answered(e, a)
    PROVE  LET c == rx[e].cand IN
           /\ e \in Clients /\ c \in Conns /\ conn[c].owner = e
           /\ Allowed(a, e)
           /\ Tail(conn[c].wire[e]) \in Seq(Bytes)
           /\ LET w == Tail(conn[c].wire[e]) IN
              \A i \in 1 .. Len(w) : Allowed(w[i], conn[c].owner)
<1> DEFINE c == rx[e].cand
           v == conn[c].wire[e]
           w == Tail(v)
<1>1. EndFacts(e)
  BY Typed
<1>2. e \in Clients /\ c \in Conns
  BY <1>1 DEF Answered, EndFacts, TcpInv, Phases
<1>3. ConnOK(conn[c]) /\ conn[c].owner = e
  BY <1>2 DEF TcpInv, Sound, ConnsOK, ConnOK, Answered, Usable
<1>4. v \in Seq(Bytes) /\ v # <<>> /\ Len(v) \in Nat /\ Head(v) = a
  BY <1>2, <1>3, LenProperties DEF ConnOK, Connection, Answered, Incoming
<1>5. \A i \in 1 .. Len(v) : Allowed(v[i], e)
  BY <1>2, <1>3 DEF ConnOK
<1> HIDE DEF v, c
<1>6. Len(v) # 0 /\ a = v[1]
  BY <1>4, EmptySeq
<1>7. /\ w \in Seq(Bytes) /\ Len(w) = Len(v) - 1
      /\ \A i \in 1 .. Len(w) : w[i] = v[i + 1]
  BY <1>4, HeadTailProperties
<1> HIDE DEF w
<1>8. \A i \in 1 .. Len(w) : Allowed(w[i], e)
  <2>1. \A i \in 1 .. Len(w) : i + 1 \in 1 .. Len(v)
    BY <1>4, <1>7
  <2> QED  BY <1>5, <1>7, <2>1
<1>9. Allowed(a, e)
  <2>1. 1 \in 1 .. Len(v)
    BY <1>4, <1>6
  <2> QED  BY <1>5, <1>6, <2>1
<1> QED  BY <1>2, <1>3, <1>7, <1>8, <1>9 DEF c, v, w

\* A client is accepted.
LEMMA HandshakeOkStep ==
    ASSUME TcpInv, NEW e \in Ends, HandshakeOk(e) PROVE TcpInv'
<1> DEFINE c == rx[e].cand
           w == Tail(conn[c].wire[e])
           K == [conn EXCEPT ![c].wire[e] = w]
<1>1. EndFacts(e) /\ rx[e].pc = "answer"
  BY Typed DEF HandshakeOk, Answered
<1>2. /\ e \in Clients /\ c \in Conns /\ conn[c].owner = e /\ e \in trusted
      /\ w \in Seq(Bytes) /\ \A i \in 1 .. Len(w) : Allowed(w[i], conn[c].owner)
  BY AnswerFacts, BytesDiffer DEF HandshakeOk, Allowed
<1>3. Install(e, c, K)
  BY DEF HandshakeOk
<1>4. ConnsOK(conn)
  BY DEF TcpInv, Sound
<1> HIDE DEF w, c
<1>5. ConnsOK(K) /\ Lessens(conn, K, e, {}, {})
  <2>1. e # Server
    BY <1>2, EndAssumption
  <2> QED  BY <1>2, <1>4, <2>1, TakenOK
<1> HIDE DEF K
<1>6. ConnsOK(conn') /\ Lessens(K, conn', e, {sock[e]}, {})
  BY <1>3, <1>5, CloseOK DEF Install
<1>7. Lessens(conn, conn', e, {sock[e]}, {})
  BY <1>5, <1>6, LessensAfter
<1>8. /\ UNCHANGED <<flags, tx, kernel, queue, sent, trusted, late>>
      /\ running' \in [Ends -> BOOLEAN] /\ connected' \in [Ends -> BOOLEAN]
      /\ sock' \in [Ends -> Socket] /\ Rx(e, "read", None, None)
      /\ sock'[e] = c /\ \A x \in Ends : x # e => sock'[x] = sock[x]
  BY <1>2, <1>3 DEF HandshakeOk, Install, flags, history, TcpInv, Shape
<1>9. Good(c)
  BY <1>2 DEF Good
<1>10. Shape' /\ Phases' /\ Sound' /\ Waiting' /\ Held' /\ Cleared'
  <2>1. c = rx[e].cand
    BY DEF c
  <2> QED  BY <1>2, <1>6, <1>7, <1>8, <1>9, <2>1, RxCloses
<1> QED  BY <1>1, <1>7, <1>8, <1>10, RxGoesOn

\* The server makes the accepted connection its own.
LEMMA InstallAcceptedStep ==
    ASSUME TcpInv, InstallAccepted PROVE TcpInv'
<1> DEFINE e == Server
           c == rx[e].cand
<1>1. e \in Ends /\ EndFacts(e) /\ rx[e].pc = "install"
  BY Typed DEF InstallAccepted
<1>2. c \in Conns /\ Good(c)
  BY <1>1 DEF EndFacts, TcpInv, Phases, Cleared
<1>3. ConnsOK(conn') /\ Lessens(conn, conn', e, {sock[e]}, {})
  BY <1>1, CloseOK DEF InstallAccepted, Install, EndFacts
<1>4. /\ UNCHANGED <<flags, tx, kernel, queue, sent, trusted, late>>
      /\ running' \in [Ends -> BOOLEAN] /\ connected' \in [Ends -> BOOLEAN]
      /\ sock' \in [Ends -> Socket] /\ Rx(e, "read", None, None)
      /\ sock'[e] = c /\ \A x \in Ends : x # e => sock'[x] = sock[x]
  BY <1>2 DEF InstallAccepted, Install, flags, history, TcpInv, Shape
<1>5. e \notin Clients
  BY EndAssumption
<1>6. Shape' /\ Phases' /\ Sound' /\ Waiting' /\ Held' /\ Cleared'
  BY <1>1, <1>2, <1>3, <1>4, <1>5, RxCloses
<1> QED  BY <1>1, <1>3, <1>4, <1>6, RxGoesOn

\* A client is rejected: it has no connection, and its thread ends.
LEMMA HandshakeRejectedStep ==
    ASSUME TcpInv, NEW e \in Ends, HandshakeRejected(e) PROVE TcpInv'
<1>1. EndFacts(e) /\ rx[e].pc = "answer"
  BY Typed DEF HandshakeRejected, Answered
<1>2. e \in Clients /\ e \notin trusted
  BY AnswerFacts DEF HandshakeRejected, Allowed
<1>3. sock[e] = None /\ e # Server
  BY <1>1, <1>2 DEF EndFacts
<1>4. ConnsOK(conn') /\ Lessens(conn, conn', e, {rx[e].cand}, {})
  BY <1>1, CloseOK DEF HandshakeRejected, EndFacts
<1>5. /\ UNCHANGED <<tx, kernel, queue, sent, trusted, late, stopping, sock, listening>>
      /\ running' \in [Ends -> BOOLEAN] /\ connected' \in [Ends -> BOOLEAN]
      /\ sock' \in [Ends -> Socket] /\ Rx(e, "done", None, None)
      /\ running' = [running EXCEPT ![e] = FALSE]
  BY DEF HandshakeRejected, link, kernel, history, TcpInv, Shape
<1>6. Shape' /\ Phases' /\ Sound' /\ Waiting' /\ Held' /\ Cleared'
  BY <1>4, <1>5, RxCloses
<1>7. rx'[e].pc = "done" /\ \A x \in Ends : x # e => rx'[x] = rx[x] /\ running'[x] = running[x]
  BY <1>5 DEF Rx, TcpInv, Shape
<1>8. Halted'
  BY <1>3, <1>5, <1>7 DEF Halted, TcpInv, Shape
<1>9. ReleasedByStop'
  <2> SUFFICES ASSUME NEW x \in Ends, rx'[x].pc = "done", x \notin stopping' \cup late',
                      NEW c \in Conns, x \in conn'[c].open
               PROVE  FALSE
    BY DEF ReleasedByStop
  <2>1. x \in conn[c].open /\ ~(x = e /\ c = rx[e].cand)
    BY <1>4 DEF Lessens
  <2>2. CASE x = e
    BY <1>3, <2>1, <2>2, EndAssumption DEF TcpInv, Held
  <2>3. CASE x # e
    BY <1>5, <1>7, <2>1, <2>3 DEF TcpInv, ReleasedByStop
  <2> QED  BY <2>2, <2>3
<1> QED  BY <1>6, <1>8, <1>9 DEF TcpInv

\* The network breaks a connection.
LEMMA ResetStep ==
    ASSUME TcpInv, NEW c \in Conns, Reset(c) PROVE TcpInv'
<1> DEFINE n == [conn[c] EXCEPT !.broken = TRUE, !.wire = [e \in Ends |-> <<>>]]
<1>1. conn \in [Conns -> Connection] /\ \A d \in Conns : ConnOK(conn[d])
  BY DEF TcpInv, Sound, ConnsOK
<1>2. conn' = [conn EXCEPT ![c] = n]
  BY <1>1 DEF Reset, Connection
<1>3. ConnOK(n) /\ n.open = conn[c].open /\ n.owner = conn[c].owner /\ n.broken = TRUE
  <2> DEFINE k == conn[c]
  <2>1. ConnOK(k)
    BY <1>1
  <2> HIDE DEF k
  <2>2. LET m == [k EXCEPT !.broken = TRUE, !.wire = [e \in Ends |-> <<>>]] IN
        ConnOK(m) /\ m.open = k.open /\ m.owner = k.owner /\ m.broken = TRUE
    BY <2>1, BrokenOK
  <2> QED  BY <2>2 DEF k
<1> HIDE DEF n
<1>4. \A d \in Conns : conn'[d] = IF d = c THEN n ELSE conn[d]
  BY <1>1, <1>2
<1>5. ConnsOK(conn')
  BY <1>1, <1>2, <1>3, <1>4 DEF ConnsOK, ConnOK
<1>6. Lessens(conn, conn', Server, {}, {})
  BY <1>3, <1>4 DEF Lessens
<1>7. UNCHANGED <<flags, link, queue, rx, tx, kernel, sent, late, trusted>>
  BY DEF Reset
<1>8. /\ UNCHANGED <<running, stopping, connected, sock, queue, rx, tx>>
      /\ UNCHANGED <<listening, backlog, sent, late, trusted>>
  BY <1>7 DEF flags, link, kernel
<1>9. Shape' /\ Phases'
  BY <1>5, <1>8 DEF TcpInv, Shape, Phases, ConnsOK
<1>10. EndFacts(Server)
  BY Typed
<1>11. Sound' /\ Waiting' /\ Held' /\ Cleared'
  <2>1. /\ \A d \in Conns : d \in Refs(Server)' => d \in Refs(Server)
        /\ \A d \in Conns : d \in {sock'[Server], tx'[Server].sock} => Good(d)
        /\ Server \notin Clients
    BY <1>8, <1>10, EndAssumption DEF EndFacts, Refs
  <2> QED  BY <1>5, <1>6, <1>8, <1>9, <2>1, StepOnConnections
<1>12. Halted' /\ ReleasedByStop'
  BY <1>6, <1>8, StepOnThreads
<1> QED  BY <1>9, <1>11, <1>12 DEF TcpInv

\* stop() is called.
LEMMA StopBeginsStep ==
    ASSUME TcpInv, NEW e \in Ends, StopBegins(e) PROVE TcpInv'
<1>1. /\ running' = [running EXCEPT ![e] = FALSE] /\ stopping' = stopping \cup {e}
      /\ UNCHANGED <<connected, sock, queue, rx, tx, listening, backlog, conn>>
      /\ UNCHANGED <<sent, late, trusted>>
  BY DEF StopBegins, link, kernel
<1>2. Shape' /\ Sound' /\ Phases' /\ Waiting' /\ Held' /\ Cleared'
  BY <1>1 DEF TcpInv, Shape, Sound, ConnsOK, ConnOK, Allowed, Phases, Waiting, Waits, Refs,
              Held, Queued, Cleared, Good
<1>3. \A x \in Ends : running'[x] = IF x = e THEN FALSE ELSE running[x]
  BY <1>1 DEF TcpInv, Shape
<1>4. Halted'
  BY <1>1, <1>3 DEF TcpInv, Halted
<1>5. ReleasedByStop'
  BY <1>1 DEF TcpInv, ReleasedByStop
<1> QED  BY <1>2, <1>4, <1>5 DEF TcpInv

\* The joins of stop() are over: the socket is closed and so, at the server, is
\* every connection that waits for accept().
LEMMA StopEndsStep ==
    ASSUME TcpInv, NEW e \in Ends, StopEnds(e) PROVE TcpInv'
<1> DEFINE cs == ClosedByStop(e)
<1>1. EndFacts(e)
  BY Typed
<1>2. ConnsOK(conn') /\ Lessens(conn, conn', e, cs, {})
  BY <1>1, CloseOK DEF StopEnds, EndFacts
<1>3. /\ UNCHANGED <<running, queue, rx, tx, sent, trusted>>
      /\ stopping' = stopping \ {e}
      /\ late' = IF rx[e].pc = "done" THEN late ELSE late \cup {e}
      /\ sock' = [sock EXCEPT ![e] = None]
      /\ connected' = [connected EXCEPT ![e] = FALSE]
      /\ e = Server => listening' = FALSE /\ backlog' = <<>>
      /\ e # Server => listening' = listening /\ backlog' = backlog
  BY DEF StopEnds, kernel
<1>4. \A x \in Ends : sock'[x] = IF x = e THEN None ELSE sock[x]
  BY <1>3 DEF TcpInv, Shape
<1>5. backlog' \in Seq(Conns)
  BY <1>3, EmptySeq DEF TcpInv, Shape
<1>6. Shape' /\ Phases'
  BY <1>2, <1>3, <1>5 DEF TcpInv, Shape, Phases, ConnsOK
<1>7. /\ sock[e] \in cs
      /\ e = Server => \A c \in Conns : Queued(c) => c \in cs
      /\ e # Server => cs = {sock[e]}
  <2>1. backlog \in Seq(Conns)
    BY DEF TcpInv, Shape
  <2>2. DOMAIN backlog = 1 .. Len(backlog)
    BY <2>1, LenProperties
  <2> QED  BY <2>2 DEF ClosedByStop, Queued
<1> HIDE DEF cs
<1>8. ASSUME NEW x \in Ends, NEW c \in Conns, x \in conn'[c].open
      PROVE  /\ x \in conn[c].open
             /\ x = e => c = rx[e].cand
  BY <1>2, <1>7, <1>8 DEF Lessens, TcpInv, Held
<1>9. Held'
  <2> SUFFICES ASSUME NEW x \in Ends, NEW c \in Conns, x \in conn'[c].open
               PROVE  c \in {sock'[x], rx'[x].cand} \/ (x = Server /\ Queued(c)')
    BY DEF Held
  <2>1. CASE x = e
    BY <1>3, <1>8, <2>1
  <2>2. CASE x # e
    <3>1. c \in {sock[x], rx[x].cand} \/ (x = Server /\ Queued(c))
      BY <1>8 DEF TcpInv, Held
    <3>2. x = Server => backlog' = backlog
      BY <1>3, <2>2
    <3> QED  BY <1>3, <1>4, <2>2, <3>1, <3>2 DEF Queued
  <2> QED  BY <2>1, <2>2
<1>10. \A c \in Conns : Good(c) => Good(c)'
  BY <1>2, <1>3 DEF Good, Lessens
<1>11. Cleared'
  BY <1>3, <1>4, <1>10, EndAssumption DEF TcpInv, Cleared
<1>12. Sound'
  BY <1>2, <1>3 DEF Sound, ConnsOK, ConnOK, Allowed
<1>13. Waiting'
  <2>1. CASE e = Server
    <3>1. Len(backlog') = 0
      BY <1>3, <2>1, EmptySeq
    <3> QED  BY <3>1 DEF Waiting
  <2>2. CASE e # Server
    <3>1. \A i \in 1 .. Len(backlog) : backlog[i] \in Conns
      BY ElementOfSeq DEF TcpInv, Shape
    <3>2. ASSUME NEW c \in Conns, Waits(c) PROVE Waits(c)'
      BY <1>2, <1>3, <1>4, <2>2, <3>2 DEF Waits, Lessens, Refs
    <3> QED  BY <1>3, <2>2, <3>1, <3>2 DEF TcpInv, Waiting
  <2> QED  BY <2>1, <2>2
<1>14. Halted'
  BY <1>3 DEF TcpInv, Halted
<1>15. ReleasedByStop'
  <2> SUFFICES ASSUME NEW x \in Ends, rx'[x].pc = "done", x \notin stopping' \cup late',
                      NEW c \in Conns, x \in conn'[c].open
               PROVE  FALSE
    BY DEF ReleasedByStop
  <2>1. CASE x = e
    BY <1>3, <1>8, <2>1, EndAssumption DEF TcpInv, Phases
  <2>2. CASE x # e
    BY <1>3, <1>8, <2>2 DEF TcpInv, ReleasedByStop
  <2> QED  BY <2>1, <2>2
<1> QED  BY <1>6, <1>9, <1>11, <1>12, <1>13, <1>14, <1>15 DEF TcpInv

\* A client dials: the connection is a new one, and goes to the backlog.
LEMMA ConnectStep ==
    ASSUME TcpInv, NEW e \in Ends, Connect(e) PROVE TcpInv'
<1> DEFINE K == Close(conn, e, {rx[e].cand})
<1>1. EndFacts(e) /\ e \in Clients /\ e # Server
  BY Typed, EndAssumption DEF Connect
<1>2. PICK c \in Unused : /\ conn' = [K EXCEPT ![c] = Dialled(e)]
                          /\ backlog' = Append(backlog, c)
                          /\ Rx(e, "answer", c, None)
  BY DEF Connect
<1>3. c \in Conns /\ Free(c)
  BY DEF Unused
<1>4. /\ conn[c].open = {}
      /\ \A x \in Ends : c \notin Refs(x)
  BY <1>3, NoConnOK DEF Free, Refs
<1>5. ConnsOK(K) /\ Lessens(conn, K, e, {rx[e].cand}, {})
  BY <1>1, CloseOK DEF EndFacts
<1> HIDE DEF K
<1>6. /\ UNCHANGED <<running, stopping, connected, sock, queue, tx>>
      /\ UNCHANGED <<listening, sent, late, trusted>>
  BY DEF Connect, flags, link, history
<1>7. /\ ConnOK(Dialled(e)) /\ Dialled(e).open = {e, Server}
      /\ Dialled(e).owner = e /\ Dialled(e).wire[Server] # <<>>
  BY <1>1, DialledOK
<1>8. /\ conn'[c] = Dialled(e)
      /\ \A d \in Conns : d # c => conn'[d] = K[d]
      /\ ConnsOK(conn')
  BY <1>2, <1>3, <1>5, <1>7 DEF ConnsOK, ConnOK
<1>9. /\ rx'[e] = [pc |-> "answer", cand |-> c, sock |-> None]
      /\ \A x \in Ends : x # e => rx'[x] = rx[x]
      /\ rx' \in [Ends -> [pc : RxPcs, cand : Socket, sock : Socket]]
  BY <1>2, <1>3 DEF Rx, TcpInv, Shape, RxPcs
<1>10. /\ backlog \in Seq(Conns) /\ backlog' \in Seq(Conns)
       /\ Len(backlog) \in Nat /\ Len(backlog') = Len(backlog) + 1
       /\ backlog'[Len(backlog) + 1] = c
       /\ \A i \in 1 .. Len(backlog) : backlog'[i] = backlog[i] /\ backlog[i] \in Conns
  BY <1>2, <1>3, AppendProperties, LenProperties, ElementOfSeq DEF TcpInv, Shape
<1>11. Shape' /\ Phases'
  <2>1. Shape'
    BY <1>6, <1>8, <1>9, <1>10 DEF TcpInv, Shape, ConnsOK
  <2>2. c # None
    BY <1>3, EndAssumption
  <2>3. Phases'
    BY <1>1, <1>6, <1>9, <2>2 DEF TcpInv, Phases
  <2> QED  BY <2>1, <2>3
<1>12. ASSUME NEW x \in Ends, NEW d \in Conns, x \in conn'[d].open, d # c
       PROVE  x \in conn[d].open /\ (x = e => d # rx[e].cand)
  BY <1>5, <1>8, <1>12 DEF Lessens
<1>13. \A i \in 1 .. Len(backlog) : backlog[i] # c /\ Waits(backlog[i])
  BY <1>4 DEF TcpInv, Waiting, Waits
<1>14. ASSUME NEW i \in 1 .. Len(backlog') PROVE Waits(backlog[i])'
  <2>1. CASE i = Len(backlog) + 1
    <3>1. Server \in conn'[c].open /\ conn'[c].wire[Server] # <<>>
      BY <1>7, <1>8
    <3>2. c \notin Refs(Server)'
      BY <1>1, <1>4, <1>6, <1>9 DEF Refs
    <3>3. Waits(c)'
      BY <3>1, <3>2 DEF Waits
    <3> QED  BY <1>10, <2>1, <3>3
  <2>2. CASE i # Len(backlog) + 1
    <3>1. i \in 1 .. Len(backlog)
      BY <1>10, <2>2
    <3>2. PICK d \in Conns : d # c /\ Waits(d) /\ backlog'[i] = d
      BY <1>10, <1>13, <3>1
    <3>3. Server \in conn'[d].open /\ (~conn'[d].broken => conn'[d].wire[Server] # <<>>)
      BY <1>1, <1>5, <1>8, <3>2 DEF Waits, Lessens
    <3>4. d \notin Refs(Server)'
      BY <1>1, <1>6, <1>9, <3>2 DEF Waits, Refs
    <3> QED  BY <3>2, <3>3, <3>4 DEF Waits
  <2> QED  BY <2>1, <2>2
<1>15. Waiting'
  <2>1. ASSUME NEW i \in 1 .. Len(backlog'), NEW j \in 1 .. Len(backlog'),
               backlog'[i] = backlog'[j]
        PROVE  i = j
    <3>1. \A k \in 1 .. Len(backlog') : k = Len(backlog) + 1 \/ k \in 1 .. Len(backlog)
      BY <1>10
    <3>2. \A k, l \in 1 .. Len(backlog) : backlog[k] = backlog[l] => k = l
      BY DEF TcpInv, Waiting
    <3> QED  BY <1>10, <1>13, <2>1, <3>1, <3>2
  <2> QED  BY <1>14, <2>1 DEF Waiting
<1>16. Held'
  <2> SUFFICES ASSUME NEW x \in Ends, NEW d \in Conns, x \in conn'[d].open
               PROVE  d \in {sock'[x], rx'[x].cand} \/ (x = Server /\ Queued(d)')
    BY DEF Held
  <2>1. \A y : Queued(y) \/ y = c => Queued(y)'
    BY <1>10 DEF Queued
  <2>2. CASE d = c
    BY <1>7, <1>8, <1>9, <2>1, <2>2
  <2>3. CASE d # c
    <3>1. d \in {sock[x], rx[x].cand} \/ (x = Server /\ Queued(d))
      BY <1>12, <2>3 DEF TcpInv, Held
    <3> QED  BY <1>6, <1>9, <1>12, <2>1, <2>3, <3>1
  <2> QED  BY <2>2, <2>3
<1>17. Cleared'
  <2>1. \A d \in Conns : d # c /\ Good(d) => Good(d)'
    BY <1>5, <1>6, <1>8 DEF Good, Lessens
  <2>2. \A x \in Ends : sock'[x] = sock[x] /\ tx'[x] = tx[x] /\ c \notin {sock[x], tx[x].sock}
    BY <1>4, <1>6 DEF Refs
  <2>3. rx'[Server] = rx[Server] /\ c # rx[Server].cand
    BY <1>1, <1>4, <1>9 DEF Refs
  <2> QED  BY <1>6, <2>1, <2>2, <2>3 DEF TcpInv, Cleared
<1>18. Sound'
  BY <1>6, <1>8 DEF Sound, ConnsOK, ConnOK, Allowed
<1>19. running[e] /\ listening
  BY DEF Connect
<1>20. Halted'
  BY <1>1, <1>6, <1>9, <1>19 DEF TcpInv, Halted
<1>21. ReleasedByStop'
  <2> SUFFICES ASSUME NEW x \in Ends, rx'[x].pc = "done", x \notin stopping' \cup late',
                      NEW d \in Conns, x \in conn'[d].open
               PROVE  FALSE
    BY DEF ReleasedByStop
  <2>1. x # e /\ rx[x].pc = "done" /\ x \notin stopping \cup late
    BY <1>6, <1>9
  <2>2. CASE d = c
    BY <1>7, <1>8, <1>19, <2>1, <2>2 DEF TcpInv, Halted
  <2>3. CASE d # c
    BY <1>12, <2>1, <2>3 DEF TcpInv, ReleasedByStop
  <2> QED  BY <2>2, <2>3
<1> QED  BY <1>11, <1>15, <1>16, <1>17, <1>18, <1>20, <1>21 DEF TcpInv

\* What is left when the first of what is on its way was received.
LEMMA TailAllowed ==
    ASSUME NEW k, ConnOK(k), NEW e \in Ends, k.wire[e] # <<>>
    PROVE  LET w == Tail(k.wire[e]) IN
           w \in Seq(Bytes) /\ \A i \in 1 .. Len(w) : Allowed(w[i], k.owner)
<1> DEFINE v == k.wire[e]
           w == Tail(v)
<1>1. v \in Seq(Bytes) /\ Len(v) \in Nat
  BY LenProperties DEF ConnOK, Connection
<1>2. \A i \in 1 .. Len(v) : Allowed(v[i], k.owner)
  BY DEF ConnOK
<1>3. v # <<>>
  OBVIOUS
<1> HIDE DEF v
<1>4. Len(v) # 0
  BY <1>1, <1>3, EmptySeq
<1>5. /\ w \in Seq(Bytes) /\ Len(w) = Len(v) - 1
      /\ \A i \in 1 .. Len(w) : w[i] = v[i + 1]
  BY <1>1, <1>3, HeadTailProperties
<1> HIDE DEF w
<1>6. \A i \in 1 .. Len(w) : i + 1 \in 1 .. Len(v)
  BY <1>1, <1>5
<1>7. \A i \in 1 .. Len(w) : Allowed(w[i], k.owner)
  BY <1>2, <1>5, <1>6
<1> QED  BY <1>5, <1>7 DEF v, w

\* The server takes a connection from the backlog: it closes it, or keeps it to
\* make it its own.
LEMMA Accepted ==
    ASSUME TcpInv, Accept
    PROVE  LET c == Head(backlog) IN
           /\ c \in Conns
           /\ \E cs \in SUBSET {c} :
                /\ ConnsOK(conn') /\ Lessens(conn, conn', Server, cs, {c})
                /\ \/ cs = {} /\ Rx(Server, "install", c, None) /\ Good(c)
                   \/ cs = {c} /\ rx' = rx
<1> DEFINE c == Head(backlog)
<1>1. backlog # <<>> /\ backlog \in Seq(Conns)
  BY DEF Accept, TcpInv, Shape
<1>2. Len(backlog) \in Nat \ {0} /\ c = backlog[1] /\ c \in Conns
  BY <1>1, EmptySeq, LenProperties, HeadTailProperties
<1>3. Waits(c) /\ ConnsOK(conn) /\ ConnOK(conn[c])
  BY <1>2 DEF TcpInv, Waiting, Sound, ConnsOK
<1> HIDE DEF c
<1>4. CASE /\ ~conn[c].broken /\ PasswordOk(c)
           /\ conn' = [Transmit(Server, c, <<Ok>>) EXCEPT ![c].wire[Server] = Tail(@)]
           /\ Rx(Server, "install", c, None)
  <2> DEFINE b == <<Ok>>
             T == Transmit(Server, c, b)
             w == Tail(T[c].wire[Server])
  <2>1. conn[c].owner \in trusted
    BY <1>4 DEF PasswordOk
  <2>2. b \in Seq(Bytes) /\ \A i \in 1 .. Len(b) : Allowed(b[i], conn[c].owner)
    BY <2>1, BytesDiffer DEF Bytes, Allowed
  <2>3. ConnsOK(T) /\ Same(conn, T)
    <3> HIDE DEF b
    <3> QED  BY <1>2, <2>2, TransmitOK DEF TcpInv
  <2>4. conn' = [T EXCEPT ![c].wire[Server] = w]
    BY <1>4
  <2> HIDE DEF T
  <2>5. T[c].wire[Server] # <<>> /\ ConnOK(T[c])
    BY <1>2, <1>3, <1>4, <2>3 DEF Waits, Same, ConnsOK
  <2>6. w \in Seq(Bytes) /\ \A i \in 1 .. Len(w) : Allowed(w[i], T[c].owner)
    BY <2>5, TailAllowed
  <2> HIDE DEF w
  <2>7. ConnsOK(conn') /\ Lessens(T, conn', Server, {}, {c})
    BY <1>2, <2>3, <2>4, <2>6, TakenOK
  <2>8. Lessens(conn, T, Server, {}, {})
    BY <2>3, SameLessens
  <2>9. Lessens(conn, conn', Server, {}, {} \cup {c})
    BY <2>7, <2>8, LessensAfter
  <2>10. Lessens(conn, conn', Server, {}, {c})
    BY <2>9
  <2>11. Good(c)
    BY <2>1 DEF Good
  <2> QED  BY <1>2, <1>4, <2>7, <2>10, <2>11 DEF c
<1>5. CASE /\ ~PasswordOk(c)
           /\ conn' = Close(Transmit(Server, c, <<Bad>>), Server, {c})
           /\ UNCHANGED rx
  <2> DEFINE b == <<Bad>>
             T == Transmit(Server, c, b)
  <2>1. b \in Seq(Bytes) /\ \A i \in 1 .. Len(b) : Allowed(b[i], conn[c].owner)
    BY <1>5, BytesDiffer DEF Bytes, Allowed, PasswordOk
  <2>2. ConnsOK(T) /\ Same(conn, T)
    <3> HIDE DEF b
    <3> QED  BY <1>2, <2>1, TransmitOK DEF TcpInv
  <2>3. conn' = Close(T, Server, {c})
    BY <1>5
  <2> HIDE DEF T
  <2>4. ConnsOK(conn') /\ Lessens(T, conn', Server, {c}, {})
    BY <2>2, <2>3, CloseOK
  <2>5. Lessens(conn, conn', Server, {c}, {} \cup {})
    BY <2>2, <2>4, SameLessens, LessensAfter
  <2>6. Lessens(conn, conn', Server, {c}, {c})
    BY <2>5 DEF Lessens
  <2> QED  BY <1>2, <1>5, <2>4, <2>6 DEF c
<1>6. CASE conn' = Close(conn, Server, {c}) /\ UNCHANGED rx
  <2>1. ConnsOK(conn') /\ Lessens(conn, conn', Server, {c}, {})
    BY <1>3, <1>6, CloseOK
  <2>2. Lessens(conn, conn', Server, {c}, {c})
    BY <2>1 DEF Lessens
  <2> QED  BY <1>2, <1>6, <2>1, <2>2 DEF c
<1> QED  BY <1>4, <1>5, <1>6 DEF Accept, c

\* Nothing else of the backlog changes.
LEMMA AcceptStep ==
    ASSUME TcpInv, Accept PROVE TcpInv'
<1> DEFINE c == Head(backlog)
<1>1. /\ c \in Conns
      /\ \E cs \in SUBSET {c} :
           /\ ConnsOK(conn') /\ Lessens(conn, conn', Server, cs, {c})
           /\ \/ cs = {} /\ Rx(Server, "install", c, None) /\ Good(c)
              \/ cs = {c} /\ rx' = rx
  BY Accepted
<1>2. PICK cs \in SUBSET {c} :
           /\ ConnsOK(conn') /\ Lessens(conn, conn', Server, cs, {c})
           /\ \/ cs = {} /\ Rx(Server, "install", c, None) /\ Good(c)
              \/ cs = {c} /\ rx' = rx
  BY <1>1
<1>3. /\ UNCHANGED <<running, stopping, connected, sock, queue, tx>>
      /\ UNCHANGED <<listening, sent, late, trusted>>
      /\ rx[Server].pc = "accept" /\ rx[Server].cand = None
  BY EndAssumption DEF Accept, flags, link, history, TcpInv, Phases
<1>4. /\ backlog \in Seq(Conns) /\ backlog' = Tail(backlog) /\ backlog # <<>>
  BY DEF Accept, TcpInv, Shape
<1>5. /\ backlog' \in Seq(Conns) /\ Len(backlog) \in Nat \ {0}
      /\ Len(backlog') = Len(backlog) - 1 /\ c = backlog[1]
      /\ \A i \in 1 .. Len(backlog') : backlog'[i] = backlog[i + 1]
  BY <1>4, EmptySeq, LenProperties, HeadTailProperties
<1>6. \A i \in 1 .. Len(backlog') : i + 1 \in 1 .. Len(backlog)
  BY <1>5
<1>7. \A i, j \in 1 .. Len(backlog) : backlog[i] = backlog[j] => i = j
  BY DEF TcpInv, Waiting
<1>8. \A i \in 1 .. Len(backlog') : backlog'[i] # c
  <2> SUFFICES ASSUME NEW i \in 1 .. Len(backlog'), backlog'[i] = c PROVE FALSE
    OBVIOUS
  <2>1. backlog[i + 1] = backlog[1] /\ 1 \in 1 .. Len(backlog) /\ i + 1 \in 1 .. Len(backlog)
    BY <1>5, <1>6
  <2>2. i + 1 = 1
    BY <1>7, <2>1
  <2> QED  BY <2>2
<1>9. \A d : Queued(d) /\ d # c => Queued(d)'
  <2> SUFFICES ASSUME NEW d, NEW i \in 1 .. Len(backlog), backlog[i] = d, d # c PROVE Queued(d)'
    BY DEF Queued
  <2>1. i # 1
    BY <1>5
  <2>2. i - 1 \in 1 .. Len(backlog') /\ (i - 1) + 1 = i
    BY <1>5, <2>1
  <2> QED  BY <1>5, <2>2 DEF Queued
<1> HIDE DEF c
<1>10. \/ cs = {} /\ rx'[Server] = [pc |-> "install", cand |-> c, sock |-> None] /\ Good(c)
       \/ cs = {c} /\ rx'[Server] = rx[Server]
  BY <1>2 DEF Rx, TcpInv, Shape
<1>11. /\ \A x \in Ends : x # Server => rx'[x] = rx[x]
       /\ rx' \in [Ends -> [pc : RxPcs, cand : Socket, sock : Socket]]
  BY <1>1, <1>2 DEF Rx, TcpInv, Shape, RxPcs
<1>12. Shape' /\ Phases'
  BY <1>1, <1>2, <1>3, <1>5, <1>10, <1>11, EndAssumption DEF TcpInv, Shape, Phases, ConnsOK
<1>13. Waiting'
  <2>1. ASSUME NEW i \in 1 .. Len(backlog') PROVE Waits(backlog[i])'
    <3>1. PICK d \in Conns : d # c /\ Waits(d) /\ backlog'[i] = d
      BY <1>5, <1>6, <1>8, ElementOfSeq DEF TcpInv, Waiting
    <3>2. Server \in conn'[d].open /\ (~conn'[d].broken => conn'[d].wire[Server] # <<>>)
      BY <1>2, <3>1 DEF Waits, Lessens
    <3>3. d # None
      BY <3>1, EndAssumption
    <3>4. d \notin Refs(Server)'
      BY <1>3, <1>10, <3>1, <3>3 DEF Waits, Refs
    <3> QED  BY <3>1, <3>2, <3>4 DEF Waits
  <2>2. ASSUME NEW i \in 1 .. Len(backlog'), NEW j \in 1 .. Len(backlog'),
               backlog'[i] = backlog'[j]
        PROVE  i = j
    <3>1. i + 1 \in 1 .. Len(backlog) /\ j + 1 \in 1 .. Len(backlog)
      BY <1>6
    <3>2. backlog[i + 1] = backlog[j + 1]
      BY <1>5, <2>2
    <3>3. i + 1 = j + 1
      BY <1>7, <3>1, <3>2
    <3> QED  BY <3>3
  <2> QED  BY <2>1, <2>2 DEF Waiting
<1>14. Held'
  <2> SUFFICES ASSUME NEW x \in Ends, NEW d \in Conns, x \in conn'[d].open
               PROVE  d \in {sock'[x], rx'[x].cand} \/ (x = Server /\ Queued(d)')
    BY DEF Held
  <2>1. x \in conn[d].open /\ ~(x = Server /\ d \in cs)
    BY <1>2 DEF Lessens
  <2>2. d \in {sock[x], rx[x].cand} \/ (x = Server /\ Queued(d))
    BY <2>1 DEF TcpInv, Held
  <2>3. CASE x = Server
    BY <1>3, <1>9, <1>10, <2>1, <2>2, <2>3, EndAssumption
  <2>4. CASE x # Server
    BY <1>3, <1>11, <2>2, <2>4
  <2> QED  BY <2>3, <2>4
<1>15. Cleared'
  <2>1. \A d \in Conns : Good(d) => Good(d)'
    BY <1>2, <1>3 DEF Good, Lessens
  <2> QED  BY <1>3, <1>10, <2>1 DEF TcpInv, Cleared
<1>16. Sound'
  BY <1>2, <1>3 DEF Sound, ConnsOK, ConnOK, Allowed
<1>17. Halted' /\ ReleasedByStop'
  <2>1. rx'[Server].pc # "done" /\ Server \in Ends
    BY <1>3, <1>10
  <2> QED  BY <1>2, <1>3, <1>11, <2>1, StepOnThreads
<1> QED  BY <1>12, <1>13, <1>14, <1>15, <1>16, <1>17 DEF TcpInv

-----------------------------------------------------------------------------
(* The theorems.                                                           *)

\* The ends start with no connection at all.
LEMMA TcpInit ==
    ASSUME Init PROVE TcpInv
<1> USE DEF Init
<1>1. \A c \in Conns : conn[c] = NoConn
  OBVIOUS
<1>2. ConnOK(NoConn) /\ NoConn.open = {} /\ NoConn \in Connection
  BY NoConnOK DEF ConnOK
<1>3. Sound
  BY <1>2 DEF Sound, ConnsOK
<1>4. Len(backlog) = 0 /\ backlog \in Seq(Conns)
  BY EmptySeq
<1>5. Shape
  BY <1>2, <1>4, EmptySeq DEF Shape, RxPcs, TxPcs
<1>6. Phases
  BY DEF Phases
<1>7. Waiting
  BY <1>4 DEF Waiting
<1>8. \A e \in Ends, c \in Conns : e \notin conn[c].open
  BY <1>1, <1>2
<1>9. Held /\ ReleasedByStop
  BY <1>8 DEF Held, ReleasedByStop
<1>10. Cleared
  BY EndAssumption DEF Cleared
<1>11. Halted
  BY DEF Halted
<1> QED  BY <1>3, <1>5, <1>6, <1>7, <1>9, <1>10, <1>11 DEF TcpInv

\* Every step of the link, its threads, its owner and the network keeps it.
LEMMA TcpStep ==
    ASSUME TcpInv, [Next]_vars PROVE TcpInv'
<1>1. CASE UNCHANGED vars
  <2>1. /\ UNCHANGED <<running, stopping, connected, sock, queue, rx, tx>>
        /\ UNCHANGED <<listening, backlog, conn, sent, late, trusted>>
    BY <1>1 DEF vars, flags, link, kernel, history
  <2>2. Shape' /\ Phases' /\ Halted' /\ ReleasedByStop'
    BY <2>1 DEF TcpInv, Shape, Phases, Halted, ReleasedByStop
  <2>3. Sound' /\ Waiting' /\ Held' /\ Cleared'
    BY <2>1 DEF TcpInv, Sound, ConnsOK, ConnOK, Allowed, Waiting, Waits, Refs, Held, Queued,
                Cleared, Good
  <2> QED  BY <2>2, <2>3 DEF TcpInv
<1>2. ASSUME NEW e \in Ends, RxStep(e) PROVE TcpInv'
  <2>1. CASE RxTop(e) \/ RxSocket(e) \/ RecvData(e) \/ RecvTimeout(e) \/ RecvError(e)
    BY <2>1, RxTopStep, RxSocketStep, RecvDataStep, RecvTimeoutStep, RecvErrorStep
  <2>2. CASE Connect(e) \/ ConnectReturns(e)
    BY <2>2, ConnectStep, ConnectReturnsStep
  <2>3. CASE HandshakeOk(e) \/ HandshakeRejected(e) \/ HandshakeFails(e)
    BY <2>3, HandshakeOkStep, HandshakeRejectedStep, HandshakeFailsStep
  <2>4. CASE Listen \/ Accept \/ InstallAccepted
    BY <2>4, ListenStep, AcceptStep, InstallAcceptedStep
  <2> QED  BY <1>2, <2>1, <2>2, <2>3, <2>4 DEF RxStep
<1>3. ASSUME NEW e \in Ends, TxStep(e) PROVE TcpInv'
  BY <1>3, TxGetStep, TxSocketStep, TxClearStep, TxSendStep, TxErrorStep DEF TxStep
<1>4. ASSUME NEW e \in Ends, Send(e) \/ StopBegins(e) \/ StopEnds(e) PROVE TcpInv'
  BY <1>4, SendStep, StopBeginsStep, StopEndsStep
<1>5. ASSUME NEW c \in Conns, Reset(c) PROVE TcpInv'
  BY <1>5, ResetStep
<1> QED  BY <1>1, <1>2, <1>3, <1>4, <1>5 DEF Next

\* Whatever the threads, the owners and the network do, the link keeps its
\* invariant: no fairness is needed.
THEOREM TcpInvariant == Spec => []TcpInv
<1>1. Init => TcpInv
  BY TcpInit
<1>2. TcpInv /\ [Next]_vars => TcpInv'
  BY TcpStep
<1> QED  BY <1>1, <1>2, PTL DEF Spec

\* _server_handshake and _client_handshake come before every frame: nothing but
\* the handshake travels on a connection whose client did not give the password,
\* whatever sockets the transmit threads still hold.
THEOREM HandshakeFirst == Spec => []FramesOnlyAfterHandshake
<1>1. TcpInv => FramesOnlyAfterHandshake
  <2> SUFFICES ASSUME TcpInv, NEW c \in Conns, NEW e \in Ends,
                      NEW i \in DOMAIN conn[c].wire[e],
                      conn[c].wire[e][i] \notin {Password, Ok, Bad}
               PROVE  conn[c].owner \in trusted
    BY DEF FramesOnlyAfterHandshake, Incoming
  <2>1. ConnOK(conn[c]) /\ conn[c].wire[e] \in Seq(Bytes)
    BY DEF TcpInv, Sound, ConnsOK, ConnOK, Connection
  <2>2. i \in 1 .. Len(conn[c].wire[e])
    BY <2>1, LenProperties
  <2> QED  BY <2>1, <2>2 DEF ConnOK, Allowed
<1> QED  BY <1>1, TcpInvariant, PTL

\* "Server accepts ONE connection at a time": _accept_server leaves no accepted
\* connection open but the one it installs, although the transmit thread drops
\* connections and clears the flag at any time.
THEOREM ServerHoldsOne == Spec => []OneConnection
<1>1. TcpInv => OneConnection
  <2>1. TcpInv => DOMAIN backlog = 1 .. Len(backlog)
    BY LenProperties DEF TcpInv, Shape
  <2> QED  BY <2>1 DEF TcpInv, Held, Queued, OneConnection
<1> QED  BY <1>1, TcpInvariant, PTL

\* stop() leaves no connection open, unless it gave up waiting for the receive
\* thread; a client that was rejected leaves none either.
THEOREM StopReleases == Spec => []ReleasedByStop
<1>1. TcpInv => ReleasedByStop
  BY DEF TcpInv
<1> QED  BY <1>1, TcpInvariant, PTL

-----------------------------------------------------------------------------
(* The refinement of FrameLink: what travels from the server to a client.  *)

\* A sequence of pieces that ends with a whole frame.
Even(w) == \E m \in Nat : Len(w) = 2 * m

\* The pieces w are those of frames of O, in order and after the frames r, but
\* for the second piece of the last one, which may be missing.
Flow(w, r, O) ==
    /\ \A k \in 1 .. Len(w) : 2 * k - 1 <= Len(w) =>
         /\ w[2 * k - 1] = <<w[2 * k - 1][1], 1>>
         /\ w[2 * k - 1][1] \in O
         /\ \A i \in 1 .. Len(r) : r[i][1][1] < w[2 * k - 1][1]
    /\ \A k \in 1 .. Len(w) : 2 * k <= Len(w) => w[2 * k] = <<w[2 * k - 1][1], 2>>
    /\ \A k, l \in 1 .. Len(w) :
         k < l /\ 2 * l - 1 <= Len(w) => w[2 * k - 1][1] < w[2 * l - 1][1]

\* The frames r are whole, of O, and in order.
Whole(r, O) ==
    /\ \A i \in 1 .. Len(r) : r[i] = Pieces(r[i][1][1]) /\ r[i][1][1] \in O
    /\ \A i, j \in 1 .. Len(r) : i < j => r[i][1][1] < r[j][1][1]

\* Nothing on its way.
LEMMA FlowOfNothing == \A r, O : Flow(<<>>, r, O) /\ Even(<<>>)
<1>1. Len(<<>>) = 0 /\ 2 * 0 = 0
  OBVIOUS
<1> QED  BY <1>1 DEF Flow, Even

\* The end of a flow may be lost.
LEMMA FlowCut ==
    ASSUME NEW u \in Seq(Bytes), NEW w \in Seq(Bytes), NEW r, NEW O, Flow(w, r, O),
           Len(u) <= Len(w), \A i \in 1 .. Len(u) : w[i] = u[i]
    PROVE  Flow(u, r, O)
<1>1. Len(u) \in Nat /\ Len(w) \in Nat
  BY LenProperties
<1>2. Flow(w, r, O)
  OBVIOUS
<1>3. ASSUME NEW k \in 1 .. Len(u), 2 * k - 1 <= Len(u)
      PROVE  /\ u[2 * k - 1] = <<u[2 * k - 1][1], 1>>
             /\ u[2 * k - 1][1] \in O
             /\ \A i \in 1 .. Len(r) : r[i][1][1] < u[2 * k - 1][1]
  <2>1. k \in 1 .. Len(w) /\ 2 * k - 1 <= Len(w) /\ 2 * k - 1 \in 1 .. Len(u)
    BY <1>1, <1>3
  <2>2. w[2 * k - 1] = u[2 * k - 1]
    BY <1>1, <2>1
  <2> QED  BY <1>2, <2>1, <2>2 DEF Flow
<1>4. ASSUME NEW k \in 1 .. Len(u), 2 * k <= Len(u)
      PROVE  u[2 * k] = <<u[2 * k - 1][1], 2>>
  <2>1. k \in 1 .. Len(w) /\ 2 * k <= Len(w) /\ 2 * k \in 1 .. Len(u) /\ 2 * k - 1 \in 1 .. Len(u)
    BY <1>1, <1>4
  <2>2. w[2 * k] = u[2 * k] /\ w[2 * k - 1] = u[2 * k - 1]
    BY <1>1, <2>1
  <2> QED  BY <1>2, <2>1, <2>2 DEF Flow
<1>5. ASSUME NEW k \in 1 .. Len(u), NEW l \in 1 .. Len(u), k < l, 2 * l - 1 <= Len(u)
      PROVE  u[2 * k - 1][1] < u[2 * l - 1][1]
  <2>1. /\ k \in 1 .. Len(w) /\ l \in 1 .. Len(w) /\ 2 * l - 1 <= Len(w)
        /\ 2 * k - 1 \in 1 .. Len(u) /\ 2 * l - 1 \in 1 .. Len(u)
    BY <1>1, <1>5
  <2>2. w[2 * k - 1] = u[2 * k - 1] /\ w[2 * l - 1] = u[2 * l - 1]
    BY <1>1, <2>1
  <2> QED  BY <1>2, <1>5, <2>1, <2>2 DEF Flow
<1> QED  BY <1>3, <1>4, <1>5 DEF Flow

\* More frames may have been sent.
LEMMA FlowGrows ==
    ASSUME NEW w, NEW r, NEW O, NEW P, O \subseteq P
    PROVE  (Flow(w, r, O) => Flow(w, r, P)) /\ (Whole(r, O) => Whole(r, P))
<1>1. Flow(w, r, O) => Flow(w, r, P)
  BY DEF Flow
<1>2. Whole(r, O) => Whole(r, P)
  BY DEF Whole
<1> QED  BY <1>1, <1>2

\* The number of a piece.
LEMMA NumberOf ==
    ASSUME NEW x, NEW f, NEW n, x = <<f, n>>
    PROVE  x[1] = f
  OBVIOUS

\* The pieces of a frame, and its first half.
LEMMA PiecesBytes ==
    ASSUME NEW f \in Nat
    PROVE  /\ Pieces(f) \in Seq(Bytes)
           /\ <<<<f, 1>>>> \in Seq(Bytes)
<1> DEFINE a == <<f, 1>>
           z == <<f, 2>>
<1>1. a \in Bytes /\ z \in Bytes
  BY DEF Bytes
<1>2. Pieces(f) = <<a, z>>
  BY DEF Pieces
<1> HIDE DEF a, z
<1>3. <<a, z>> \in Seq(Bytes) /\ <<a>> \in Seq(Bytes)
  BY <1>1
<1> QED  BY <1>2, <1>3 DEF a, z

\* The next frame follows a flow of whole ones.
LEMMA FlowGoesOn ==
    ASSUME NEW w \in Seq(Bytes), NEW r, NEW O, NEW P, NEW f \in P, O \subseteq P, P \subseteq Nat,
           Flow(w, r, O), Even(w), Whole(r, O), \A n \in O : n < f
    PROVE  /\ Flow(w \o Pieces(f), r, P) /\ Even(w \o Pieces(f))
           /\ Flow(w \o <<<<f, 1>>>>, r, P)
<1> DEFINE b == Pieces(f)
           v == w \o b
<1>0. b \in Seq(Bytes)
  BY PiecesBytes
<1>1. Len(b) = 2 /\ b[1] = <<f, 1>> /\ b[2] = <<f, 2>>
  BY DEF Pieces
<1>2. PICK m \in Nat : Len(w) = 2 * m
  BY DEF Even
<1> HIDE DEF b
<1>3. /\ v \in Seq(Bytes) /\ Len(v) = 2 * m + 2
      /\ \A i \in 1 .. 2 * m : v[i] = w[i]
      /\ v[2 * m + 1] = <<f, 1>> /\ v[2 * m + 2] = <<f, 2>>
  <2>1. /\ Len(v) = Len(w) + Len(b)
        /\ \A i \in 1 .. Len(v) : v[i] = IF i <= Len(w) THEN w[i] ELSE b[i - Len(w)]
        /\ v \in Seq(Bytes)
    BY <1>0, ConcatProperties
  <2> HIDE DEF v
  <2>2. Len(v) = 2 * m + 2
    BY <1>1, <1>2, <2>1
  <2>3. (2 * m + 1) - Len(w) = 1 /\ (2 * m + 2) - Len(w) = 2 /\ 2 * m + 1 \in 1 .. Len(v)
        /\ 2 * m + 2 \in 1 .. Len(v) /\ ~(2 * m + 1 <= Len(w)) /\ ~(2 * m + 2 <= Len(w))
    BY <1>2, <2>2
  <2>4. \A i \in 1 .. 2 * m : i \in 1 .. Len(v) /\ i <= Len(w)
    BY <1>2, <2>2
  <2> QED  BY <1>1, <2>1, <2>2, <2>3, <2>4
<1>4. (2 * m + 1) = 2 * (m + 1) - 1 /\ 2 * m + 2 = 2 * (m + 1)
  OBVIOUS
<1> HIDE DEF v
<1>5. ASSUME NEW k \in 1 .. Len(v), 2 * k - 1 <= Len(v)
      PROVE  \/ k = m + 1 /\ v[2 * k - 1] = <<f, 1>>
             \/ /\ k \in 1 .. Len(w) /\ 2 * k - 1 <= Len(w) /\ 2 * k <= Len(w)
                /\ v[2 * k - 1] = w[2 * k - 1] /\ v[2 * k] = w[2 * k]
  <2>1. CASE k = m + 1
    BY <1>3, <1>4, <2>1
  <2>2. CASE k # m + 1
    <3>1. k <= m /\ k >= 1
      BY <1>3, <1>5, <2>2
    <3>2. 2 * k - 1 \in 1 .. 2 * m /\ 2 * k \in 1 .. 2 * m /\ k \in 1 .. 2 * m
      BY <3>1
    <3> QED  BY <1>2, <1>3, <3>2
  <2> QED  BY <2>1, <2>2
<1>6. ASSUME NEW k \in 1 .. Len(v), 2 * k - 1 <= Len(v)
      PROVE  /\ v[2 * k - 1] = <<v[2 * k - 1][1], 1>>
             /\ v[2 * k - 1][1] \in P
             /\ \A i \in 1 .. Len(r) : r[i][1][1] < v[2 * k - 1][1]
  <2>1. CASE v[2 * k - 1] = <<f, 1>>
    <3>1. v[2 * k - 1][1] = f
      BY <2>1, NumberOf
    <3>2. \A i \in 1 .. Len(r) : r[i][1][1] < f
      BY DEF Whole
    <3> QED  BY <2>1, <3>1, <3>2
  <2>2. CASE k \in 1 .. Len(w) /\ 2 * k - 1 <= Len(w) /\ v[2 * k - 1] = w[2 * k - 1]
    BY <2>2 DEF Flow
  <2> QED  BY <1>5, <1>6, <2>1, <2>2
<1>7. ASSUME NEW k \in 1 .. Len(v), 2 * k <= Len(v)
      PROVE  v[2 * k] = <<v[2 * k - 1][1], 2>>
  <2>1. 2 * k - 1 <= Len(v)
    BY <1>3, <1>7
  <2>2. CASE k = m + 1
    BY <1>3, <1>4, <2>2
  <2>3. CASE /\ k \in 1 .. Len(w) /\ 2 * k <= Len(w)
             /\ v[2 * k - 1] = w[2 * k - 1] /\ v[2 * k] = w[2 * k]
    BY <2>3 DEF Flow
  <2> QED  BY <1>5, <2>1, <2>2, <2>3
<1>8. ASSUME NEW k \in 1 .. Len(v), NEW l \in 1 .. Len(v), k < l, 2 * l - 1 <= Len(v)
      PROVE  v[2 * k - 1][1] < v[2 * l - 1][1]
  <2>1. 2 * k - 1 <= Len(v) /\ k # m + 1
    BY <1>3, <1>8
  <2>2. k \in 1 .. Len(w) /\ 2 * k - 1 <= Len(w) /\ v[2 * k - 1] = w[2 * k - 1]
    BY <1>5, <2>1
  <2>3. w[2 * k - 1][1] \in O
    BY <2>2 DEF Flow
  <2>4. CASE v[2 * l - 1] = <<f, 1>>
    <3>1. v[2 * l - 1][1] = f
      BY <2>4, NumberOf
    <3> QED  BY <2>2, <2>3, <3>1
  <2>5. CASE l \in 1 .. Len(w) /\ 2 * l - 1 <= Len(w) /\ v[2 * l - 1] = w[2 * l - 1]
    BY <1>8, <2>2, <2>5 DEF Flow
  <2> QED  BY <1>5, <1>8, <2>4, <2>5
<1>9. Flow(v, r, P)
  BY <1>6, <1>7, <1>8 DEF Flow
<1>10. Even(v)
  <2>1. m + 1 \in Nat /\ Len(v) = 2 * (m + 1)
    BY <1>3
  <2> QED  BY <2>1 DEF Even
<1>11. Flow(w \o <<<<f, 1>>>>, r, P)
  <2> DEFINE h == <<<<f, 1>>>>
             u == w \o h
  <2>1. h \in Seq(Bytes) /\ Len(h) = 1 /\ h[1] = <<f, 1>>
    BY PiecesBytes
  <2> HIDE DEF h
  <2>2. /\ Len(u) = Len(w) + Len(h) /\ u \in Seq(Bytes)
        /\ \A i \in 1 .. Len(u) : u[i] = IF i <= Len(w) THEN w[i] ELSE h[i - Len(w)]
    BY <2>1, ConcatProperties
  <2> HIDE DEF u
  <2>3. Len(u) = 2 * m + 1
    BY <1>2, <2>1, <2>2
  <2>4. ASSUME NEW i \in 1 .. Len(u) PROVE v[i] = u[i]
    <3>1. CASE i <= 2 * m
      BY <1>2, <1>3, <2>2, <3>1
    <3>2. CASE i = 2 * m + 1
      <4>1. i - Len(w) = 1 /\ ~(i <= Len(w))
        BY <1>2, <3>2
      <4> QED  BY <1>3, <2>1, <2>2, <3>2, <4>1
    <3> QED  BY <2>3, <3>1, <3>2
  <2>5. Flow(u, r, P)
    BY <1>3, <1>9, <2>2, <2>3, <2>4, FlowCut
  <2> QED  BY <2>5 DEF u, h
<1> QED  BY <1>9, <1>10, <1>11 DEF v, b

\* A part of what travels.
LEMMA Part ==
    ASSUME NEW s \in Seq(Bytes), NEW a \in Nat, NEW z \in Nat, a <= z, z <= Len(s)
    PROVE  /\ SubSeq(s, a + 1, z) \in Seq(Bytes) /\ Len(SubSeq(s, a + 1, z)) = z - a
           /\ \A i \in 1 .. z - a : SubSeq(s, a + 1, z)[i] = s[a + i]
<1> DEFINE x == SubSeq(s, a + 1, z)
<1>1. \A i \in a + 1 .. z : s[i] \in Bytes
  <2>1. \A i \in a + 1 .. z : i \in 1 .. Len(s)
    BY LenProperties
  <2> QED  BY <2>1, ElementOfSeq
<1>2. a + 1 \in Int /\ z \in Int
  OBVIOUS
<1>3. /\ x \in Seq(Bytes)
      /\ Len(x) = IF a + 1 <= z THEN z - (a + 1) + 1 ELSE 0
      /\ \A i \in 1 .. z - (a + 1) + 1 : x[i] = s[(a + 1) + i - 1]
  BY <1>1, <1>2, SubSeqProperties
<1> HIDE DEF x
<1>4. z - (a + 1) + 1 = z - a /\ \A i \in 1 .. z - a : (a + 1) + i - 1 = a + i
  OBVIOUS
<1>5. Len(x) = z - a
  BY <1>3
<1>6. \A i \in 1 .. z - a : x[i] = s[a + i]
  BY <1>3, <1>4
<1> QED  BY <1>3, <1>5, <1>6 DEF x

\* What _drain_rx_buffer makes of a buffer.
LEMMA Drained ==
    ASSUME NEW b \in Seq(Bytes)
    PROVE  \E m \in Nat :
             /\ 2 * m <= Len(b) /\ Len(b) <= 2 * m + 1
             /\ RestOf(b) \in Seq(Bytes) /\ Len(RestOf(b)) = Len(b) - 2 * m
             /\ \A i \in 1 .. Len(b) - 2 * m : RestOf(b)[i] = b[2 * m + i]
             /\ WholeFrames(b) \in Seq(Bytes \X Bytes) /\ Len(WholeFrames(b)) = m
             /\ \A i \in 1 .. m : WholeFrames(b)[i] = <<b[2 * i - 1], b[2 * i]>>
<1> DEFINE n == Len(b)
           m == n \div 2
<1>1. n \in Nat
  BY LenProperties
<1>2. m \in Nat /\ 2 * m <= n /\ n <= 2 * m + 1
  <2> HIDE DEF n
  <2> QED  BY <1>1
<1>3. /\ RestOf(b) = SubSeq(b, 2 * m + 1, n)
      /\ WholeFrames(b) = [i \in 1 .. m |-> <<b[2 * i - 1], b[2 * i]>>]
  BY DEF RestOf, WholeFrames
<1> HIDE DEF m
<1>4. /\ RestOf(b) \in Seq(Bytes) /\ Len(RestOf(b)) = n - 2 * m
      /\ \A i \in 1 .. n - 2 * m : RestOf(b)[i] = b[2 * m + i]
  <2> DEFINE a == 2 * m
             x == SubSeq(b, a + 1, n)
  <2>1. a \in Nat /\ a <= n /\ n <= Len(b)
    BY <1>1, <1>2
  <2> HIDE DEF a
  <2>2. x \in Seq(Bytes) /\ Len(x) = n - a /\ \A i \in 1 .. n - a : x[i] = b[a + i]
    BY <1>1, <2>1, Part
  <2>3. RestOf(b) = x
    BY <1>3 DEF a
  <2> HIDE DEF x
  <2> QED  BY <2>2, <2>3 DEF a
<1>5. ASSUME NEW i \in 1 .. m PROVE <<b[2 * i - 1], b[2 * i]>> \in Bytes \X Bytes
  <2>1. 2 * i - 1 \in 1 .. n /\ 2 * i \in 1 .. n
    BY <1>1, <1>2
  <2> QED  BY <2>1, ElementOfSeq
<1>6. /\ WholeFrames(b) \in Seq(Bytes \X Bytes) /\ Len(WholeFrames(b)) = m
      /\ \A i \in 1 .. m : WholeFrames(b)[i] = <<b[2 * i - 1], b[2 * i]>>
  BY <1>2, <1>3, <1>5
<1> QED  BY <1>2, <1>4, <1>6

\* recv takes the first k pieces off a flow; whole frames are handed on.
LEMMA FlowReceived ==
    ASSUME NEW u \in Seq(Bytes), NEW v \in Seq(Bytes), NEW r \in Seq(Bytes \X Bytes),
           NEW O \in SUBSET Nat, NEW k \in 1 .. Len(v),
           Flow(u \o v, r, O), Whole(r, O)
    PROVE  LET b == u \o SubSeq(v, 1, k)
               rest == RestOf(b) \o SubSeq(v, k + 1, Len(v))
               q == r \o WholeFrames(b)
           IN  /\ Flow(rest, q, O) /\ Whole(q, O)
               /\ Even(u \o v) => Even(rest)
               /\ Len(r) <= Len(q) /\ \A i \in 1 .. Len(r) : q[i] = r[i]
<1> DEFINE w == u \o v
           h == SubSeq(v, 1, k)
           t == SubSeq(v, k + 1, Len(v))
           b == u \o h
           rest == RestOf(b) \o t
           q == r \o WholeFrames(b)
<1>1. Len(u) \in Nat /\ Len(v) \in Nat /\ Len(r) \in Nat
  BY LenProperties
<1>2. h \in Seq(Bytes) /\ Len(h) = k /\ \A i \in 1 .. k : h[i] = v[i]
  <2>1. 0 \in Nat /\ k \in Nat /\ 0 <= k /\ k <= Len(v) /\ k - 0 = k /\ \A i \in 1 .. k : 0 + i = i
    BY <1>1
  <2>2. 0 + 1 = 1
    OBVIOUS
  <2>3. /\ SubSeq(v, 0 + 1, k) \in Seq(Bytes) /\ Len(SubSeq(v, 0 + 1, k)) = k - 0
        /\ \A i \in 1 .. k - 0 : SubSeq(v, 0 + 1, k)[i] = v[0 + i]
    BY <2>1, Part
  <2> QED  BY <2>1, <2>2, <2>3
<1>3. t \in Seq(Bytes) /\ Len(t) = Len(v) - k /\ \A i \in 1 .. Len(v) - k : t[i] = v[k + i]
  BY <1>1, Part
<1>4. /\ w \in Seq(Bytes) /\ Len(w) = Len(u) + Len(v)
      /\ \A i \in 1 .. Len(w) : w[i] = IF i <= Len(u) THEN u[i] ELSE v[i - Len(u)]
  BY ConcatProperties
<1> HIDE DEF h, t, w
<1>5. /\ b \in Seq(Bytes) /\ Len(b) = Len(u) + k
      /\ \A i \in 1 .. Len(b) : b[i] = IF i <= Len(u) THEN u[i] ELSE h[i - Len(u)]
  <2>1. h \in Seq(Bytes)
    BY <1>2
  <2>2. /\ b \in Seq(Bytes) /\ Len(b) = Len(u) + Len(h)
        /\ \A i \in 1 .. Len(b) : b[i] = IF i <= Len(u) THEN u[i] ELSE h[i - Len(u)]
    BY <2>1, ConcatProperties
  <2> HIDE DEF b
  <2> QED  BY <1>2, <2>2
<1> HIDE DEF b
<1>6. \A i \in 1 .. Len(b) : b[i] = w[i]
  <2> SUFFICES ASSUME NEW i \in 1 .. Len(b) PROVE b[i] = w[i]
    OBVIOUS
  <2>1. i \in 1 .. Len(w)
    BY <1>1, <1>4, <1>5
  <2>2. CASE i <= Len(u)
    BY <1>4, <1>5, <2>1, <2>2
  <2>3. CASE ~(i <= Len(u))
    <3>1. i - Len(u) \in 1 .. k
      BY <1>1, <1>5, <2>3
    <3> QED  BY <1>2, <1>4, <1>5, <2>1, <2>3, <3>1
  <2> QED  BY <2>2, <2>3
<1>7. PICK m \in Nat :
             /\ 2 * m <= Len(b) /\ Len(b) <= 2 * m + 1
             /\ RestOf(b) \in Seq(Bytes) /\ Len(RestOf(b)) = Len(b) - 2 * m
             /\ \A i \in 1 .. Len(b) - 2 * m : RestOf(b)[i] = b[2 * m + i]
             /\ WholeFrames(b) \in Seq(Bytes \X Bytes) /\ Len(WholeFrames(b)) = m
             /\ \A i \in 1 .. m : WholeFrames(b)[i] = <<b[2 * i - 1], b[2 * i]>>
  BY <1>5, Drained
\* rest is the flow without its first m frames.
<1>8. /\ rest \in Seq(Bytes) /\ Len(rest) = Len(w) - 2 * m
      /\ \A i \in 1 .. Len(rest) : rest[i] = w[2 * m + i]
  <2>1. /\ rest \in Seq(Bytes) /\ Len(rest) = Len(RestOf(b)) + Len(t)
        /\ \A i \in 1 .. Len(rest) : rest[i] = IF i <= Len(RestOf(b)) THEN RestOf(b)[i]
                                              ELSE t[i - Len(RestOf(b))]
    <3>1. t \in Seq(Bytes) /\ RestOf(b) \in Seq(Bytes)
      BY <1>3, <1>7
    <3> QED  BY <3>1, ConcatProperties
  <2> HIDE DEF rest
  <2>2. Len(rest) = Len(w) - 2 * m
    <3>1. /\ Len(rest) = (Len(b) - 2 * m) + (Len(v) - k)
          /\ Len(b) = Len(u) + k /\ Len(w) = Len(u) + Len(v)
      BY <1>3, <1>4, <1>5, <1>7, <2>1
    <3>2. (Len(u) + k - 2 * m) + (Len(v) - k) = Len(u) + Len(v) - 2 * m
      BY <1>1
    <3> QED  BY <3>1, <3>2
  <2>3. ASSUME NEW i \in 1 .. Len(rest) PROVE rest[i] = w[2 * m + i]
    <3>1. CASE i <= Len(RestOf(b))
      <4>1. i \in 1 .. Len(b) - 2 * m /\ 2 * m + i \in 1 .. Len(b)
        BY <1>1, <1>5, <1>7, <3>1
      <4> QED  BY <1>6, <1>7, <2>1, <3>1, <4>1
    <3>2. CASE ~(i <= Len(RestOf(b)))
      <4>1. PICK g \in Nat : g = Len(RestOf(b))
        <5>1. RestOf(b) \in Seq(Bytes)
          BY <1>7
        <5> QED  BY <5>1, LenProperties
      <4>2. PICK a \in Nat, c \in Nat : a = Len(u) /\ c = Len(v)
        BY <1>1
      <4>3. /\ g = a + k - 2 * m /\ Len(rest) = g + (c - k) /\ Len(w) = a + c
            /\ i \in 1 .. Len(rest) /\ ~(i <= g)
        <5>1. g = a + k - 2 * m
          BY <1>5, <1>7, <4>1, <4>2
        <5>2. Len(rest) = g + (c - k)
          BY <1>3, <2>1, <4>1, <4>2
        <5>3. Len(w) = a + c
          BY <1>4, <4>2
        <5> QED  BY <3>2, <4>1, <5>1, <5>2, <5>3
      <4>4. PICK j \in Int : j = i - g
        BY <4>3
      <4>5. /\ j \in 1 .. c - k /\ 2 * m + i \in 1 .. a + c
            /\ ~(2 * m + i <= a) /\ k + j = (2 * m + i) - a
        BY <4>3, <4>4
      <4>6. rest[i] = t[j]
        BY <2>1, <4>1, <4>3, <4>4
      <4>7. t[j] = v[k + j]
        BY <1>3, <4>2, <4>5
      <4>8. w[2 * m + i] = v[(2 * m + i) - a]
        BY <1>4, <4>2, <4>3, <4>5
      <4> QED  BY <4>5, <4>6, <4>7, <4>8
    <3> QED  BY <3>1, <3>2
  <2> QED  BY <2>1, <2>2, <2>3
\* q is r and these m frames.
<1>9. /\ Len(q) = Len(r) + m
      /\ \A i \in 1 .. Len(r) : q[i] = r[i]
      /\ \A i \in 1 .. m : q[Len(r) + i] = <<w[2 * i - 1], w[2 * i]>>
  <2>1. /\ Len(q) = Len(r) + Len(WholeFrames(b))
        /\ \A i \in 1 .. Len(q) : q[i] = IF i <= Len(r) THEN r[i] ELSE WholeFrames(b)[i - Len(r)]
    <3>1. WholeFrames(b) \in Seq(Bytes \X Bytes)
      BY <1>7
    <3> QED  BY <3>1, ConcatProperties
  <2> HIDE DEF q
  <2>2. ASSUME NEW i \in 1 .. m PROVE q[Len(r) + i] = <<w[2 * i - 1], w[2 * i]>>
    <3>1. /\ Len(r) + i \in 1 .. Len(q) /\ ~(Len(r) + i <= Len(r)) /\ (Len(r) + i) - Len(r) = i
          /\ 2 * i - 1 \in 1 .. Len(b) /\ 2 * i \in 1 .. Len(b)
      BY <1>1, <1>5, <1>7, <2>1
    <3>2. q[Len(r) + i] = WholeFrames(b)[i]
      BY <2>1, <3>1
    <3>3. b[2 * i - 1] = w[2 * i - 1] /\ b[2 * i] = w[2 * i]
      BY <1>6, <3>1
    <3> QED  BY <1>7, <3>2, <3>3
  <2>3. \A i \in 1 .. Len(r) : i \in 1 .. Len(q) /\ i <= Len(r)
    BY <1>1, <1>7, <2>1
  <2> QED  BY <1>7, <2>1, <2>2, <2>3
<1>10. 2 * m <= Len(w) /\ Flow(w, r, O) /\ Len(w) \in Nat
  BY <1>1, <1>4, <1>5, <1>7 DEF w
<1> HIDE DEF q, rest
<1>11. ASSUME NEW i \in 1 .. m
       PROVE  /\ q[Len(r) + i] = Pieces(w[2 * i - 1][1])
              /\ q[Len(r) + i][1][1] = w[2 * i - 1][1] /\ w[2 * i - 1][1] \in O
              /\ \A j \in 1 .. Len(r) : r[j][1][1] < w[2 * i - 1][1]
  <2>1. i \in 1 .. Len(w) /\ 2 * i - 1 <= Len(w) /\ 2 * i <= Len(w)
    BY <1>10
  <2>2. PICK f : f = w[2 * i - 1][1]
    OBVIOUS
  <2>3. /\ w[2 * i - 1] = <<f, 1>> /\ w[2 * i] = <<f, 2>> /\ f \in O
        /\ \A j \in 1 .. Len(r) : r[j][1][1] < f
    BY <1>10, <2>1, <2>2 DEF Flow
  <2>4. q[Len(r) + i] = <<<<f, 1>>, <<f, 2>>>>
    BY <1>9, <2>3
  <2>5. q[Len(r) + i][1] = <<f, 1>>
    BY <2>4
  <2> QED  BY <2>2, <2>3, <2>4, <2>5, NumberOf DEF Pieces
<1>12. ASSUME NEW i \in 1 .. Len(q)
       PROVE  \/ i \in 1 .. Len(r)
              \/ \E j \in 1 .. m : i = Len(r) + j
  <2>1. CASE i <= Len(r)
    BY <1>1, <2>1
  <2>2. CASE ~(i <= Len(r))
    <3>1. i - Len(r) \in 1 .. m /\ i = Len(r) + (i - Len(r))
      BY <1>1, <1>9, <2>2
    <3> QED  BY <3>1
  <2> QED  BY <2>1, <2>2
<1>13. Whole(q, O)
  <2>1. ASSUME NEW i \in 1 .. Len(q)
        PROVE  q[i] = Pieces(q[i][1][1]) /\ q[i][1][1] \in O
    <3>1. CASE i \in 1 .. Len(r)
      BY <1>9, <3>1 DEF Whole
    <3>2. ASSUME NEW j \in 1 .. m, i = Len(r) + j
          PROVE  q[i] = Pieces(q[i][1][1]) /\ q[i][1][1] \in O
      BY <1>11, <3>2
    <3> QED  BY <1>12, <3>1, <3>2
  <2>2. ASSUME NEW i \in 1 .. Len(q), NEW j \in 1 .. Len(q), i < j
        PROVE  q[i][1][1] < q[j][1][1]
    <3>1. CASE i \in 1 .. Len(r) /\ j \in 1 .. Len(r)
      BY <1>9, <2>2, <3>1 DEF Whole
    <3>2. ASSUME NEW y \in 1 .. m, j = Len(r) + y, i \in 1 .. Len(r)
          PROVE  q[i][1][1] < q[j][1][1]
      BY <1>9, <1>11, <3>2
    <3>3. ASSUME NEW x \in 1 .. m, NEW y \in 1 .. m, i = Len(r) + x, j = Len(r) + y
          PROVE  q[i][1][1] < q[j][1][1]
      <4>1. x < y /\ x \in 1 .. Len(w) /\ y \in 1 .. Len(w) /\ 2 * y - 1 <= Len(w)
        BY <1>1, <1>10, <2>2, <3>3
      <4>2. w[2 * x - 1][1] < w[2 * y - 1][1]
        BY <1>10, <4>1 DEF Flow
      <4> QED  BY <1>11, <3>3, <4>2
    <3>4. ASSUME NEW x \in 1 .. m, i = Len(r) + x, j \in 1 .. Len(r) PROVE FALSE
      BY <1>1, <2>2, <3>4
    <3> QED  BY <1>12, <3>1, <3>2, <3>3, <3>4
  <2> QED  BY <2>1, <2>2 DEF Whole
<1>14. ASSUME NEW l \in 1 .. Len(rest), 2 * l - 1 <= Len(rest)
       PROVE  /\ m + l \in 1 .. Len(w) /\ 2 * (m + l) - 1 <= Len(w)
              /\ rest[2 * l - 1] = w[2 * (m + l) - 1]
              /\ 2 * l <= Len(rest) => 2 * (m + l) <= Len(w) /\ rest[2 * l] = w[2 * (m + l)]
  <2>1. /\ m + l \in 1 .. Len(w) /\ 2 * (m + l) - 1 <= Len(w)
        /\ 2 * l - 1 \in 1 .. Len(rest) /\ 2 * m + (2 * l - 1) = 2 * (m + l) - 1
        /\ 2 * l <= Len(rest) => /\ 2 * l \in 1 .. Len(rest) /\ 2 * (m + l) <= Len(w)
                                 /\ 2 * m + 2 * l = 2 * (m + l)
    BY <1>8, <1>10, <1>14
  <2> QED  BY <1>8, <2>1
<1>15. Flow(rest, q, O)
  <2>1. ASSUME NEW l \in 1 .. Len(rest), 2 * l - 1 <= Len(rest)
        PROVE  /\ rest[2 * l - 1] = <<rest[2 * l - 1][1], 1>> /\ rest[2 * l - 1][1] \in O
               /\ \A i \in 1 .. Len(q) : q[i][1][1] < rest[2 * l - 1][1]
    <3>1. /\ m + l \in 1 .. Len(w) /\ 2 * (m + l) - 1 <= Len(w)
          /\ rest[2 * l - 1] = w[2 * (m + l) - 1]
      BY <1>14, <2>1
    <3>2. /\ rest[2 * l - 1] = <<rest[2 * l - 1][1], 1>> /\ rest[2 * l - 1][1] \in O
          /\ \A i \in 1 .. Len(r) : r[i][1][1] < rest[2 * l - 1][1]
      BY <1>10, <3>1 DEF Flow
    <3>3. ASSUME NEW i \in 1 .. Len(q) PROVE q[i][1][1] < rest[2 * l - 1][1]
      <4>1. CASE i \in 1 .. Len(r)
        BY <1>9, <3>2, <4>1
      <4>2. ASSUME NEW x \in 1 .. m, i = Len(r) + x PROVE q[i][1][1] < rest[2 * l - 1][1]
        <5>1. x < m + l /\ x \in 1 .. Len(w)
          BY <1>8, <1>10
        <5>2. w[2 * x - 1][1] < w[2 * (m + l) - 1][1]
          BY <1>10, <3>1, <5>1 DEF Flow
        <5> QED  BY <1>11, <3>1, <4>2, <5>2
      <4> QED  BY <1>12, <4>1, <4>2
    <3> QED  BY <3>2, <3>3
  <2>2. ASSUME NEW l \in 1 .. Len(rest), 2 * l <= Len(rest)
        PROVE  rest[2 * l] = <<rest[2 * l - 1][1], 2>>
    <3>1. 2 * l - 1 <= Len(rest)
      BY <1>8, <1>10, <2>2
    <3>2. /\ m + l \in 1 .. Len(w) /\ 2 * (m + l) <= Len(w)
          /\ rest[2 * l - 1] = w[2 * (m + l) - 1] /\ rest[2 * l] = w[2 * (m + l)]
      BY <1>14, <2>2, <3>1
    <3> QED  BY <1>10, <3>2 DEF Flow
  <2>3. ASSUME NEW x \in 1 .. Len(rest), NEW y \in 1 .. Len(rest), x < y, 2 * y - 1 <= Len(rest)
        PROVE  rest[2 * x - 1][1] < rest[2 * y - 1][1]
    <3>1. 2 * x - 1 <= Len(rest) /\ m + x < m + y
      BY <1>8, <1>10, <2>3
    <3>2. /\ m + x \in 1 .. Len(w) /\ rest[2 * x - 1] = w[2 * (m + x) - 1]
          /\ m + y \in 1 .. Len(w) /\ rest[2 * y - 1] = w[2 * (m + y) - 1]
          /\ 2 * (m + y) - 1 <= Len(w)
      BY <1>14, <2>3, <3>1
    <3> QED  BY <1>10, <3>1, <3>2 DEF Flow
  <2> QED  BY <2>1, <2>2, <2>3 DEF Flow
<1>16. Even(w) => Even(rest)
  <2> SUFFICES ASSUME NEW n \in Nat, Len(w) = 2 * n PROVE Even(rest)
    BY DEF Even
  <2>1. n - m \in Nat /\ Len(rest) = 2 * (n - m)
    BY <1>8, <1>10
  <2> QED  BY <2>1 DEF Even
<1>17. Len(r) <= Len(q)
  BY <1>1, <1>9
<1> QED  BY <1>9, <1>13, <1>15, <1>16, <1>17 DEF w, h, t, b, rest, q

\* What may become of a flow in one step: it stays, its end is lost, or the next
\* frame comes, perhaps only half of it.  S and T are the connections that
\* the server has shut, before and after the step.
Later(w, x, O, P, c, S, T) ==
    \/ x = w
    \/ c \in T /\ Len(x) <= Len(w) /\ \A i \in 1 .. Len(x) : w[i] = x[i]
    \/ \E f \in P : /\ \A n \in O : n < f
                    /\ c \notin S
                    /\ x = w \o Pieces(f) \/ (c \in T /\ x = w \o <<<<f, 1>>>>)

\* It remains a flow.
LEMMA FlowLater ==
    ASSUME NEW w \in Seq(Bytes), NEW x \in Seq(Bytes), NEW r, NEW O, NEW P,
           O \subseteq P, P \subseteq Nat,
           NEW c, NEW S, NEW T, c \in S => c \in T,
           Flow(w, r, O), Whole(r, O), Even(w) \/ c \in S, Later(w, x, O, P, c, S, T)
    PROVE  Flow(x, r, P) /\ (Even(x) \/ c \in T)
<1>1. Flow(w, r, P)
  BY FlowGrows
<1>2. CASE x = w
  BY <1>1, <1>2
<1>3. CASE c \in T /\ Len(x) <= Len(w) /\ \A i \in 1 .. Len(x) : w[i] = x[i]
  BY <1>1, <1>3, FlowCut
<1>4. ASSUME NEW f \in P, \A n \in O : n < f, c \notin S,
             x = w \o Pieces(f) \/ (c \in T /\ x = w \o <<<<f, 1>>>>)
      PROVE  Flow(x, r, P) /\ (Even(x) \/ c \in T)
  <2>1. /\ Flow(w \o Pieces(f), r, P) /\ Even(w \o Pieces(f))
        /\ Flow(w \o <<<<f, 1>>>>, r, P)
    BY <1>4, FlowGoesOn
  <2> QED  BY <1>4, <2>1
<1> QED  BY <1>2, <1>3, <1>4 DEF Later

\* Bytes behind bytes.
LEMMA Regroup ==
    ASSUME NEW u \in Seq(Bytes), NEW v \in Seq(Bytes), NEW b \in Seq(Bytes)
    PROVE  u \o (v \o b) = (u \o v) \o b
  BY ConcatAssociative

\* A flow behind what is in the buffer.
LEMMA LaterBehind ==
    ASSUME NEW u \in Seq(Bytes), NEW v \in Seq(Bytes), NEW y \in Seq(Bytes),
           NEW O, NEW P, P \subseteq Nat, NEW c, NEW S, NEW T,
           \/ y = v
           \/ y = <<>> /\ c \in T
           \/ \E f \in P : /\ \A n \in O : n < f
                           /\ c \notin S
                           /\ y = v \o Pieces(f) \/ (c \in T /\ y = v \o <<<<f, 1>>>>)
    PROVE  Later(u \o v, u \o y, O, P, c, S, T)
<1>1. CASE y = v
  BY <1>1 DEF Later
<1>2. CASE y = <<>> /\ c \in T
  <2>1. u \o <<>> = u
    BY ConcatEmptySeq
  <2>2. Len(u) <= Len(u \o v) /\ \A i \in 1 .. Len(u) : (u \o v)[i] = u[i]
    <3> DEFINE w == u \o v
    <3>1. Len(u) \in Nat /\ Len(v) \in Nat /\ Len(w) = Len(u) + Len(v)
          /\ \A i \in 1 .. Len(w) : w[i] = IF i <= Len(u) THEN u[i] ELSE v[i - Len(u)]
      BY ConcatProperties, LenProperties
    <3> HIDE DEF w
    <3>2. Len(u) <= Len(w) /\ \A i \in 1 .. Len(u) : w[i] = u[i]
      BY <3>1
    <3> QED  BY <3>2 DEF w
  <2> QED  BY <1>2, <2>1, <2>2 DEF Later
<1>3. ASSUME NEW f \in P, \A n \in O : n < f, c \notin S,
             y = v \o Pieces(f) \/ (c \in T /\ y = v \o <<<<f, 1>>>>)
      PROVE  Later(u \o v, u \o y, O, P, c, S, T)
  <2>1. Pieces(f) \in Seq(Bytes) /\ <<<<f, 1>>>> \in Seq(Bytes)
    BY PiecesBytes
  <2>2. \A b \in Seq(Bytes) : u \o (v \o b) = (u \o v) \o b
    BY Regroup
  <2>3. \/ u \o y = (u \o v) \o Pieces(f)
        \/ c \in T /\ u \o y = (u \o v) \o <<<<f, 1>>>>
    BY <1>3, <2>1, <2>2
  <2> QED  BY <1>3, <2>3 DEF Later
<1> QED  BY <1>1, <1>2, <1>3

\* A concatenation without its first element.
LEMMA TailOfConcat ==
    ASSUME NEW v \in Seq(Bytes), v # <<>>, NEW b \in Seq(Bytes)
    PROVE  Tail(v \o b) = Tail(v) \o b
<1> DEFINE w == v \o b
           z == Tail(w)
           y == Tail(v) \o b
<1>1. Len(v) \in Nat /\ Len(b) \in Nat /\ Len(v) # 0
  BY LenProperties, EmptySeq
<1>2. /\ w \in Seq(Bytes) /\ Len(w) = Len(v) + Len(b)
      /\ \A i \in 1 .. Len(w) : w[i] = IF i <= Len(v) THEN v[i] ELSE b[i - Len(v)]
  BY ConcatProperties
<1>3. w # <<>>
  BY ConcatEqualIffEmpty
<1> HIDE DEF w
<1>4. z \in Seq(Bytes) /\ Len(z) = Len(w) - 1 /\ \A i \in 1 .. Len(z) : z[i] = w[i + 1]
  BY <1>2, <1>3, HeadTailProperties
<1>5. /\ Tail(v) \in Seq(Bytes) /\ Len(Tail(v)) = Len(v) - 1
      /\ \A i \in 1 .. Len(Tail(v)) : Tail(v)[i] = v[i + 1]
  BY HeadTailProperties
<1>6. /\ y \in Seq(Bytes) /\ Len(y) = Len(Tail(v)) + Len(b)
      /\ \A i \in 1 .. Len(y) : y[i] = IF i <= Len(Tail(v)) THEN Tail(v)[i] ELSE b[i - Len(Tail(v))]
  <2>1. Tail(v) \in Seq(Bytes)
    BY <1>5
  <2> QED  BY <2>1, ConcatProperties
<1> HIDE DEF z, y
<1>7. Len(z) = Len(y)
  BY <1>1, <1>2, <1>4, <1>5, <1>6
<1>8. ASSUME NEW i \in 1 .. Len(z) PROVE z[i] = y[i]
  <2>1. i + 1 \in 1 .. Len(w) /\ i \in 1 .. Len(y)
    BY <1>1, <1>2, <1>4, <1>7
  <2>2. CASE i + 1 <= Len(v)
    <3>1. i \in 1 .. Len(Tail(v)) /\ i <= Len(Tail(v))
      BY <1>1, <1>5, <2>2
    <3> QED  BY <1>2, <1>4, <1>5, <1>6, <2>1, <2>2, <3>1
  <2>3. CASE ~(i + 1 <= Len(v))
    <3>1. ~(i <= Len(Tail(v))) /\ (i + 1) - Len(v) = i - Len(Tail(v))
      BY <1>1, <1>5, <2>3
    <3> QED  BY <1>2, <1>4, <1>6, <2>1, <2>3, <3>1
  <2> QED  BY <2>2, <2>3
<1>9. z = y
  BY <1>4, <1>6, <1>7, <1>8, SeqEqual
<1> QED  BY <1>9 DEF z, y, w

\* A flow behind the answer of the handshake.
LEMMA LaterTail ==
    ASSUME NEW v \in Seq(Bytes), v # <<>>, NEW y \in Seq(Bytes), y # <<>>,
           NEW O, NEW P, P \subseteq Nat, NEW c, NEW S, NEW T,
           \/ y = v
           \/ \E f \in P : /\ \A n \in O : n < f
                           /\ c \notin S
                           /\ y = v \o Pieces(f) \/ (c \in T /\ y = v \o <<<<f, 1>>>>)
    PROVE  Later(Tail(v), Tail(y), O, P, c, S, T)
<1>1. CASE y = v
  BY <1>1 DEF Later
<1>2. ASSUME NEW f \in P, \A n \in O : n < f, c \notin S,
             y = v \o Pieces(f) \/ (c \in T /\ y = v \o <<<<f, 1>>>>)
      PROVE  Later(Tail(v), Tail(y), O, P, c, S, T)
  <2>1. Pieces(f) \in Seq(Bytes) /\ <<<<f, 1>>>> \in Seq(Bytes)
    BY PiecesBytes
  <2>2. \A b \in Seq(Bytes) : Tail(v \o b) = Tail(v) \o b
    BY TailOfConcat
  <2>3. \/ Tail(y) = Tail(v) \o Pieces(f)
        \/ c \in T /\ Tail(y) = Tail(v) \o <<<<f, 1>>>>
    BY <1>2, <2>1, <2>2
  <2> QED  BY <1>2, <2>3 DEF Later
<1> QED  BY <1>1, <1>2

-----------------------------------------------------------------------------
(* Frames in the queue, in the hands of the transmit thread, on their way, *)
(* in the buffer and handed on are in this order, later ones first.        *)

\* The transmit thread of the server has a frame in hand.
InHand == tx[Server].pc \in {"socket", "send"}

\* The frames that the server's queue and transmit thread have behind them.
Outs == {n \in 1 .. sent[Server] : /\ InHand => n < tx[Server].frame
                                   /\ \A i \in 1 .. Len(queue[Server]) : n < queue[Server][i]}

\* The frames of the server that wait are in the order of send().
Dues ==
    /\ \A i \in 1 .. Len(queue[Server]) : queue[Server][i] \in 1 .. sent[Server]
    /\ \A i, j \in 1 .. Len(queue[Server]) : i < j => queue[Server][i] < queue[Server][j]
    /\ InHand => /\ tx[Server].frame \in 1 .. sent[Server]
                 /\ \A i \in 1 .. Len(queue[Server]) : tx[Server].frame < queue[Server][i]

\* The server sends nothing more on c.
Shut(c) == Server \notin conn[c].open \/ conn[c].broken

\* A connection that is being set up is not yet in use.
Apart == \A e \in Ends : rx[e].cand # None => rx[e].cand \notin {sock[e], tx[e].sock}

\* The shape of the buffers.
Buffers == buffer \in [Ends -> Seq(Bytes)] /\ received \in [Ends -> Seq(Bytes \X Bytes)]

\* What client e has received; what is in its buffer and on its way to it; and
\* what follows the answer of the handshake, once there is one.
Got(e) == Whole(received[e], Outs)
Flowing(e) ==
    \A c \in Conns : c = sock[e] =>
        /\ ~Queued(c)
        /\ Flow(buffer[e] \o conn[c].wire[e], received[e], Outs)
        /\ Even(buffer[e] \o conn[c].wire[e]) \/ Shut(c)
Answering(e) ==
    \A c \in Conns : c = rx[e].cand /\ rx[e].pc = "answer" =>
        /\ e \in conn[c].open
        /\ conn[c].wire[e] = <<>> => Shut(c) \/ Queued(c)
        /\ Queued(c) => conn[c].wire[e] = <<>>
        /\ conn[c].wire[e] # <<>> => /\ Flow(Tail(conn[c].wire[e]), received[e], Outs)
                                     /\ Even(Tail(conn[c].wire[e])) \/ Shut(c)

\* The invariant of the refinement.
FlowInv == /\ Buffers /\ Dues /\ Apart
           /\ \A e \in Clients : Got(e) /\ Flowing(e) /\ Answering(e)

\* What a step may do to a connection c of client e that stays in use.
Keeps(e, c) ==
    /\ \/ conn'[c].wire[e] = conn[c].wire[e]
       \/ conn'[c].wire[e] = <<>> /\ Shut(c)'
       \/ \E f \in Outs' :
            /\ \A n \in Outs : n < f
            /\ ~Shut(c) /\ ~Queued(c)
            /\ \/ conn'[c].wire[e] = conn[c].wire[e] \o Pieces(f)
               \/ Shut(c)' /\ conn'[c].wire[e] = conn[c].wire[e] \o <<<<f, 1>>>>
    /\ Shut(c) => Shut(c)'
    /\ e \in conn[c].open => e \in conn'[c].open
    /\ Queued(c)' => Queued(c)
    /\ Queued(c) => Queued(c)' \/ Shut(c)'

\* Such a step preserves what is said of a client.
LEMMA ClientStep ==
    ASSUME TcpInv, TcpInv', Buffers, Buffers', NEW e \in Clients,
           Got(e), Flowing(e), Answering(e),
           Outs \subseteq Outs', received'[e] = received[e],
           sock'[e] # None => sock'[e] = sock[e] /\ buffer'[e] = buffer[e],
           \A c \in Conns : c = sock'[e] => Keeps(e, c),
           rx'[e].pc = "answer" => rx[e].pc = "answer" /\ rx'[e].cand = rx[e].cand,
           \A c \in Conns : rx'[e].pc = "answer" /\ c = rx'[e].cand => Keeps(e, c)
    PROVE  Got(e)' /\ Flowing(e)' /\ Answering(e)'
<1>1. Outs \subseteq Nat /\ Outs' \subseteq Nat
  BY DEF Outs
<1>2. \A c \in Conns : conn[c].wire[e] \in Seq(Bytes) /\ conn'[c].wire[e] \in Seq(Bytes)
  BY DEF TcpInv, Shape, Connection
<1>3. buffer[e] \in Seq(Bytes) /\ buffer'[e] \in Seq(Bytes)
  BY DEF Buffers
<1> DEFINE S == {c \in Conns : Shut(c)}
           T == {c \in Conns : Shut(c)'}
<1>4. \A c \in Conns : (Shut(c) <=> c \in S) /\ (Shut(c)' <=> c \in T)
  OBVIOUS
<1> HIDE DEF S, T
<1>0. Whole(received[e], Outs)
  BY DEF Got
<1>5. Got(e)'
  BY FlowGrows DEF Got
<1>6. Flowing(e)'
  <2> SUFFICES ASSUME NEW c \in Conns, c = sock'[e]
               PROVE  /\ ~Queued(c)'
                      /\ Flow(buffer'[e] \o conn'[c].wire[e], received'[e], Outs')
                      /\ Even(buffer'[e] \o conn'[c].wire[e]) \/ Shut(c)'
    BY DEF Flowing
  <2> DEFINE v == conn[c].wire[e]
             y == conn'[c].wire[e]
             u == buffer[e]
  <2>1. c = sock[e] /\ buffer'[e] = u /\ Keeps(e, c)
    BY EndAssumption
  <2>2. ~Queued(c) /\ Flow(u \o v, received[e], Outs) /\ (Even(u \o v) \/ c \in S)
    BY <1>4, <2>1 DEF Flowing
  <2>3. u \in Seq(Bytes) /\ v \in Seq(Bytes) /\ y \in Seq(Bytes)
    BY <1>2, <1>3, <1>4
  <2>4. /\ \/ y = v
           \/ y = <<>> /\ c \in T
           \/ \E f \in Outs' : /\ \A n \in Outs : n < f
                               /\ c \notin S
                               /\ y = v \o Pieces(f) \/ (c \in T /\ y = v \o <<<<f, 1>>>>)
        /\ c \in S => c \in T
        /\ ~Queued(c)'
    BY <1>4, <2>1, <2>2 DEF Keeps
  <2>5. u \o v \in Seq(Bytes) /\ u \o y \in Seq(Bytes)
    BY <2>3, ConcatProperties
  <2> HIDE DEF u, v, y
  <2>6. Later(u \o v, u \o y, Outs, Outs', c, S, T)
    BY <1>1, <2>3, <2>4, LaterBehind
  <2>7. Flow(u \o y, received[e], Outs') /\ (Even(u \o y) \/ c \in T)
    <3>1. c \in S => c \in T
      BY <2>4
    <3>2. Flow(u \o v, received[e], Outs) /\ (Even(u \o v) \/ c \in S)
      BY <2>2
    <3> QED  BY <1>0, <1>1, <2>5, <2>6, <3>1, <3>2, FlowLater
  <2> QED  BY <1>4, <2>1, <2>4, <2>7 DEF u, y
<1>7. Answering(e)'
  <2> SUFFICES ASSUME NEW c \in Conns, c = rx'[e].cand, rx'[e].pc = "answer"
               PROVE  /\ e \in conn'[c].open
                      /\ conn'[c].wire[e] = <<>> => Shut(c)' \/ Queued(c)'
                      /\ Queued(c)' => conn'[c].wire[e] = <<>>
                      /\ conn'[c].wire[e] # <<>> =>
                           /\ Flow(Tail(conn'[c].wire[e]), received'[e], Outs')
                           /\ Even(Tail(conn'[c].wire[e])) \/ Shut(c)'
    BY DEF Answering
  <2> DEFINE v == conn[c].wire[e]
             y == conn'[c].wire[e]
  <2>1. c = rx[e].cand /\ rx[e].pc = "answer" /\ Keeps(e, c)
    OBVIOUS
  <2>2. /\ e \in conn[c].open
        /\ v = <<>> => c \in S \/ Queued(c)
        /\ Queued(c) => v = <<>>
        /\ v # <<>> => Flow(Tail(v), received[e], Outs) /\ (Even(Tail(v)) \/ c \in S)
    BY <1>4, <2>1 DEF Answering
  <2>3. v \in Seq(Bytes) /\ y \in Seq(Bytes)
    BY <1>2, <1>4
  <2>4. /\ \/ y = v
           \/ y = <<>> /\ c \in T
           \/ \E f \in Outs' : /\ \A n \in Outs : n < f
                               /\ c \notin S /\ ~Queued(c)
                               /\ y = v \o Pieces(f) \/ (c \in T /\ y = v \o <<<<f, 1>>>>)
        /\ c \in S => c \in T
        /\ Queued(c)' => Queued(c)
        /\ Queued(c) => Queued(c)' \/ c \in T
        /\ e \in conn'[c].open
    BY <1>4, <2>1, <2>2 DEF Keeps
  <2> HIDE DEF v, y
  <2>5. Queued(c)' => y = <<>>
    BY <2>2, <2>4
  <2>6. y = <<>> => c \in T \/ Queued(c)'
    <3> SUFFICES ASSUME y = <<>>, c \notin T PROVE Queued(c)'
      OBVIOUS
    <3>1. v = <<>>
      <4>1. ASSUME NEW f \in Outs', y = v \o Pieces(f) PROVE v = <<>>
        <5>1. Pieces(f) \in Seq(Bytes)
          BY <1>1, PiecesBytes
        <5>2. v \o Pieces(f) = <<>>
          BY <4>1
        <5> QED  BY <2>3, <5>1, <5>2, ConcatEqualIffEmpty
      <4> QED  BY <2>4, <4>1
    <3> QED  BY <2>2, <2>4, <3>1
  <2>7. ASSUME y # <<>> PROVE Flow(Tail(y), received[e], Outs') /\ (Even(Tail(y)) \/ c \in T)
    <3>1. v # <<>>
      BY <2>2, <2>4, <2>7
    <3>2. /\ Tail(v) \in Seq(Bytes) /\ Tail(y) \in Seq(Bytes)
      BY <2>3, <2>7, <3>1, HeadTailProperties
    <3>3. Later(Tail(v), Tail(y), Outs, Outs', c, S, T)
      <4>1. \/ y = v
            \/ \E f \in Outs' : /\ \A n \in Outs : n < f
                                /\ c \notin S
                                /\ y = v \o Pieces(f) \/ (c \in T /\ y = v \o <<<<f, 1>>>>)
        BY <2>4, <2>7
      <4> QED  BY <1>1, <2>3, <2>7, <3>1, <4>1, LaterTail
    <3>4. Flow(Tail(v), received[e], Outs) /\ (Even(Tail(v)) \/ c \in S)
      BY <2>2, <3>1
    <3>5. c \in S => c \in T
      BY <2>4
    <3> DEFINE a == Tail(v)
               z == Tail(y)
    <3> HIDE DEF a, z
    <3>6. /\ a \in Seq(Bytes) /\ z \in Seq(Bytes) /\ Later(a, z, Outs, Outs', c, S, T)
          /\ Flow(a, received[e], Outs) /\ (Even(a) \/ c \in S)
      BY <3>2, <3>3, <3>4 DEF a, z
    <3>7. Outs \subseteq Outs' /\ Outs' \subseteq Nat
      BY <1>1
    <3>8. Flow(z, received[e], Outs') /\ (Even(z) \/ c \in T)
      <4>1. PICK r, O, P : r = received[e] /\ O = Outs /\ P = Outs'
        OBVIOUS
      <4>2. /\ O \subseteq P /\ P \subseteq Nat /\ Whole(r, O) /\ Flow(a, r, O)
            /\ Later(a, z, O, P, c, S, T)
        BY <1>0, <3>6, <3>7, <4>1
      <4>3. Flow(z, r, P) /\ (Even(z) \/ c \in T)
        BY <3>5, <3>6, <4>2, FlowLater
      <4> QED  BY <4>1, <4>3
    <3> QED  BY <3>8 DEF z
  <2> QED  BY <1>4, <2>4, <2>5, <2>6, <2>7 DEF v, y
<1> QED  BY <1>5, <1>6, <1>7

-----------------------------------------------------------------------------
(* The frames that wait at the server.                                     *)

\* Steps that leave the queue and the transmit thread of the server alone.
LEMMA ServerRests ==
    ASSUME Dues, tx'[Server] = tx[Server], queue'[Server] = queue[Server],
           sent'[Server] = sent[Server]
    PROVE  Dues' /\ Outs' = Outs
<1>1. InHand' = InHand
  BY DEF InHand
<1> QED  BY <1>1 DEF Dues, Outs

\* The transmit thread has done with the frame it had in hand, if it had one.
LEMMA ServerDone ==
    ASSUME TcpInv, Dues, ~InHand', queue'[Server] = queue[Server], sent'[Server] = sent[Server]
    PROVE  /\ Dues' /\ Outs \subseteq Outs'
           /\ InHand => tx[Server].frame \in Outs' /\ \A n \in Outs : n < tx[Server].frame
<1>1. sent[Server] \in Nat /\ Len(queue[Server]) \in Nat
  BY LenProperties DEF TcpInv, Shape
<1> QED  BY <1>1 DEF Dues, Outs

\* It has a frame in hand and keeps it.
LEMMA ServerHolds ==
    ASSUME TcpInv, Dues, InHand, InHand', tx'[Server].frame = tx[Server].frame,
           queue'[Server] = queue[Server], sent'[Server] = sent[Server]
    PROVE  Dues' /\ Outs' = Outs
  BY DEF Dues, Outs

\* It takes the next frame, or drops it.
LEMMA ServerTakes ==
    ASSUME TcpInv, Dues, ~InHand, queue[Server] # <<>>, sent'[Server] = sent[Server],
           queue'[Server] = Tail(queue[Server]),
           InHand' => tx'[Server].frame = Head(queue[Server])
    PROVE  Dues' /\ Outs \subseteq Outs'
<1> DEFINE q == queue[Server]
           t == queue'[Server]
<1>1. sent[Server] \in Nat /\ q \in Seq(Nat)
  BY DEF TcpInv, Shape
<1>2. /\ Len(q) \in Nat \ {0} /\ Head(q) = q[1] /\ Len(t) = Len(q) - 1
      /\ \A i \in 1 .. Len(t) : t[i] = q[i + 1]
  BY <1>1, EmptySeq, LenProperties, HeadTailProperties
<1>3. /\ \A i \in 1 .. Len(q) : q[i] \in 1 .. sent[Server]
      /\ \A i, j \in 1 .. Len(q) : i < j => q[i] < q[j]
  BY DEF Dues
<1>4. \A n \in Outs : n \in 1 .. sent[Server] /\ \A i \in 1 .. Len(q) : n < q[i]
  BY DEF Outs
<1> HIDE DEF q, t
<1>5. \A i \in 1 .. Len(t) : i + 1 \in 1 .. Len(q) /\ 1 < i + 1
  BY <1>2
<1>6. 1 \in 1 .. Len(q)
  BY <1>2
<1>7. /\ \A i \in 1 .. Len(t) : t[i] \in 1 .. sent[Server] /\ q[1] < t[i]
      /\ \A i, j \in 1 .. Len(t) : i < j => t[i] < t[j]
  <2>1. \A i \in 1 .. Len(t) : t[i] \in 1 .. sent[Server] /\ q[1] < t[i]
    BY <1>2, <1>3, <1>5, <1>6
  <2>2. ASSUME NEW i \in 1 .. Len(t), NEW j \in 1 .. Len(t), i < j PROVE t[i] < t[j]
    <3>1. i + 1 < j + 1 /\ i + 1 \in 1 .. Len(q) /\ j + 1 \in 1 .. Len(q)
      BY <1>2, <1>5, <2>2
    <3> QED  BY <1>2, <1>3, <3>1
  <2> QED  BY <2>1, <2>2
<1>8. InHand' => tx'[Server].frame = q[1] /\ q[1] \in 1 .. sent[Server]
  BY <1>2, <1>3, <1>6 DEF q
<1>9. Dues'
  BY <1>7, <1>8 DEF Dues, t
<1>10. ASSUME NEW n \in Outs PROVE n \in Outs'
  <2>1. n < q[1] /\ \A i \in 1 .. Len(t) : n < t[i]
    BY <1>2, <1>4, <1>5, <1>6
  <2> QED  BY <1>4, <1>8, <2>1 DEF Outs, t
<1> QED  BY <1>9, <1>10

\* send() at the server.
LEMMA ServerSends ==
    ASSUME TcpInv, Dues, tx' = tx, sent'[Server] = sent[Server] + 1,
           queue'[Server] = Enqueue(queue[Server], sent[Server] + 1)
    PROVE  Dues' /\ Outs \subseteq Outs'
<1> DEFINE q == queue[Server]
           t == queue'[Server]
           s == sent[Server]
<1>1. s \in Nat /\ q \in Seq(Nat)
  BY DEF TcpInv, Shape
<1>2. InHand' = InHand
  BY DEF InHand
<1>3. CASE t = q
  BY <1>1, <1>2, <1>3 DEF Dues, Outs
<1>4. CASE t = Append(q, s + 1)
  <2>1. /\ Len(q) \in Nat /\ Len(t) = Len(q) + 1
        /\ \A i \in 1 .. Len(q) : t[i] = q[i]
        /\ t[Len(q) + 1] = s + 1
    BY <1>1, <1>4, LenProperties, AppendProperties
  <2>2. \A i \in 1 .. Len(t) : i \in 1 .. Len(q) \/ i = Len(q) + 1
    BY <2>1
  <2>3. /\ \A i \in 1 .. Len(q) : q[i] \in 1 .. s
        /\ \A i, j \in 1 .. Len(q) : i < j => q[i] < q[j]
        /\ InHand => /\ tx[Server].frame \in 1 .. s
                     /\ \A i \in 1 .. Len(q) : tx[Server].frame < q[i]
    BY DEF Dues
  <2>4. \A n \in Outs : /\ n \in 1 .. s /\ (InHand => n < tx[Server].frame)
                        /\ \A i \in 1 .. Len(q) : n < q[i]
    BY DEF Outs
  <2> HIDE DEF q, t, s
  <2>5. \A i \in 1 .. Len(t) : t[i] \in 1 .. s + 1
    BY <1>1, <2>1, <2>2, <2>3
  <2>6. \A i, j \in 1 .. Len(t) : i < j => t[i] < t[j]
    <3> SUFFICES ASSUME NEW i \in 1 .. Len(t), NEW j \in 1 .. Len(t), i < j PROVE t[i] < t[j]
      OBVIOUS
    <3>1. i \in 1 .. Len(q) /\ t[i] = q[i] /\ q[i] \in 1 .. s
      BY <2>1, <2>2, <2>3
    <3>2. CASE j \in 1 .. Len(q)
      BY <2>1, <2>3, <3>1, <3>2
    <3>3. CASE j = Len(q) + 1
      BY <1>1, <2>1, <3>1, <3>3
    <3> QED  BY <2>2, <3>2, <3>3
  <2>7. \A n \in 1 .. s : (\A i \in 1 .. Len(q) : n < q[i]) => \A i \in 1 .. Len(t) : n < t[i]
    BY <1>1, <2>1, <2>2
  <2>8. Dues'
    <3>1. InHand' => /\ tx'[Server].frame \in 1 .. s + 1
                     /\ \A i \in 1 .. Len(t) : tx'[Server].frame < t[i]
      <4> SUFFICES ASSUME InHand' PROVE /\ tx'[Server].frame \in 1 .. s + 1
                                        /\ \A i \in 1 .. Len(t) : tx'[Server].frame < t[i]
        OBVIOUS
      <4>1. /\ tx'[Server].frame \in 1 .. s /\ \A i \in 1 .. Len(q) : tx'[Server].frame < q[i]
        BY <1>2, <2>3
      <4>2. tx'[Server].frame \in 1 .. s + 1
        BY <1>1, <4>1
      <4> QED  BY <2>7, <4>1, <4>2
    <3>2. sent'[Server] = s + 1
      BY DEF s
    <3> QED  BY <2>5, <2>6, <3>1, <3>2 DEF Dues, t
  <2>9. Outs \subseteq Outs'
    <3> SUFFICES ASSUME NEW n \in Outs PROVE n \in Outs'
      OBVIOUS
    <3>1. n \in 1 .. s + 1 /\ \A i \in 1 .. Len(t) : n < t[i]
      BY <1>1, <2>4, <2>7
    <3> QED  BY <1>2, <2>4, <3>1 DEF Outs, t, s
  <2> QED  BY <2>8, <2>9
<1> QED  BY <1>3, <1>4 DEF Enqueue

-----------------------------------------------------------------------------
(* What the operations on sockets leave of what a client is to receive.    *)

\* In L, as compared with K, nothing new is on its way to e on c, and if something
\* was lost the server sends nothing more.
Carries(K, L, e, c) ==
    /\ \/ L[c].wire[e] = K[c].wire[e]
       \/ L[c].wire[e] = <<>> /\ (Server \notin L[c].open \/ L[c].broken)
    /\ Server \notin K[c].open \/ K[c].broken => Server \notin L[c].open \/ L[c].broken
    /\ e \in K[c].open => e \in L[c].open

\* _close_socket by another end, or of another connection.
LEMMA CloseCarries ==
    ASSUME NEW K, ConnsOK(K), NEW x \in Ends, NEW cs, NEW e \in Clients, NEW c \in Conns,
           x # e \/ c \notin cs
    PROVE  /\ Carries(K, Close(K, x, cs), e, c)
           /\ e \in K[c].open => Close(K, x, cs)[c].wire[e] = K[c].wire[e]
           /\ x = Server /\ c \in cs => Server \notin Close(K, x, cs)[c].open
<1> DEFINE k == K[c]
           n == Close(K, x, cs)[c]
<1>1. k \in Connection /\ ConnOK(k)
  BY DEF ConnsOK
<1>2. n = IF c \in cs THEN HungUp(k, x) ELSE k
  BY DEF Close
<1>3. CASE c \notin cs
  BY <1>2, <1>3 DEF Carries
<1>4. CASE c \in cs /\ k.open \subseteq {x}
  <2>1. n = NoConn /\ x # e
    BY <1>2, <1>4 DEF HungUp
  <2>2. n.open = {} /\ n.wire[e] = <<>>
    BY <2>1 DEF NoConn
  <2> QED  BY <1>4, <2>1, <2>2 DEF Carries
<1>5. CASE c \in cs /\ ~(k.open \subseteq {x})
  <2>1. n = [k EXCEPT !.open = @ \ {x}, !.wire[x] = <<>>] /\ x # e
    BY <1>2, <1>5 DEF HungUp
  <2>2. n.open = k.open \ {x} /\ n.broken = k.broken /\ n.wire[e] = k.wire[e]
    BY <1>1, <2>1 DEF Connection
  <2> QED  BY <2>1, <2>2 DEF Carries
<1> QED  BY <1>3, <1>4, <1>5

\* sendall: only the server's bytes go to a client, and only to the one that dialled.
LEMMA TransmitWire ==
    ASSUME Sound, NEW x \in Ends, NEW c \in Conns, NEW b, NEW e \in Clients, NEW d \in Conns
    PROVE  LET L == Transmit(x, c, b) IN
           /\ L[d].open = conn[d].open /\ L[d].broken = conn[d].broken
           /\ L[d].wire[e] = IF x = Server /\ d = c /\ e = conn[c].owner /\ e \in conn[c].open
                             THEN conn[c].wire[e] \o b ELSE conn[d].wire[e]
<1> DEFINE p == Peer(x, c)
           k == conn[c]
           L == Transmit(x, c, b)
           w == k.wire[p] \o b
<1>1. conn \in [Conns -> Connection] /\ k \in Connection /\ e # Server
  BY EndAssumption DEF Sound, ConnsOK, ConnOK
<1>2. p = IF x = Server THEN k.owner ELSE Server
  BY DEF Peer
<1>3. CASE p \notin k.open
  BY <1>2, <1>3 DEF Transmit
<1>4. CASE p \in k.open
  <2> DEFINE n == [k EXCEPT !.wire = [k.wire EXCEPT ![p] = w]]
  <2>1. L = [conn EXCEPT ![c] = n]
    BY <1>1, <1>4 DEF Transmit, Connection
  <2>2. p \in Ends
    BY <1>1, <1>4 DEF Connection
  <2> HIDE DEF w, p
  <2>3. n.open = k.open /\ n.broken = k.broken /\ n.wire[e] = IF e = p THEN w ELSE k.wire[e]
    BY <1>1, <2>2 DEF Connection
  <2> HIDE DEF n
  <2>4. L[d] = IF d = c THEN n ELSE conn[d]
    BY <1>1, <2>1
  <2> HIDE DEF L
  <2>5. CASE d # c
    BY <2>4, <2>5 DEF L
  <2>6. CASE d = c
    BY <1>1, <1>2, <1>4, <2>3, <2>4, <2>6 DEF L, w
  <2> QED  BY <2>5, <2>6
<1> QED  BY <1>3, <1>4

\* Bytes taken off what x has to receive on c.
LEMMA TakenWire ==
    ASSUME NEW K, ConnsOK(K), NEW x \in Ends, NEW c \in Conns, NEW w,
           NEW e \in Clients, NEW d \in Conns
    PROVE  LET L == [K EXCEPT ![c].wire[x] = w] IN
           /\ L[d].open = K[d].open /\ L[d].broken = K[d].broken
           /\ L[d].wire[e] = IF d = c /\ e = x THEN w ELSE K[d].wire[e]
<1> DEFINE k == K[c]
           n == [k EXCEPT !.wire = [k.wire EXCEPT ![x] = w]]
           L == [K EXCEPT ![c].wire[x] = w]
<1>1. K \in [Conns -> Connection] /\ k \in Connection
  BY DEF ConnsOK
<1>2. L = [K EXCEPT ![c] = n]
  BY <1>1 DEF Connection
<1>3. n.open = k.open /\ n.broken = k.broken /\ n.wire[e] = IF e = x THEN w ELSE k.wire[e]
  BY <1>1 DEF Connection
<1> HIDE DEF n
<1>4. L[d] = IF d = c THEN n ELSE K[d]
  BY <1>1, <1>2
<1> HIDE DEF L
<1>5. /\ L[d].open = K[d].open /\ L[d].broken = K[d].broken
      /\ L[d].wire[e] = IF d = c /\ e = x THEN w ELSE K[d].wire[e]
  BY <1>3, <1>4
<1> QED  BY <1>5 DEF L

-----------------------------------------------------------------------------
(* The actions again, one after the other.                                 *)

\* A connection that keeps its place in the backlog, or is shut when it loses it.
Stays(c) == /\ Queued(c)' => Queued(c)
            /\ Queued(c) => Queued(c)' \/ Shut(c)'

\* A step that brings a client nothing.
LEMMA CarriedStep ==
    ASSUME TcpInv, TcpInv', FlowInv, Buffers', NEW e \in Clients,
           Outs \subseteq Outs', received'[e] = received[e],
           sock'[e] # None => sock'[e] = sock[e] /\ buffer'[e] = buffer[e],
           rx'[e].pc = "answer" => rx[e].pc = "answer" /\ rx'[e].cand = rx[e].cand,
           \A c \in Conns : c = sock'[e] \/ (rx'[e].pc = "answer" /\ c = rx'[e].cand) =>
               Carries(conn, conn', e, c) /\ Stays(c)
    PROVE  Got(e)' /\ Flowing(e)' /\ Answering(e)'
<1>1. \A c \in Conns : Carries(conn, conn', e, c) /\ Stays(c) => Keeps(e, c)
  BY DEF Carries, Stays, Keeps, Shut
<1>2. Got(e) /\ Flowing(e) /\ Answering(e) /\ Buffers
  BY DEF FlowInv
<1> QED  BY <1>1, <1>2, ClientStep

\* A step that begins no connection.
LEMMA StaysApart ==
    ASSUME TcpInv, Apart,
           \A e \in Ends : rx'[e].cand # None =>
               /\ rx'[e].cand = rx[e].cand
               /\ sock'[e] \in {None, sock[e]}
               /\ tx'[e].sock \in {None, sock[e], tx[e].sock}
    PROVE  Apart'
  BY DEF Apart

\* A step that changes neither connections nor buffers.
LEMMA QuietStep ==
    ASSUME TcpInv, TcpInv', FlowInv, UNCHANGED <<conn, backlog, sock, buffer, received>>,
           Dues', Outs \subseteq Outs',
           \A e \in Ends : /\ rx'[e].cand # None => rx'[e].cand = rx[e].cand
                           /\ rx'[e].pc = "answer" =>
                                rx[e].pc = "answer" /\ rx'[e].cand = rx[e].cand
                           /\ tx'[e].sock \in {None, sock[e], tx[e].sock}
    PROVE  FlowInv'
<1>1. Apart'
  BY StaysApart DEF FlowInv
<1>2. Buffers'
  BY DEF FlowInv, Buffers
<1>3. \A c : (Queued(c)' <=> Queued(c)) /\ Stays(c)
  BY DEF Queued, Stays
<1>4. \A e, c : Carries(conn, conn', e, c)
  BY DEF Carries
<1>5. ASSUME NEW e \in Clients PROVE Got(e)' /\ Flowing(e)' /\ Answering(e)'
  BY <1>2, <1>3, <1>4, CarriedStep
<1> QED  BY <1>1, <1>2, <1>5 DEF FlowInv

\* A step of a receive thread that changes neither.
LEMMA RxQuiet ==
    ASSUME TcpInv, TcpInv', FlowInv,
           UNCHANGED <<conn, backlog, sock, buffer, received, tx, queue, sent>>,
           NEW e \in Ends, NEW p, NEW c, NEW q, Rx(e, p, c, q), p # "answer",
           c # None => c = rx[e].cand
    PROVE  FlowInv'
<1>1. /\ rx'[e] = [pc |-> p, cand |-> c, sock |-> q]
      /\ \A x \in Ends : x # e => rx'[x] = rx[x]
  BY DEF Rx, TcpInv, Shape
<1>2. Dues' /\ Outs' = Outs
  BY ServerRests DEF FlowInv
<1>3. \A x \in Ends : /\ rx'[x].cand # None => rx'[x].cand = rx[x].cand
                      /\ rx'[x].pc = "answer" => rx[x].pc = "answer" /\ rx'[x].cand = rx[x].cand
  BY <1>1
<1> QED  BY <1>2, <1>3, QuietStep

\* RxTop, RxSocket, RecvTimeout, HandshakeFails and Listen.
LEMMA RxQuietActions ==
    ASSUME TcpInv, TcpInv', FlowInv, NEW e \in Ends,
           RxTop(e) \/ RxSocket(e) \/ RecvTimeout(e) \/ HandshakeFails(e) \/ (e = Server /\ Listen)
    PROVE  FlowInv'
<1> USE DEF flags, link, kernel, history
<1>1. CASE RxTop(e)
  <2> DEFINE p == IF ~running[e] THEN "done" ELSE IF connected[e] THEN "read" ELSE "connect"
  <2>1. p # "answer"
    OBVIOUS
  <2>2. Rx(e, p, None, None)
    BY <1>1 DEF RxTop
  <2> HIDE DEF p
  <2> QED  BY <1>1, <2>1, <2>2, RxQuiet DEF RxTop
<1>2. CASE RxSocket(e)
  BY <1>2, RxQuiet DEF RxSocket
<1>3. CASE RecvTimeout(e)
  BY <1>3, RxQuiet DEF RecvTimeout
<1>4. CASE HandshakeFails(e)
  BY <1>4, RxQuiet DEF HandshakeFails
<1>5. CASE e = Server /\ Listen
  BY <1>5, RxQuiet DEF Listen
<1> QED  BY <1>1, <1>2, <1>3, <1>4, <1>5

\* A step of a transmit thread, or of send(), that touches no connection.
LEMMA TxQuiet ==
    ASSUME TcpInv, TcpInv', FlowInv, UNCHANGED <<conn, backlog, sock, buffer, received, rx>>,
           NEW e \in Ends,
           tx' = tx \/ \E p, f : \E q \in {None, sock[e], tx[e].sock} : Tx(e, p, f, q),
           \A x \in Ends : x # e => queue'[x] = queue[x] /\ sent'[x] = sent[x],
           e = Server => Dues' /\ Outs \subseteq Outs'
    PROVE  FlowInv'
<1>1. \A x \in Ends : /\ x # e => tx'[x] = tx[x]
                      /\ tx'[x].sock \in {None, sock[x], tx[x].sock}
  <2>1. CASE tx' = tx
    BY <2>1
  <2>2. ASSUME NEW p, NEW f, NEW q \in {None, sock[e], tx[e].sock}, Tx(e, p, f, q)
        PROVE  \A x \in Ends : /\ x # e => tx'[x] = tx[x]
                               /\ tx'[x].sock \in {None, sock[x], tx[x].sock}
    BY <2>2 DEF Tx, TcpInv, Shape
  <2> QED  BY <2>1, <2>2
<1>2. Dues' /\ Outs \subseteq Outs'
  <2>1. CASE e # Server
    BY <1>1, <2>1, ServerRests DEF FlowInv
  <2> QED  BY <2>1
<1> QED  BY <1>1, <1>2, QuietStep

\* Where the transmit thread is after a round.
LEMMA RoundEnds ==
    ASSUME TcpInv, NEW e \in Ends, TxAgain(e)
    PROVE  /\ tx'[e].pc \notin {"socket", "send"} /\ tx'[e].sock = None
           /\ \A x \in Ends : x # e => tx'[x] = tx[x]
           /\ \E p, f : Tx(e, p, f, None)
<1> DEFINE p == IF running[e] THEN "get" ELSE "done"
<1>1. Tx(e, p, 0, None) /\ p \notin {"socket", "send"}
  BY DEF TxAgain
<1> HIDE DEF p
<1> QED  BY <1>1 DEF Tx, TcpInv, Shape

\* send(), and TxGet, TxSocket, TxClear and TxEnds.
LEMMA TxQuietActions ==
    ASSUME TcpInv, TcpInv', FlowInv, NEW e \in Ends,
           Send(e) \/ TxGet(e) \/ TxSocket(e) \/ TxClear(e) \/ TxEnds(e)
    PROVE  FlowInv'
<1>0. Dues /\ tx \in [Ends -> [pc : TxPcs, frame : Nat, sock : Socket]]
      /\ queue \in [Ends -> Seq(Nat)] /\ sent \in [Ends -> Nat] /\ Server \in Ends
  BY DEF FlowInv, TcpInv, Shape
<1>1. CASE Send(e)
  <2>1. /\ UNCHANGED <<conn, backlog, sock, buffer, received, rx>> /\ tx' = tx
        /\ \A x \in Ends : x # e => queue'[x] = queue[x] /\ sent'[x] = sent[x]
        /\ sent'[e] = sent[e] + 1 /\ queue'[e] = Enqueue(queue[e], sent[e] + 1)
    BY <1>0, <1>1 DEF Send, link, kernel
  <2>2. e = Server => Dues' /\ Outs \subseteq Outs'
    BY <1>0, <2>1, ServerSends
  <2> QED  BY <2>1, <2>2, TxQuiet
<1>2. CASE TxGet(e)
  <2>1. /\ UNCHANGED <<conn, backlog, sock, buffer, received, rx, sent>>
        /\ \A x \in Ends : x # e => queue'[x] = queue[x]
        /\ queue'[e] = Tail(queue[e]) /\ queue[e] # <<>> /\ tx[e].pc = "get"
    BY <1>0, <1>2 DEF TxGet, link, kernel, history
  <2>2. \/ Tx(e, "socket", Head(queue[e]), None)
        \/ TxAgain(e)
    BY <1>2 DEF TxGet
  <2>3. CASE Tx(e, "socket", Head(queue[e]), None)
    <3>1. tx'[e].frame = Head(queue[e])
      BY <1>0, <2>3 DEF Tx
    <3>2. e = Server => Dues' /\ Outs \subseteq Outs'
      BY <1>0, <2>1, <3>1, ServerTakes DEF InHand
    <3> QED  BY <2>1, <2>3, <3>2, TxQuiet
  <2>4. CASE TxAgain(e)
    <3>1. tx'[e].pc \notin {"socket", "send"} /\ \E p, f : Tx(e, p, f, None)
      BY <2>4, RoundEnds
    <3>2. e = Server => Dues' /\ Outs \subseteq Outs'
      BY <1>0, <2>1, <3>1, ServerTakes DEF InHand
    <3> QED  BY <2>1, <3>1, <3>2, TxQuiet
  <2> QED  BY <2>2, <2>3, <2>4
<1>3. CASE TxSocket(e)
  <2>1. /\ UNCHANGED <<conn, backlog, sock, buffer, received, rx, sent, queue>>
        /\ tx[e].pc = "socket"
    BY <1>3 DEF TxSocket, link, kernel, history
  <2>2. Tx(e, "clear", 0, None) \/ Tx(e, "send", tx[e].frame, sock[e])
    BY <1>3 DEF TxSocket
  <2>3. CASE Tx(e, "clear", 0, None)
    <3>1. tx'[e].pc = "clear"
      BY <1>0, <2>3 DEF Tx
    <3>2. e = Server => Dues' /\ Outs \subseteq Outs'
      BY <1>0, <2>1, <3>1, ServerDone DEF InHand
    <3> QED  BY <2>1, <2>3, <3>2, TxQuiet
  <2>4. CASE Tx(e, "send", tx[e].frame, sock[e])
    <3>1. tx'[e].pc = "send" /\ tx'[e].frame = tx[e].frame
      BY <1>0, <2>4 DEF Tx
    <3>2. e = Server => Dues' /\ Outs \subseteq Outs'
      BY <1>0, <2>1, <3>1, ServerHolds DEF InHand
    <3> QED  BY <2>1, <2>4, <3>2, TxQuiet
  <2> QED  BY <2>2, <2>3, <2>4
<1>4. CASE TxClear(e)
  <2>1. /\ UNCHANGED <<conn, backlog, sock, buffer, received, rx, sent, queue>>
        /\ TxAgain(e)
    BY <1>4 DEF TxClear, kernel, history
  <2>2. tx'[e].pc \notin {"socket", "send"} /\ \E p, f : Tx(e, p, f, None)
    BY <2>1, RoundEnds
  <2>3. e = Server => Dues' /\ Outs \subseteq Outs'
    BY <1>0, <2>1, <2>2, ServerDone DEF InHand
  <2> QED  BY <2>1, <2>2, <2>3, TxQuiet
<1>5. CASE TxEnds(e)
  <2>1. /\ UNCHANGED <<conn, backlog, sock, buffer, received, rx, sent, queue>>
        /\ Tx(e, "done", 0, None)
    BY <1>5 DEF TxEnds, link, kernel, history
  <2>2. tx'[e].pc = "done"
    BY <1>0, <2>1 DEF Tx
  <2>3. e = Server => Dues' /\ Outs \subseteq Outs'
    BY <1>0, <2>1, <2>2, ServerDone DEF InHand
  <2> QED  BY <2>1, <2>3, TxQuiet
<1> QED  BY <1>1, <1>2, <1>3, <1>4, <1>5

\* stop() is called.
LEMMA StopBeginsFlow ==
    ASSUME TcpInv, TcpInv', FlowInv, NEW e \in Ends, StopBegins(e)
    PROVE  FlowInv'
<1>1. UNCHANGED <<conn, backlog, sock, buffer, received, rx, tx, queue, sent>>
  BY DEF StopBegins, link, kernel
<1>2. Dues' /\ Outs' = Outs
  BY <1>1, ServerRests DEF FlowInv
<1> QED  BY <1>1, <1>2, QuietStep

\* A step of the end x that closes connections, and brings the clients nothing.
LEMMA ClosingStep ==
    ASSUME TcpInv, TcpInv', FlowInv, Apart', Buffers', Dues', Outs \subseteq Outs',
           \A e \in Clients : received'[e] = received[e],
           NEW x \in Ends, NEW cs, \A c \in Conns : Stays(c),
           \A e \in Clients, c \in Conns : x # e \/ c \notin cs => Carries(conn, conn', e, c),
           \A e \in Clients : e # x =>
               sock'[e] = sock[e] /\ buffer'[e] = buffer[e] /\ rx'[e] = rx[e],
           x \in Clients /\ sock'[x] # None =>
               sock'[x] = sock[x] /\ buffer'[x] = buffer[x] /\ sock[x] \notin cs,
           x \in Clients /\ rx'[x].pc = "answer" =>
               rx[x].pc = "answer" /\ rx'[x].cand = rx[x].cand /\ rx[x].cand \notin cs
    PROVE  FlowInv'
<1> SUFFICES ASSUME NEW e \in Clients PROVE Got(e)' /\ Flowing(e)' /\ Answering(e)'
  BY DEF FlowInv
<1>1. ASSUME NEW c \in Conns, x # e \/ c \notin cs PROVE Carries(conn, conn', e, c)
  BY <1>1
<1>2. CASE x # e
  <2>1. sock'[e] = sock[e] /\ buffer'[e] = buffer[e] /\ rx'[e] = rx[e]
    BY <1>2
  <2> QED  BY <1>1, <1>2, <2>1, CarriedStep
<1>3. CASE x = e
  <2>1. \A c \in Conns : c = sock'[e] => c \notin cs
    BY <1>3, EndAssumption
  <2>2. \A c \in Conns : c = rx'[e].cand /\ rx'[e].pc = "answer" => c \notin cs
    BY <1>3
  <2>3. /\ sock'[e] # None => sock'[e] = sock[e] /\ buffer'[e] = buffer[e]
        /\ rx'[e].pc = "answer" => rx[e].pc = "answer" /\ rx'[e].cand = rx[e].cand
    BY <1>3
  <2> QED  BY <1>1, <2>1, <2>2, <2>3, CarriedStep
<1> QED  BY <1>2, <1>3

\* Such a step of a receive thread, which then holds no other socket.
LEMMA RxClosingStep ==
    ASSUME TcpInv, TcpInv', FlowInv, UNCHANGED <<received, queue, sent, tx, backlog>>,
           NEW x \in Ends, NEW p, p # "answer", Rx(x, p, None, None),
           NEW cs, conn' = Close(conn, x, cs),
           \A y \in Ends : y # x => sock'[y] = sock[y] /\ buffer'[y] = buffer[y],
           Buffers',
           x \in Clients /\ sock'[x] # None =>
               sock'[x] = sock[x] /\ buffer'[x] = buffer[x] /\ sock[x] \notin cs
    PROVE  FlowInv'
<1>1. /\ rx'[x] = [pc |-> p, cand |-> None, sock |-> None]
      /\ \A y \in Ends : y # x => rx'[y] = rx[y]
  BY DEF Rx, TcpInv, Shape
<1>2. Dues' /\ Outs' = Outs
  BY ServerRests DEF FlowInv
<1>3. Apart'
  <2>1. \A e \in Ends : rx'[e].cand # None =>
               /\ rx'[e].cand = rx[e].cand
               /\ sock'[e] \in {None, sock[e]}
               /\ tx'[e].sock \in {None, sock[e], tx[e].sock}
    BY <1>1
  <2> QED  BY <2>1, StaysApart DEF FlowInv
<1>4. \A c \in Conns : Stays(c)
  BY DEF Stays, Queued
<1>5. \A e \in Clients, c \in Conns : x # e \/ c \notin cs => Carries(conn, conn', e, c)
  BY CloseCarries DEF TcpInv, Sound
<1>6. \A e \in Clients : e # x =>
               sock'[e] = sock[e] /\ buffer'[e] = buffer[e] /\ rx'[e] = rx[e]
  BY <1>1
<1>7. rx'[x].pc # "answer"
  BY <1>1
<1> QED  BY <1>2, <1>3, <1>4, <1>5, <1>6, <1>7, ClosingStep

\* RecvError, ConnectReturns, HandshakeRejected and InstallAccepted.
LEMMA RxClosingActions ==
    ASSUME TcpInv, TcpInv', FlowInv, NEW e \in Ends,
           \/ RecvError(e) \/ ConnectReturns(e) \/ HandshakeRejected(e)
           \/ e = Server /\ InstallAccepted
    PROVE  FlowInv'
<1>0. Buffers /\ Apart /\ sock \in [Ends -> Socket]
  BY DEF FlowInv, TcpInv, Shape
<1>1. CASE RecvError(e)
  <2>1. /\ UNCHANGED <<received, queue, sent, tx, backlog, buffer>>
        /\ Rx(e, "top", None, None) /\ conn' = Close(conn, e, {sock[e]})
        /\ sock' = [sock EXCEPT ![e] = None]
    BY <1>1 DEF RecvError, DropConnection, kernel, history
  <2>2. Buffers' /\ sock'[e] = None /\ \A y \in Ends : y # e => sock'[y] = sock[y]
    BY <1>0, <2>1 DEF Buffers
  <2> QED  BY <2>1, <2>2, RxClosingStep
<1>2. CASE ConnectReturns(e)
  <2>1. /\ UNCHANGED <<received, queue, sent, tx, backlog, buffer, sock>>
        /\ Rx(e, "read", None, None) /\ conn' = Close(conn, e, {rx[e].cand})
    BY <1>2 DEF ConnectReturns, link, kernel, history
  <2>2. Buffers' /\ (sock'[e] # None => sock[e] \notin {rx[e].cand})
    BY <1>0, <2>1 DEF Buffers, Apart
  <2> QED  BY <2>1, <2>2, RxClosingStep
<1>3. CASE HandshakeRejected(e)
  <2>1. /\ UNCHANGED <<received, queue, sent, tx, backlog, buffer, sock>>
        /\ Rx(e, "done", None, None) /\ conn' = Close(conn, e, {rx[e].cand})
    BY <1>3 DEF HandshakeRejected, link, kernel, history
  <2>2. Buffers' /\ (sock'[e] # None => sock[e] \notin {rx[e].cand})
    BY <1>0, <2>1 DEF Buffers, Apart
  <2> QED  BY <2>1, <2>2, RxClosingStep
<1>4. CASE e = Server /\ InstallAccepted
  <2>1. /\ UNCHANGED <<received, queue, sent, tx, backlog>> /\ e \notin Clients
        /\ Rx(e, "read", None, None) /\ conn' = Close(conn, e, {sock[e]})
        /\ sock' = [sock EXCEPT ![e] = rx[e].cand] /\ buffer' = [buffer EXCEPT ![e] = <<>>]
    BY <1>4, EndAssumption DEF InstallAccepted, Install, kernel, history
  <2>2. \A y \in Ends : y # e => sock'[y] = sock[y] /\ buffer'[y] = buffer[y]
    BY <1>0, <2>1 DEF Buffers
  <2>3. Buffers'
    BY <1>0, <2>1, EmptySeq DEF Buffers
  <2> QED  BY <2>1, <2>2, <2>3, RxClosingStep
<1> QED  BY <1>1, <1>2, <1>3, <1>4

\* The end of stop().
LEMMA StopEndsFlow ==
    ASSUME TcpInv, TcpInv', FlowInv, NEW e \in Ends, StopEnds(e)
    PROVE  FlowInv'
<1>0. Buffers /\ Apart /\ sock \in [Ends -> Socket] /\ backlog \in Seq(Conns)
  BY DEF FlowInv, TcpInv, Shape
<1> DEFINE cs == ClosedByStop(e)
<1>1. /\ UNCHANGED <<received, queue, sent, tx, rx, buffer>>
      /\ conn' = Close(conn, e, cs) /\ sock' = [sock EXCEPT ![e] = None]
      /\ IF e = Server THEN backlog' = <<>> ELSE backlog' = backlog
  BY DEF StopEnds, kernel
<1>2. Dues' /\ Outs' = Outs
  BY <1>1, ServerRests DEF FlowInv
<1>3. sock'[e] = None /\ \A y \in Ends : y # e => sock'[y] = sock[y]
  BY <1>0, <1>1
<1>4. Apart'
  <2>1. \A y \in Ends : sock'[y] \in {None, sock[y]}
    BY <1>3
  <2> QED  BY <1>0, <1>1, <2>1, StaysApart
<1>5. ASSUME NEW c \in Conns PROVE Stays(c)
  <2>1. CASE e # Server
    BY <1>1, <2>1 DEF Stays, Queued
  <2>2. CASE e = Server
    <3>1. ~Queued(c)'
      BY <1>1, <2>2 DEF Queued
    <3>2. Queued(c) => c \in cs
      <4>1. DOMAIN backlog = 1 .. Len(backlog)
        BY <1>0, LenProperties
      <4> QED  BY <2>2, <4>1 DEF Queued, ClosedByStop
    <3>3. c \in cs => conn'[c].open = conn[c].open \ {Server}
      <4>1. Lessens(conn, conn', e, cs, {})
        BY <1>1, CloseOK DEF TcpInv, Sound
      <4> QED  BY <2>2, <4>1 DEF Lessens
    <3> QED  BY <3>1, <3>2, <3>3 DEF Stays, Shut
  <2> QED  BY <2>1, <2>2
<1>6. /\ Buffers'
      /\ \A d \in Clients, c \in Conns : e # d \/ c \notin cs => Carries(conn, conn', d, c)
  BY <1>0, <1>1, CloseCarries DEF TcpInv, Sound, Buffers
<1>7. e \in Clients => cs = {sock[e]}
  BY EndAssumption DEF ClosedByStop
<1>8. e \in Clients /\ rx'[e].pc = "answer" =>
               rx[e].pc = "answer" /\ rx'[e].cand = rx[e].cand /\ rx[e].cand \notin cs
  BY <1>0, <1>1, <1>7 DEF Apart, TcpInv, Phases
<1>9. \A y \in Clients : y # e => sock'[y] = sock[y] /\ buffer'[y] = buffer[y] /\ rx'[y] = rx[y]
  BY <1>1, <1>3
<1> HIDE DEF cs
<1> QED  BY <1>1, <1>2, <1>3, <1>4, <1>5, <1>6, <1>8, <1>9, ClosingStep

\* The network breaks a connection.
LEMMA ResetFlow ==
    ASSUME TcpInv, TcpInv', FlowInv, NEW c \in Conns, Reset(c)
    PROVE  FlowInv'
<1>1. /\ UNCHANGED <<received, queue, sent, tx, rx, buffer, sock, backlog>>
      /\ conn' = [conn EXCEPT ![c].broken = TRUE, ![c].wire = [e \in Ends |-> <<>>]]
  BY DEF Reset, link, kernel
<1>2. conn \in [Conns -> Connection] /\ conn[c] \in Connection
  BY DEF TcpInv, Shape
<1>3. /\ conn'[c].open = conn[c].open /\ conn'[c].broken = TRUE
      /\ \A e \in Ends : conn'[c].wire[e] = <<>>
  BY <1>1, <1>2 DEF Connection
<1>4. \A d \in Conns : d # c => conn'[d] = conn[d]
  BY <1>1, <1>2
<1>5. \A d \in Conns, e \in Clients : Carries(conn, conn', e, d)
  BY <1>3, <1>4 DEF Carries
<1>6. \A d \in Conns : Stays(d)
  BY <1>1 DEF Stays, Queued
<1>7. Dues' /\ Outs' = Outs
  BY <1>1, ServerRests DEF FlowInv
<1>8. Apart' /\ Buffers'
  BY <1>1 DEF FlowInv, Apart, Buffers
<1>9. ASSUME NEW e \in Clients PROVE Got(e)' /\ Flowing(e)' /\ Answering(e)'
  BY <1>1, <1>5, <1>6, <1>7, <1>8, CarriedStep
<1> QED  BY <1>7, <1>8, <1>9 DEF FlowInv

\* What recv returned, and what it makes of the buffer.
LEMMA RecvFacts ==
    ASSUME TcpInv, FlowInv, NEW e \in Ends, RecvData(e)
    PROVE  LET c == rx[e].sock
               v == conn[c].wire[e]
           IN  /\ c \in Conns /\ (c = sock[e] \/ e = Server)
               /\ v \in Seq(Bytes)
               /\ \E k \in 1 .. Len(v) :
                    LET b == buffer[e] \o SubSeq(v, 1, k) IN
                    /\ conn' = [conn EXCEPT ![c].wire[e] = SubSeq(v, k + 1, Len(v))]
                    /\ received' = [received EXCEPT ![e] = received[e] \o WholeFrames(b)]
                    /\ buffer' = [buffer EXCEPT ![e] = RestOf(b)]
                    /\ RestOf(b) \in Seq(Bytes) /\ WholeFrames(b) \in Seq(Bytes \X Bytes)
                    /\ received[e] \o WholeFrames(b) \in Seq(Bytes \X Bytes)
<1> DEFINE c == rx[e].sock
           v == conn[c].wire[e]
<1>1. EndFacts(e)
  BY Typed
<1>2. c \in Conns /\ rx[e].cand = None /\ e \in conn[c].open
  BY <1>1 DEF RecvData, EndFacts, TcpInv, Phases, Usable
<1>3. c = sock[e] \/ e = Server
  BY <1>2, EndAssumption DEF TcpInv, Held
<1>4. v \in Seq(Bytes) /\ buffer[e] \in Seq(Bytes) /\ received[e] \in Seq(Bytes \X Bytes)
  BY <1>2 DEF TcpInv, Shape, Connection, FlowInv, Buffers
<1>5. PICK k \in 1 .. Len(v) :
        LET b == buffer[e] \o SubSeq(v, 1, k) IN
        /\ conn' = [conn EXCEPT ![c].wire[e] = SubSeq(v, k + 1, Len(v))]
        /\ received' = [received EXCEPT ![e] = received[e] \o WholeFrames(b)]
        /\ buffer' = [buffer EXCEPT ![e] = RestOf(b)]
  BY DEF RecvData, Incoming
<1> HIDE DEF v, c
<1> DEFINE h == SubSeq(v, 1, k)
           b == buffer[e] \o h
<1>6. h \in Seq(Bytes)
  <2>1. 0 \in Nat /\ k \in Nat /\ 0 <= k /\ k <= Len(v) /\ 0 + 1 = 1
    BY <1>4, LenProperties
  <2>2. SubSeq(v, 0 + 1, k) \in Seq(Bytes)
    BY <1>4, <2>1, Part
  <2> QED  BY <2>1, <2>2
<1> HIDE DEF h
<1>7. b \in Seq(Bytes)
  BY <1>4, <1>6, ConcatProperties
<1> HIDE DEF b
<1>8. RestOf(b) \in Seq(Bytes) /\ WholeFrames(b) \in Seq(Bytes \X Bytes)
  BY <1>7, Drained
<1>9. received[e] \o WholeFrames(b) \in Seq(Bytes \X Bytes)
  BY <1>4, <1>8, ConcatProperties
<1> QED  BY <1>2, <1>3, <1>4, <1>5, <1>8, <1>9 DEF b, h, v, c

\* recv at the client whose connection it is: what it takes off the wire goes
\* through the buffer.
LEMMA RecvOwn ==
    ASSUME TcpInv, TcpInv', FlowInv, NEW e \in Clients, RecvData(e), Outs' = Outs,
           backlog' = backlog, sock' = sock, rx'[e].pc = "top"
    PROVE  Got(e)' /\ Flowing(e)' /\ Answering(e)'
<1>0. e \in Ends /\ e # Server
  BY EndAssumption
<1> PICK c \in Conns : c = rx[e].sock
  BY <1>0, RecvFacts
<1> DEFINE v == conn[c].wire[e]
           u == buffer[e]
           r == received[e]
<1>1. c = sock[e] /\ v \in Seq(Bytes)
  BY <1>0, RecvFacts
<1>2. PICK k \in 1 .. Len(v) :
        LET b == u \o SubSeq(v, 1, k) IN
        /\ conn' = [conn EXCEPT ![c].wire[e] = SubSeq(v, k + 1, Len(v))]
        /\ received' = [received EXCEPT ![e] = r \o WholeFrames(b)]
        /\ buffer' = [buffer EXCEPT ![e] = RestOf(b)]
  BY <1>0, RecvFacts
<1> DEFINE b == u \o SubSeq(v, 1, k)
           t == SubSeq(v, k + 1, Len(v))
<1>3. /\ buffer \in [Ends -> Seq(Bytes)] /\ received \in [Ends -> Seq(Bytes \X Bytes)]
      /\ u \in Seq(Bytes) /\ r \in Seq(Bytes \X Bytes)
  BY DEF FlowInv, Buffers
<1>4. /\ ~Queued(c) /\ Flow(u \o v, r, Outs) /\ (Even(u \o v) \/ Shut(c))
      /\ Whole(r, Outs)
  BY <1>1 DEF FlowInv, Flowing, Got
<1>5. /\ received'[e] = r \o WholeFrames(b) /\ buffer'[e] = RestOf(b)
  BY <1>2, <1>3
<1>6. /\ conn'[c].open = conn[c].open /\ conn'[c].broken = conn[c].broken
      /\ conn'[c].wire[e] = t
  <2>1. conn' = [conn EXCEPT ![c].wire[e] = t]
    BY <1>2
  <2>2. conn \in [Conns -> Connection] /\ conn[c] \in Connection
    BY DEF TcpInv, Shape
  <2> HIDE DEF t
  <2> QED  BY <1>0, <2>1, <2>2 DEF Connection
<1>7. /\ Flow(RestOf(b) \o t, r \o WholeFrames(b), Outs)
      /\ Whole(r \o WholeFrames(b), Outs)
      /\ Even(u \o v) => Even(RestOf(b) \o t)
  <2>1. Outs \in SUBSET Nat
    BY DEF Outs
  <2> HIDE DEF u, v, r
  <2> QED  BY <1>1, <1>2, <1>3, <1>4, <2>1, FlowReceived
<1> HIDE DEF b, t, v, u, r
<1>8. Got(e)'
  BY <1>5, <1>7 DEF Got
<1>9. Flowing(e)'
  <2>1. Queued(c)' <=> Queued(c)
    BY DEF Queued
  <2>2. Shut(c)' <=> Shut(c)
    BY <1>6 DEF Shut
  <2>3. Flow(buffer'[e] \o conn'[c].wire[e], received'[e], Outs')
    BY <1>5, <1>6, <1>7
  <2>4. Even(buffer'[e] \o conn'[c].wire[e]) \/ Shut(c)'
    BY <1>4, <1>5, <1>6, <1>7, <2>2
  <2> QED  BY <1>1, <1>4, <2>1, <2>3, <2>4, EndAssumption DEF Flowing
<1>10. Answering(e)'
  BY DEF Answering
<1> QED  BY <1>8, <1>9, <1>10

\* recv returns data.
LEMMA RecvDataFlow ==
    ASSUME TcpInv, TcpInv', FlowInv, NEW e \in Ends, RecvData(e)
    PROVE  FlowInv'
<1>0. Buffers /\ Apart /\ rx[e].pc = "recv"
  BY DEF FlowInv, RecvData
<1>1. /\ UNCHANGED <<sock, queue, sent, tx, backlog>> /\ Rx(e, "top", None, None)
  BY DEF RecvData, link, kernel
<1>2. /\ rx'[e] = [pc |-> "top", cand |-> None, sock |-> None]
      /\ \A x \in Ends : x # e => rx'[x] = rx[x]
  BY <1>1 DEF Rx, TcpInv, Shape
<1>3. Dues' /\ Outs' = Outs
  BY <1>1, ServerRests DEF FlowInv
<1>4. Apart'
  BY <1>0, <1>1, <1>2, StaysApart
<1> DEFINE c == rx[e].sock
           v == conn[c].wire[e]
<1>5. PICK k, b :
        /\ k \in 1 .. Len(v)
        /\ conn' = [conn EXCEPT ![c].wire[e] = SubSeq(v, k + 1, Len(v))]
        /\ received' = [received EXCEPT ![e] = received[e] \o WholeFrames(b)]
        /\ buffer' = [buffer EXCEPT ![e] = RestOf(b)]
        /\ RestOf(b) \in Seq(Bytes)
        /\ received[e] \o WholeFrames(b) \in Seq(Bytes \X Bytes)
  BY RecvFacts
<1>6. Buffers' /\ \A x \in Ends : x # e => buffer'[x] = buffer[x] /\ received'[x] = received[x]
  BY <1>0, <1>5 DEF Buffers
<1>7. c \in Conns
  BY RecvFacts
<1>8. ASSUME NEW d \in Clients, d # e PROVE Got(d)' /\ Flowing(d)' /\ Answering(d)'
  <2>1. \A y \in Conns : Carries(conn, conn', d, y)
    <3>1. ConnsOK(conn)
      BY DEF TcpInv, Sound
    <3>2. ASSUME NEW y \in Conns
          PROVE  /\ conn'[y].open = conn[y].open /\ conn'[y].broken = conn[y].broken
                 /\ conn'[y].wire[d] = conn[y].wire[d]
      <4> DEFINE w == SubSeq(v, k + 1, Len(v))
      <4>1. conn' = [conn EXCEPT ![c].wire[e] = w]
        BY <1>5
      <4> HIDE DEF w, c
      <4> QED  BY <1>7, <1>8, <3>1, <4>1, TakenWire
    <3> QED  BY <3>2 DEF Carries
  <2>2. \A y \in Conns : Stays(y)
    BY <1>1 DEF Stays, Queued
  <2>3. /\ sock'[d] = sock[d] /\ buffer'[d] = buffer[d] /\ rx'[d] = rx[d]
        /\ received'[d] = received[d]
    BY <1>1, <1>2, <1>6, <1>8
  <2> QED  BY <1>3, <1>6, <2>1, <2>2, <2>3, CarriedStep
<1>9. e \in Clients => Got(e)' /\ Flowing(e)' /\ Answering(e)'
  BY <1>1, <1>2, <1>3, RecvOwn
<1> QED  BY <1>3, <1>4, <1>6, <1>8, <1>9 DEF FlowInv

\* A step of the server that may write to a client.
LEMMA WritingStep ==
    ASSUME TcpInv, TcpInv', FlowInv, UNCHANGED <<rx, buffer, received>>,
           Apart', Dues', Outs \subseteq Outs',
           \A d \in Clients : sock'[d] = sock[d],
           \A d \in Clients, c \in Conns : Keeps(d, c)
    PROVE  FlowInv'
<1>1. Buffers /\ Buffers'
  BY DEF FlowInv, Buffers
<1>2. ASSUME NEW d \in Clients PROVE Got(d)' /\ Flowing(d)' /\ Answering(d)'
  <2>1. Got(d) /\ Flowing(d) /\ Answering(d)
    BY DEF FlowInv
  <2> QED  BY <1>1, <2>1, ClientStep
<1> QED  BY <1>1, <1>2 DEF FlowInv

\* The connection a transmit thread can write to is that of its link.
LEMMA WritesToLink ==
    ASSUME TcpInv, FlowInv, NEW e \in Ends, tx[e].pc = "send", Usable(e, tx[e].sock)
    PROVE  /\ tx[e].sock \in Conns /\ tx[e].sock = sock[e]
           /\ e = Server => ~Shut(tx[e].sock) /\ ~Queued(tx[e].sock)
<1>1. EndFacts(e)
  BY Typed
<1>2. tx[e].sock \in Conns /\ e \in conn[tx[e].sock].open
  BY <1>1 DEF EndFacts, TcpInv, Phases, Usable
<1>3. e = Server => ~Queued(tx[e].sock)
  BY <1>1 DEF EndFacts, Refs
<1>4. tx[e].sock # rx[e].cand
  BY <1>2, EndAssumption DEF FlowInv, Apart
<1>5. tx[e].sock = sock[e]
  BY <1>2, <1>3, <1>4 DEF TcpInv, Held
<1> QED  BY <1>2, <1>3, <1>5 DEF Shut, Usable

\* A round of the transmit thread ends.
LEMMA RoundFacts ==
    ASSUME TcpInv, FlowInv, NEW e \in Ends, tx[e].pc = "send", TxAgain(e),
           UNCHANGED <<queue, sent, rx, backlog, received, buffer>>,
           \A x \in Ends : sock'[x] \in {None, sock[x]}
    PROVE  /\ Dues' /\ Outs \subseteq Outs' /\ Apart' /\ Buffers'
           /\ \A c \in Conns : Stays(c)
           /\ e = Server => tx[e].frame \in Outs' /\ \A n \in Outs : n < tx[e].frame
<1>0. Dues /\ Apart /\ Buffers /\ Server \in Ends
  BY DEF FlowInv
<1>1. /\ tx'[e].pc \notin {"socket", "send"} /\ tx'[e].sock = None
      /\ \A x \in Ends : x # e => tx'[x] = tx[x]
  BY RoundEnds
<1>2. CASE e = Server
  <2>1. InHand /\ ~InHand'
    BY <1>1, <1>2 DEF InHand
  <2> QED  BY <1>0, <1>1, <1>2, <2>1, ServerDone, StaysApart DEF Buffers, Stays, Queued
<1>3. CASE e # Server
  <2>1. Dues' /\ Outs' = Outs
    BY <1>0, <1>1, <1>3, ServerRests
  <2> QED  BY <1>0, <1>1, <1>3, <2>1, StaysApart DEF Buffers, Stays, Queued
<1> QED  BY <1>2, <1>3

\* What a client writes does not concern the clients.
LEMMA ClientWrites ==
    ASSUME TcpInv, NEW e \in Clients, NEW c \in Conns, NEW b, NEW K, K = Transmit(e, c, b)
    PROVE  \A d \in Clients, y \in Conns : Carries(conn, K, d, y) /\ K[y].open = conn[y].open
                                           /\ K[y].broken = conn[y].broken
                                           /\ K[y].wire[d] = conn[y].wire[d]
<1>1. e # Server /\ e \in Ends /\ Sound
  BY EndAssumption DEF TcpInv
<1>2. ASSUME NEW d \in Clients, NEW y \in Conns
      PROVE  /\ K[y].open = conn[y].open /\ K[y].broken = conn[y].broken
             /\ K[y].wire[d] = conn[y].wire[d]
  BY <1>1, TransmitWire
<1> QED  BY <1>2 DEF Carries

\* In K the bytes b may have been added to what d has to receive on c.
Writes(K, c, b, d, y) ==
    /\ K[y].open = conn[y].open /\ K[y].broken = conn[y].broken
    /\ \/ K[y].wire[d] = conn[y].wire[d]
       \/ y = c /\ d \in conn[c].open /\ K[y].wire[d] = conn[y].wire[d] \o b

\* What the server writes concerns the client at the other end of the connection.
LEMMA ServerWrites ==
    ASSUME TcpInv, NEW c \in Conns, NEW b, NEW K, K = Transmit(Server, c, b)
    PROVE  \A d \in Clients, y \in Conns : Writes(K, c, b, d, y)
<1>1. Server \in Ends /\ Sound
  BY DEF TcpInv
<1>2. ASSUME NEW d \in Clients, NEW y \in Conns
      PROVE  /\ K[y].open = conn[y].open /\ K[y].broken = conn[y].broken
             /\ K[y].wire[d] =
                  IF Server = Server /\ y = c /\ d = conn[c].owner /\ d \in conn[c].open
                  THEN conn[c].wire[d] \o b ELSE conn[y].wire[d]
  BY <1>1, TransmitWire
<1> QED  BY <1>2 DEF Writes

\* A frame is written.
LEMMA TxSendFlow ==
    ASSUME TcpInv, TcpInv', FlowInv, NEW e \in Ends, TxSend(e)
    PROVE  FlowInv'
<1>1. /\ UNCHANGED <<queue, sent, rx, backlog, received, buffer, sock>> /\ TxAgain(e)
      /\ tx[e].pc = "send" /\ Usable(e, tx[e].sock)
      /\ conn' = Transmit(e, tx[e].sock, Pieces(tx[e].frame))
  BY DEF TxSend, link, kernel, history
<1>2. /\ Dues' /\ Outs \subseteq Outs' /\ Apart' /\ Buffers'
      /\ \A c \in Conns : Stays(c)
      /\ e = Server => tx[e].frame \in Outs' /\ \A n \in Outs : n < tx[e].frame
  BY <1>1, RoundFacts
<1> PICK s \in Conns : s = tx[e].sock
  BY <1>1, WritesToLink
<1> PICK f : f = tx[e].frame
  OBVIOUS
<1>3. conn' = Transmit(e, s, Pieces(f)) /\ (e = Server => ~Shut(s) /\ ~Queued(s))
  BY <1>1, WritesToLink
<1>4. CASE e # Server
  <2>1. \A d \in Clients, y \in Conns : Carries(conn, conn', d, y)
    BY <1>3, <1>4, ClientWrites
  <2>2. \A d \in Clients, y \in Conns : Keeps(d, y)
    BY <1>2, <2>1 DEF Keeps, Carries, Stays, Shut
  <2> QED  BY <1>1, <1>2, <2>2, WritingStep
<1>5. CASE e = Server
  <2>1. ASSUME NEW d \in Clients, NEW c \in Conns PROVE Keeps(d, c)
    <3>1. /\ conn'[c].open = conn[c].open /\ conn'[c].broken = conn[c].broken
          /\ \/ conn'[c].wire[d] = conn[c].wire[d]
             \/ c = s /\ conn'[c].wire[d] = conn[c].wire[d] \o Pieces(f)
      <4> PICK b : b = Pieces(f)
        OBVIOUS
      <4>1. conn' = Transmit(Server, s, b)
        BY <1>3, <1>5
      <4>2. Writes(conn', s, b, d, c)
        BY <4>1, ServerWrites
      <4> QED  BY <4>2 DEF Writes
    <3>2. Shut(c)' <=> Shut(c)
      BY <3>1 DEF Shut
    <3>3. f \in Outs' /\ \A n \in Outs : n < f
      BY <1>2, <1>5
    <3>4. Stays(c)
      BY <1>2
    <3> QED  BY <1>3, <1>5, <3>1, <3>2, <3>3, <3>4 DEF Keeps, Stays
  <2> QED  BY <1>1, <1>2, <2>1, WritingStep
<1> QED  BY <1>4, <1>5

\* The first half of a frame.
LEMMA FirstHalf ==
    ASSUME NEW f \in Nat
    PROVE  SubSeq(Pieces(f), 1, 1) = <<<<f, 1>>>>
<1> DEFINE a == <<f, 1>>
           z == <<f, 2>>
           b == <<a, z>>
           x == SubSeq(b, 1, 1)
<1>1. Pieces(f) = b
  BY DEF Pieces
<1>2. a \in Bytes /\ z \in Bytes
  BY DEF Bytes
<1> HIDE DEF a, z
<1>3. b \in Seq(Bytes) /\ Len(b) = 2 /\ b[1] = a
  BY <1>2
<1> HIDE DEF b
<1>4. x \in Seq(Bytes) /\ Len(x) = 1 /\ x[1] = a
  <2>1. \A i \in 1 .. 1 : b[i] \in Bytes
    BY <1>2, <1>3
  <2> QED  BY <2>1, SubSeqProperties, <1>3
<1> HIDE DEF x
<1>5. <<a>> \in Seq(Bytes) /\ Len(<<a>>) = 1 /\ <<a>>[1] = a
  BY <1>2
<1>6. x = <<a>>
  BY <1>4, <1>5, SeqEqual
<1> QED  BY <1>1, <1>6 DEF x, a

\* The write fails, perhaps in the middle of the frame.
LEMMA TxErrorFlow ==
    ASSUME TcpInv, TcpInv', FlowInv, NEW e \in Ends, TxError(e)
    PROVE  FlowInv'
<1>1. /\ UNCHANGED <<queue, sent, rx, backlog, received, buffer>> /\ TxAgain(e)
      /\ tx[e].pc = "send" /\ sock' = [sock EXCEPT ![e] = None]
  BY DEF TxError, DropConnection, kernel, history
<1>2. sock'[e] = None /\ \A x \in Ends : x # e => sock'[x] = sock[x]
  BY <1>1 DEF TcpInv, Shape
<1>3. /\ Dues' /\ Outs \subseteq Outs' /\ Apart' /\ Buffers'
      /\ \A c \in Conns : Stays(c)
      /\ e = Server => tx[e].frame \in Outs' /\ \A n \in Outs : n < tx[e].frame
  <2>1. \A x \in Ends : sock'[x] \in {None, sock[x]}
    BY <1>2
  <2> QED  BY <1>1, <2>1, RoundFacts
<1>4. ASSUME \A d \in Clients, c \in Conns :
                e # d \/ c \notin {sock[e]} => Carries(conn, conn', d, c)
      PROVE  FlowInv'
  <2>1. rx[e].pc = "answer" => rx[e].cand \notin {sock[e]}
    BY DEF FlowInv, Apart, TcpInv, Phases
  <2>2. \A d \in Clients : e # d => sock'[d] = sock[d]
    BY <1>2
  <2> QED  BY <1>1, <1>2, <1>3, <1>4, <2>1, <2>2, ClosingStep
<1>5. CASE DropConnection(e, conn)
  <2>1. conn' = Close(conn, e, {sock[e]}) /\ ConnsOK(conn)
    BY <1>5 DEF DropConnection, TcpInv, Sound
  <2> QED  BY <1>4, <2>1, CloseCarries
<1>6. CASE /\ Usable(e, tx[e].sock)
           /\ DropConnection(e, Transmit(e, tx[e].sock, SubSeq(Pieces(tx[e].frame), 1, 1)))
  <2> PICK s \in Conns : s = tx[e].sock
    BY <1>1, <1>6, WritesToLink
  <2> PICK f \in Nat : f = tx[e].frame
    BY DEF TcpInv, Shape
  <2> PICK h : h = <<<<f, 1>>>>
    OBVIOUS
  <2> PICK K : K = Transmit(e, s, h)
    OBVIOUS
  <2>1. s = sock[e] /\ (e = Server => ~Shut(s) /\ ~Queued(s))
    BY <1>1, <1>6, WritesToLink
  <2>2. SubSeq(Pieces(f), 1, 1) = h
    BY FirstHalf
  <2>3. conn' = Close(K, e, {s})
    BY <1>6, <2>1, <2>2 DEF DropConnection
  <2>4. ConnsOK(K)
    BY <1>1, <1>6, <2>2, FrameAllowed, TransmitOK DEF TcpInv
  <2>5. CASE e # Server
    <3>1. \A d \in Clients, y \in Conns :
             /\ K[y].open = conn[y].open /\ K[y].broken = conn[y].broken
             /\ K[y].wire[d] = conn[y].wire[d]
      BY <2>5, ClientWrites
    <3>2. \A d \in Clients, y \in Conns : e # d \/ y \notin {s} => Carries(K, conn', d, y)
      BY <2>3, <2>4, CloseCarries
    <3>3. \A d \in Clients, y \in Conns : e # d \/ y \notin {s} => Carries(conn, conn', d, y)
      BY <3>1, <3>2 DEF Carries
    <3> QED  BY <1>4, <2>1, <3>3
  <2>6. CASE e = Server
    <3>1. ASSUME NEW d \in Clients, NEW c \in Conns PROVE Keeps(d, c)
      <4>1. /\ K[c].open = conn[c].open /\ K[c].broken = conn[c].broken
            /\ \/ K[c].wire[d] = conn[c].wire[d]
               \/ c = s /\ d \in conn[c].open /\ K[c].wire[d] = conn[c].wire[d] \o h
        <5>1. Writes(K, s, h, d, c)
          BY <2>6, ServerWrites
        <5> QED  BY <5>1 DEF Writes
      <4>2. /\ Carries(K, conn', d, c)
            /\ d \in K[c].open => conn'[c].wire[d] = K[c].wire[d]
            /\ c \in {s} => Server \notin conn'[c].open
        BY <2>3, <2>4, <2>6, CloseCarries, EndAssumption
      <4>3. f \in Outs' /\ \A n \in Outs : n < f
        BY <1>3, <2>6
      <4>4. Stays(c)
        BY <1>3
      <4>5. CASE K[c].wire[d] = conn[c].wire[d]
        BY <4>1, <4>2, <4>4, <4>5 DEF Keeps, Carries, Stays, Shut
      <4>6. CASE c = s /\ d \in conn[c].open /\ K[c].wire[d] = conn[c].wire[d] \o h
        <5>1. conn'[c].wire[d] = conn[c].wire[d] \o h /\ Shut(c)'
          BY <4>1, <4>2, <4>6 DEF Shut
        <5>2. ~Shut(c) /\ ~Queued(c)
          BY <2>1, <2>6, <4>6
        <5>3. d \in conn'[c].open
          BY <4>1, <4>2, <4>6 DEF Carries
        <5> QED  BY <4>3, <4>4, <5>1, <5>2, <5>3 DEF Keeps, Stays
      <4> QED  BY <4>1, <4>5, <4>6
    <3>2. \A d \in Clients : sock'[d] = sock[d]
      BY <1>2, <2>6, EndAssumption
    <3> QED  BY <1>1, <1>3, <3>1, <3>2, WritingStep
  <2> QED  BY <2>5, <2>6
<1> QED  BY <1>5, <1>6 DEF TxError

\* Connections of a client that a step does not touch.
LEMMA Untouched ==
    ASSUME FlowInv, NEW e \in Clients, Outs' = Outs, received'[e] = received[e]
    PROVE  /\ Got(e)'
           /\ (/\ sock'[e] = sock[e] /\ buffer'[e] = buffer[e]
               /\ \A c \in Conns : c = sock[e] => conn'[c] = conn[c] /\ (Queued(c)' => Queued(c)))
              => Flowing(e)'
           /\ (/\ rx'[e] = rx[e]
               /\ \A c \in Conns : c = rx[e].cand =>
                     conn'[c] = conn[c] /\ (Queued(c)' <=> Queued(c)))
              => Answering(e)'
<1>1. Got(e)'
  BY DEF FlowInv, Got
<1>2. (/\ sock'[e] = sock[e] /\ buffer'[e] = buffer[e]
       /\ \A c \in Conns : c = sock[e] => conn'[c] = conn[c] /\ (Queued(c)' => Queued(c)))
              => Flowing(e)'
  BY DEF FlowInv, Flowing, Shut
<1>3. (/\ rx'[e] = rx[e]
       /\ \A c \in Conns : c = rx[e].cand =>
                     conn'[c] = conn[c] /\ (Queued(c)' <=> Queued(c)))
              => Answering(e)'
  BY DEF FlowInv, Answering, Shut
<1> QED  BY <1>1, <1>2, <1>3

\* The answer is Ok: the buffer starts empty, and what follows the answer flows.
LEMMA HandshakeOkFlow ==
    ASSUME TcpInv, TcpInv', FlowInv, NEW e \in Ends, HandshakeOk(e)
    PROVE  FlowInv'
<1>0. Buffers /\ Apart /\ rx[e].pc = "answer"
  BY DEF FlowInv, HandshakeOk, Answered
<1>1. e \in Clients /\ e # Server /\ rx[e].cand \in Conns
  BY AnswerFacts, EndAssumption DEF HandshakeOk
<1> PICK c \in Conns : c = rx[e].cand
  BY <1>1
<1> PICK w \in Seq(Bytes) : w = Tail(conn[c].wire[e])
  BY AnswerFacts DEF HandshakeOk
<1> PICK K : K = [conn EXCEPT ![c].wire[e] = w]
  OBVIOUS
<1>2. /\ conn' = Close(K, e, {sock[e]}) /\ conn[c].wire[e] # <<>>
      /\ sock' = [sock EXCEPT ![e] = c] /\ buffer' = [buffer EXCEPT ![e] = <<>>]
      /\ UNCHANGED <<queue, tx, backlog, sent, received>> /\ Rx(e, "read", None, None)
  BY DEF HandshakeOk, Install, Answered, Incoming, kernel, history
<1>3. /\ rx'[e] = [pc |-> "read", cand |-> None, sock |-> None]
      /\ \A x \in Ends : x # e => rx'[x] = rx[x]
      /\ sock'[e] = c /\ \A x \in Ends : x # e => sock'[x] = sock[x]
  BY <1>2 DEF Rx, TcpInv, Shape
<1>4. Buffers' /\ buffer'[e] = <<>> /\ \A x \in Ends : x # e => buffer'[x] = buffer[x]
  BY <1>0, <1>2, EmptySeq DEF Buffers
<1>5. Dues' /\ Outs' = Outs
  BY <1>2, ServerRests DEF FlowInv
<1>6. Apart'
  BY <1>0, <1>2, <1>3, StaysApart
<1>7. c # sock[e]
  BY <1>0, EndAssumption DEF Apart
<1>8. ConnsOK(conn) /\ ConnsOK(K)
  <2>1. ConnsOK(conn)
    BY DEF TcpInv, Sound
  <2>2. \A i \in 1 .. Len(w) : Allowed(w[i], conn[c].owner)
    BY AnswerFacts DEF HandshakeOk
  <2> QED  BY <2>1, <2>2, TakenOK
<1>9. ASSUME NEW d \in Clients, d # e PROVE Got(d)' /\ Flowing(d)' /\ Answering(d)'
  <2>1. ASSUME NEW y \in Conns PROVE Carries(conn, conn', d, y)
    <3>1. Carries(K, conn', d, y)
      BY <1>2, <1>8, <1>9, CloseCarries
    <3>2. /\ K[y].open = conn[y].open /\ K[y].broken = conn[y].broken
          /\ K[y].wire[d] = conn[y].wire[d]
      BY <1>8, <1>9, TakenWire
    <3> QED  BY <3>1, <3>2 DEF Carries
  <2>2. \A y \in Conns : Stays(y)
    BY <1>2 DEF Stays, Queued
  <2>3. /\ sock'[d] = sock[d] /\ buffer'[d] = buffer[d] /\ rx'[d] = rx[d]
        /\ received'[d] = received[d]
    BY <1>2, <1>3, <1>4, <1>9
  <2> QED  BY <1>4, <1>5, <2>1, <2>2, <2>3, CarriedStep
<1>10. Got(e)'
  BY <1>1, <1>2, <1>5, Untouched
<1>11. Flowing(e)'
  <2>1. /\ e \in conn[c].open /\ ~Queued(c) /\ Flow(w, received[e], Outs)
        /\ Even(w) \/ Shut(c)
    BY <1>0, <1>1, <1>2 DEF FlowInv, Answering
  <2>2. conn'[c] = K[c]
    BY <1>2, <1>7 DEF Close
  <2>3. K[c].open = conn[c].open /\ K[c].broken = conn[c].broken /\ K[c].wire[e] = w
    <3>1. conn \in [Conns -> Connection] /\ conn[c] \in Connection
      BY <1>8 DEF ConnsOK
    <3> QED  BY <3>1 DEF Connection
  <2>4. Shut(c)' <=> Shut(c)
    BY <2>2, <2>3 DEF Shut
  <2>5. <<>> \o w = w
    BY ConcatEmptySeq
  <2>6. Queued(c)' <=> Queued(c)
    BY <1>2 DEF Queued
  <2>7. buffer'[e] \o conn'[c].wire[e] = w
    BY <1>4, <2>2, <2>3, <2>5
  <2>8. received'[e] = received[e] /\ Outs' = Outs
    BY <1>2, <1>5
  <2>9. Flow(buffer'[e] \o conn'[c].wire[e], received'[e], Outs')
    BY <2>1, <2>7, <2>8
  <2>10. Even(buffer'[e] \o conn'[c].wire[e]) \/ Shut(c)'
    BY <2>1, <2>4, <2>7
  <2> QED  BY <1>3, <2>1, <2>6, <2>9, <2>10 DEF Flowing
<1>12. Answering(e)'
  BY <1>3 DEF Answering
<1> QED  BY <1>4, <1>5, <1>6, <1>9, <1>10, <1>11, <1>12 DEF FlowInv

\* A client dials: nothing is on its way to it before it is accepted.
LEMMA ConnectFlow ==
    ASSUME TcpInv, TcpInv', FlowInv, NEW e \in Ends, Connect(e)
    PROVE  FlowInv'
<1>0. Buffers /\ Apart /\ e \in Clients /\ e # Server
  BY EndAssumption DEF FlowInv, Connect
<1> PICK K : K = Close(conn, e, {rx[e].cand})
  OBVIOUS
<1>1. PICK c \in Unused : /\ conn' = [K EXCEPT ![c] = Dialled(e)]
                          /\ backlog' = Append(backlog, c)
                          /\ Rx(e, "answer", c, None)
  BY DEF Connect
<1>2. UNCHANGED <<sock, queue, tx, buffer, sent, received>>
  BY DEF Connect, link, history
<1>3. c \in Conns /\ c # None /\ \A x \in Ends : c \notin Refs(x)
  BY EndAssumption DEF Unused, Free, Refs
<1>4. /\ rx'[e] = [pc |-> "answer", cand |-> c, sock |-> None]
      /\ \A x \in Ends : x # e => rx'[x] = rx[x]
  BY <1>1 DEF Rx, TcpInv, Shape
<1>5. Dues' /\ Outs' = Outs
  BY <1>2, ServerRests DEF FlowInv
<1>6. Buffers'
  BY <1>0, <1>2 DEF Buffers
<1>7. Apart'
  BY <1>0, <1>2, <1>3, <1>4 DEF Apart, Refs
<1>8. \A y : Queued(y)' <=> Queued(y) \/ y = c
  <2>1. /\ Len(backlog) \in Nat /\ Len(backlog') = Len(backlog) + 1
        /\ backlog'[Len(backlog) + 1] = c
        /\ \A i \in 1 .. Len(backlog) : backlog'[i] = backlog[i]
    BY <1>1, <1>3, AppendProperties, LenProperties DEF TcpInv, Shape
  <2>2. \A i \in 1 .. Len(backlog') : i \in 1 .. Len(backlog) \/ i = Len(backlog) + 1
    BY <2>1
  <2>3. \A i \in 1 .. Len(backlog) : i \in 1 .. Len(backlog')
    BY <2>1
  <2>4. Len(backlog) + 1 \in 1 .. Len(backlog')
    BY <2>1
  <2> QED  BY <2>1, <2>2, <2>3, <2>4 DEF Queued
<1>9. conn'[c] = Dialled(e) /\ \A y \in Conns : y # c => conn'[y] = K[y]
  <2>1. K = [y \in Conns |-> K[y]]
    BY DEF Close
  <2> QED  BY <1>1, <1>3, <2>1
<1>10. ASSUME NEW d \in Clients, d # e PROVE Got(d)' /\ Flowing(d)' /\ Answering(d)'
  <2>1. ASSUME NEW y \in Conns, y # c PROVE Carries(conn, conn', d, y) /\ Stays(y)
    <3>1. Carries(conn, K, d, y)
      BY <1>10, CloseCarries DEF TcpInv, Sound
    <3> QED  BY <1>8, <1>9, <2>1, <3>1 DEF Carries, Stays
  <2>2. sock'[d] # c /\ rx'[d].cand # c /\ sock'[d] = sock[d] /\ rx'[d] = rx[d]
    BY <1>2, <1>3, <1>4, <1>10 DEF Refs
  <2> QED  BY <1>2, <1>5, <1>6, <2>1, <2>2, CarriedStep
<1>11. Got(e)' /\ Flowing(e)'
  <2>1. ASSUME NEW y \in Conns, y = sock[e]
        PROVE  conn'[y] = conn[y] /\ (Queued(y)' => Queued(y))
    <3>1. y # c /\ y # rx[e].cand
      BY <1>0, <1>3, <2>1, EndAssumption DEF Refs, Apart
    <3> QED  BY <1>8, <1>9, <3>1 DEF Close
  <2> QED  BY <1>0, <1>2, <1>5, <2>1, Untouched
<1>12. Answering(e)'
  <2>1. e \in Dialled(e).open /\ Dialled(e).wire[e] = <<>>
    BY <1>0 DEF Dialled
  <2> QED  BY <1>4, <1>8, <1>9, <2>1 DEF Answering
<1> QED  BY <1>5, <1>6, <1>7, <1>10, <1>11, <1>12 DEF FlowInv

\* What becomes of the connection c that the server takes from the backlog, at
\* the client that waits for its answer: it is answered, or shut without an answer.
LEMMA AnswerSent ==
    ASSUME TcpInv, FlowInv, Accept, NEW d \in Clients, NEW c \in Conns, c = Head(backlog),
           rx[d].pc = "answer", rx[d].cand = c, Queued(c)
    PROVE  /\ d \in conn'[c].open
           /\ \/ conn'[c].wire[d] = <<>> /\ Shut(c)'
              \/ \E a \in {Ok, Bad} : conn'[c].wire[d] = <<a>>
<1>1. d \in conn[c].open /\ conn[c].wire[d] = <<>>
  BY DEF FlowInv, Answering
<1>2. ConnsOK(conn) /\ Sound /\ conn[c].owner = d /\ d # Server /\ Server \in Ends
  BY <1>1, EndAssumption DEF TcpInv, Sound, ConnsOK, ConnOK
<1>3. \A a : <<>> \o <<a>> = <<a>>
  <2>1. ASSUME NEW a PROVE <<>> \o <<a>> = <<a>>
    <3>1. <<a>> \in Seq({a})
      OBVIOUS
    <3> QED  BY <3>1, ConcatEmptySeq
  <2> QED  BY <2>1
<1>4. ASSUME NEW b, NEW K, K = Transmit(Server, c, b)
      PROVE  K[c].open = conn[c].open /\ K[c].wire[d] = <<>> \o b
  <2>1. /\ K[c].open = conn[c].open /\ K[c].broken = conn[c].broken
        /\ K[c].wire[d] = IF Server = Server /\ c = c /\ d = conn[c].owner /\ d \in conn[c].open
                          THEN conn[c].wire[d] \o b ELSE conn[c].wire[d]
    BY <1>2, <1>4, TransmitWire
  <2> QED  BY <1>1, <1>2, <2>1
<1>5. CASE /\ PasswordOk(c)
           /\ conn' = [Transmit(Server, c, <<Ok>>) EXCEPT ![c].wire[Server] = Tail(@)]
  <2> PICK K : K = Transmit(Server, c, <<Ok>>)
    OBVIOUS
  <2>1. K[c].open = conn[c].open /\ K[c].wire[d] = <<Ok>>
    BY <1>3, <1>4
  <2>2. K \in [Conns -> Connection] /\ K[c] \in Connection
    <3> PICK b : b = <<Ok>>
      OBVIOUS
    <3>1. b \in Seq(Bytes) /\ \A i \in 1 .. Len(b) : Allowed(b[i], conn[c].owner)
      BY <1>5, BytesDiffer DEF Bytes, Allowed, PasswordOk
    <3>2. ConnsOK(K)
      BY <1>2, <3>1, TransmitOK
    <3> QED  BY <3>2 DEF ConnsOK
  <2>3. conn'[c].open = K[c].open /\ conn'[c].wire[d] = K[c].wire[d]
    BY <1>2, <1>5, <2>2 DEF Connection
  <2> QED  BY <1>1, <2>1, <2>3
<1> PICK cs : cs = {c}
  OBVIOUS
<1>8. ASSUME NEW K, ConnsOK(K), NEW L, L = Close(K, Server, cs)
      PROVE  /\ Carries(K, L, d, c)
             /\ d \in K[c].open => L[c].wire[d] = K[c].wire[d]
             /\ Server \notin L[c].open
  <2>1. Server \in Ends /\ Server # d /\ c \in cs
    BY EndAssumption
  <2>2. Carries(K, L, d, c)
    BY <1>8, <2>1, CloseCarries
  <2>3. d \in K[c].open => L[c].wire[d] = K[c].wire[d]
    <3> SUFFICES ASSUME d \in K[c].open PROVE L[c].wire[d] = K[c].wire[d]
      OBVIOUS
    <3>1. K[c] \in Connection
      BY <1>8 DEF ConnsOK
    <3>2. L[c] = [K[c] EXCEPT !.open = @ \ {Server}, !.wire[Server] = <<>>]
      BY <1>8, <2>1 DEF Close, HungUp
    <3> QED  BY <2>1, <3>1, <3>2 DEF Connection
  <2>4. Server \notin L[c].open
    BY <1>8, <2>1, CloseCarries
  <2> QED  BY <2>2, <2>3, <2>4
<1>6. CASE ~PasswordOk(c) /\ conn' = Close(Transmit(Server, c, <<Bad>>), Server, cs)
  <2> PICK K : K = Transmit(Server, c, <<Bad>>)
    OBVIOUS
  <2>1. K[c].open = conn[c].open /\ K[c].wire[d] = <<Bad>>
    BY <1>3, <1>4
  <2>2. ConnsOK(K) /\ conn' = Close(K, Server, cs)
    <3> PICK b : b = <<Bad>>
      OBVIOUS
    <3>1. b \in Seq(Bytes) /\ \A i \in 1 .. Len(b) : Allowed(b[i], conn[c].owner)
      BY <1>6, BytesDiffer DEF Bytes, Allowed, PasswordOk
    <3> QED  BY <1>2, <1>6, <3>1, TransmitOK
  <2>3. Carries(K, conn', d, c) /\ (d \in K[c].open => conn'[c].wire[d] = K[c].wire[d])
    BY <1>8, <2>2
  <2> QED  BY <1>1, <2>1, <2>3 DEF Carries
<1>7. CASE conn' = Close(conn, Server, cs)
  <2>1. /\ Carries(conn, conn', d, c) /\ (d \in conn[c].open => conn'[c].wire[d] = conn[c].wire[d])
        /\ Server \notin conn'[c].open
    BY <1>2, <1>7, <1>8
  <2> QED  BY <1>1, <2>1 DEF Carries, Shut
<1> QED  BY <1>5, <1>6, <1>7 DEF Accept

\* accept() and _server_handshake.
LEMMA AcceptFlow ==
    ASSUME TcpInv, TcpInv', FlowInv, Accept
    PROVE  FlowInv'
<1>0. Buffers /\ Apart
  BY DEF FlowInv
<1>1. /\ backlog \in Seq(Conns) /\ backlog' = Tail(backlog) /\ backlog # <<>>
  BY DEF Accept, TcpInv, Shape
<1>2. Head(backlog) \in Conns
  BY <1>1, HeadTailProperties
<1> PICK c \in Conns : c = Head(backlog)
  BY <1>2
<1>3. UNCHANGED <<sock, queue, tx, buffer, sent, received>>
  BY DEF Accept, link, history
<1>4. /\ Len(backlog) \in Nat \ {0} /\ Len(backlog') = Len(backlog) - 1 /\ c = backlog[1]
      /\ \A i \in 1 .. Len(backlog') : backlog'[i] = backlog[i + 1]
  BY <1>1, EmptySeq, LenProperties, HeadTailProperties
<1>5. Queued(c) /\ ~Queued(c)'
  <2>1. /\ 1 \in 1 .. Len(backlog)
        /\ \A i \in 1 .. Len(backlog') : i + 1 \in 1 .. Len(backlog) /\ i + 1 # 1
    BY <1>4
  <2>2. \A i, j \in 1 .. Len(backlog) : backlog[i] = backlog[j] => i = j
    BY DEF TcpInv, Waiting
  <2>3. ASSUME NEW i \in 1 .. Len(backlog'), backlog'[i] = c PROVE FALSE
    <3>1. backlog[i + 1] = backlog[1] /\ i + 1 \in 1 .. Len(backlog) /\ i + 1 # 1
      BY <1>4, <2>1, <2>3
    <3> QED  BY <2>1, <2>2, <3>1
  <2> QED  BY <1>4, <2>1, <2>3 DEF Queued
<1>6. ASSUME NEW y, y # c PROVE Queued(y)' <=> Queued(y)
  <2>1. ASSUME NEW i \in 1 .. Len(backlog'), backlog'[i] = y PROVE Queued(y)
    <3>1. i + 1 \in 1 .. Len(backlog) /\ backlog[i + 1] = y
      BY <1>4, <2>1
    <3> QED  BY <3>1 DEF Queued
  <2>2. ASSUME NEW i \in 1 .. Len(backlog), backlog[i] = y PROVE Queued(y)'
    <3>1. i - 1 \in 1 .. Len(backlog') /\ (i - 1) + 1 = i
      BY <1>4, <1>6, <2>2
    <3> QED  BY <1>4, <2>2, <3>1 DEF Queued
  <2> QED  BY <2>1, <2>2 DEF Queued
<1>7. \A y \in Conns : y # c => conn'[y] = conn[y]
  <2>1. conn \in [Conns -> Connection]
    BY DEF TcpInv, Shape
  <2>2. \A b, y : y \in Conns /\ y # c => Transmit(Server, c, b)[y] = conn[y]
    BY <2>1 DEF Transmit
  <2>3. CASE conn' = [Transmit(Server, c, <<Ok>>) EXCEPT ![c].wire[Server] = Tail(@)]
    <3> PICK K : K = Transmit(Server, c, <<Ok>>)
      OBVIOUS
    <3>1. DOMAIN K = Conns
      BY <2>1 DEF Transmit
    <3> QED  BY <2>2, <2>3, <3>1
  <2>4. CASE conn' = Close(Transmit(Server, c, <<Bad>>), Server, {c})
    BY <2>2, <2>4 DEF Close
  <2>5. CASE conn' = Close(conn, Server, {c})
    BY <2>5 DEF Close
  <2> QED  BY <2>3, <2>4, <2>5 DEF Accept
<1>8. /\ \A x \in Clients : rx'[x] = rx[x]
      /\ rx'[Server].cand \in {c, rx[Server].cand}
  <2>1. rx' = rx \/ Rx(Server, "install", c, None)
    BY DEF Accept
  <2> QED  BY <2>1, EndAssumption DEF Rx, TcpInv, Shape
<1>9. Dues' /\ Outs' = Outs
  BY <1>3, ServerRests DEF FlowInv
<1>10. Buffers'
  BY <1>0, <1>3 DEF Buffers
<1>11. Apart'
  <2>1. c \notin Refs(Server)
    BY <1>5 DEF TcpInv, Waiting, Waits, Queued
  <2> QED  BY <1>0, <1>3, <1>8, <2>1 DEF Apart, Refs
<1>12. ASSUME NEW d \in Clients PROVE Got(d)' /\ Flowing(d)' /\ Answering(d)'
  <2>1. received'[d] = received[d] /\ sock'[d] = sock[d] /\ buffer'[d] = buffer[d] /\ rx'[d] = rx[d]
    BY <1>3, <1>8
  <2>2. c # sock[d]
    BY <1>5 DEF FlowInv, Flowing
  <2>3. Got(d)' /\ Flowing(d)'
    BY <1>6, <1>7, <1>9, <2>1, <2>2, Untouched
  <2>4. CASE rx[d].cand # c
    <3>1. Answering(d)'
      BY <1>6, <1>7, <1>9, <2>1, <2>4, Untouched
    <3> QED  BY <2>3, <3>1
  <2>5. CASE rx[d].cand = c /\ rx[d].pc = "answer"
    <3>1. /\ d \in conn'[c].open
          /\ \/ conn'[c].wire[d] = <<>> /\ Shut(c)'
             \/ \E a \in {Ok, Bad} : conn'[c].wire[d] = <<a>>
      BY <1>5, <2>5, AnswerSent
    <3>2. CASE conn'[c].wire[d] = <<>> /\ Shut(c)'
      BY <1>5, <2>1, <2>3, <2>5, <3>1, <3>2 DEF Answering
    <3>3. ASSUME NEW a, conn'[c].wire[d] = <<a>> PROVE Answering(d)'
      <4>1. Tail(<<a>>) = <<>> /\ <<a>> # <<>>
        OBVIOUS
      <4>2. \A r, O : Flow(Tail(<<a>>), r, O) /\ Even(Tail(<<a>>))
        BY <4>1, FlowOfNothing
      <4>3. /\ Flow(Tail(conn'[c].wire[d]), received'[d], Outs')
            /\ Even(Tail(conn'[c].wire[d])) /\ conn'[c].wire[d] # <<>>
        BY <3>3, <4>1, <4>2
      <4> QED  BY <1>5, <2>1, <2>5, <3>1, <4>3 DEF Answering
    <3> QED  BY <2>3, <3>1, <3>2, <3>3
  <2>6. CASE rx[d].pc # "answer"
    <3>1. Answering(d)'
      BY <2>1, <2>6 DEF Answering
    <3> QED  BY <2>3, <3>1
  <2> QED  BY <2>4, <2>5, <2>6
<1> QED  BY <1>9, <1>10, <1>11, <1>12 DEF FlowInv

\* Nothing has been sent.
LEMMA FlowInit ==
    ASSUME Init PROVE FlowInv
<1> USE DEF Init
<1>1. Buffers
  BY EmptySeq DEF Buffers
<1>2. Len(<<>>) = 0 /\ ~InHand
  BY DEF InHand
<1>3. Dues /\ Apart
  BY <1>2 DEF Dues, Apart
<1>4. ASSUME NEW e \in Clients PROVE Got(e) /\ Flowing(e) /\ Answering(e)
  <2>1. Got(e)
    BY <1>2 DEF Got, Whole
  <2> QED  BY <2>1, EndAssumption DEF Flowing, Answering
<1> QED  BY <1>1, <1>3, <1>4 DEF FlowInv

\* Every step keeps the flows.
LEMMA FlowStep ==
    ASSUME TcpInv, TcpInv', FlowInv, [Next]_vars PROVE FlowInv'
<1>1. CASE UNCHANGED vars
  <2>1. UNCHANGED <<conn, backlog, sock, buffer, received, rx, tx, queue, sent>>
    BY <1>1 DEF vars, link, kernel, history
  <2>2. Dues' /\ Outs' = Outs
    BY <2>1, ServerRests DEF FlowInv
  <2> QED  BY <2>1, <2>2, QuietStep
<1>2. ASSUME NEW e \in Ends, RxStep(e) PROVE FlowInv'
  <2>1. CASE \/ RxTop(e) \/ RxSocket(e) \/ RecvTimeout(e) \/ HandshakeFails(e)
             \/ e = Server /\ Listen
    BY <2>1, RxQuietActions
  <2>2. CASE \/ RecvError(e) \/ ConnectReturns(e) \/ HandshakeRejected(e)
             \/ e = Server /\ InstallAccepted
    BY <2>2, RxClosingActions
  <2>3. CASE RecvData(e) \/ Connect(e) \/ HandshakeOk(e) \/ Accept
    BY <2>3, RecvDataFlow, ConnectFlow, HandshakeOkFlow, AcceptFlow
  <2> QED  BY <1>2, <2>1, <2>2, <2>3 DEF RxStep
<1>3. ASSUME NEW e \in Ends, TxStep(e) PROVE FlowInv'
  BY <1>3, TxQuietActions, TxSendFlow, TxErrorFlow DEF TxStep
<1>4. ASSUME NEW e \in Ends, Send(e) \/ StopBegins(e) \/ StopEnds(e) PROVE FlowInv'
  BY <1>4, TxQuietActions, StopBeginsFlow, StopEndsFlow
<1>5. ASSUME NEW c \in Conns, Reset(c) PROVE FlowInv'
  BY <1>5, ResetFlow
<1> QED  BY <1>1, <1>2, <1>3, <1>4, <1>5 DEF Next

\* Every connection carries whole frames of the server in their order, up to the
\* one it is cut off in.
THEOREM FlowInvariant == Spec => []FlowInv
<1>1. Init => FlowInv
  BY FlowInit
<1>2. TcpInv /\ TcpInv' /\ FlowInv /\ [Next]_vars => FlowInv'
  BY FlowStep
<1> QED  BY <1>1, <1>2, TcpInvariant, PTL DEF Spec

\* The numbers of whole frames, of which the first were there before.
LEMMA NumbersGrow ==
    ASSUME NEW r \in Seq(Bytes \X Bytes), NEW q \in Seq(Bytes \X Bytes), NEW O \in SUBSET Nat,
           Whole(q, O), Len(r) <= Len(q), \A i \in 1 .. Len(r) : q[i] = r[i]
    PROVE  /\ Len(Numbers(r)) <= Len(Numbers(q))
           /\ SubSeq(Numbers(q), 1, Len(Numbers(r))) = Numbers(r)
           /\ \A i \in Len(Numbers(r)) + 1 .. Len(Numbers(q)) :
                /\ Numbers(q)[i] \in O
                /\ \A j \in 1 .. i - 1 : Numbers(q)[j] < Numbers(q)[i]
<1> DEFINE m == Len(r)
           n == Len(q)
           o == Numbers(r)
           s == Numbers(q)
<1>1. m \in Nat /\ n \in Nat /\ m <= n /\ DOMAIN r = 1 .. m /\ DOMAIN q = 1 .. n
  BY LenProperties
<1>2. /\ \A i \in 1 .. n : q[i] = Pieces(q[i][1][1]) /\ q[i][1][1] \in O
      /\ \A i, j \in 1 .. n : i < j => q[i][1][1] < q[j][1][1]
  BY DEF Whole
<1>3. o = [i \in 1 .. m |-> IF r[i] = Pieces(r[i][1][1]) THEN r[i][1][1] ELSE 0]
      /\ s = [i \in 1 .. n |-> IF q[i] = Pieces(q[i][1][1]) THEN q[i][1][1] ELSE 0]
  BY <1>1 DEF Numbers
<1>0. \A i \in 1 .. m : i \in 1 .. n /\ q[i] = r[i]
  <2>1. \A i \in 1 .. m : i \in 1 .. n
    BY <1>1
  <2> QED  BY <2>1
<1> HIDE DEF m, n, o, s
<1>4. \A i \in 1 .. n : s[i] = q[i][1][1] /\ s[i] \in O
  BY <1>2, <1>3
<1>5. \A i \in 1 .. m : o[i] = s[i] /\ i \in 1 .. n
  BY <1>0, <1>3
<1>6. s \in Seq(O) /\ o \in Seq(O) /\ Len(s) = n /\ Len(o) = m
  <2>1. s \in [1 .. n -> O] /\ o \in [1 .. m -> O]
    BY <1>3, <1>4, <1>5
  <2>2. s \in Seq(O) /\ Len(s) = n
    BY <1>1, <2>1
  <2>3. o \in Seq(O) /\ Len(o) = m
    BY <1>1, <2>1
  <2> QED  BY <2>2, <2>3
<1>7. SubSeq(s, 1, m) = o
  <2>1. \A i \in 1 .. m : s[i] \in O
    BY <1>4, <1>5
  <2>2. /\ SubSeq(s, 1, m) \in Seq(O)
        /\ Len(SubSeq(s, 1, m)) = IF 1 <= m THEN m - 1 + 1 ELSE 0
        /\ \A i \in 1 .. m - 1 + 1 : SubSeq(s, 1, m)[i] = s[1 + i - 1]
    BY <1>1, <1>6, <2>1, SubSeqProperties
  <2>3. Len(SubSeq(s, 1, m)) = m /\ \A i \in 1 .. m : SubSeq(s, 1, m)[i] = s[i]
    BY <1>1, <2>2
  <2> QED  BY <1>5, <1>6, <2>2, <2>3, SeqEqual
<1>8. ASSUME NEW i \in m + 1 .. n PROVE s[i] \in O /\ \A j \in 1 .. i - 1 : s[j] < s[i]
  <2>1. i \in 1 .. n /\ \A j \in 1 .. i - 1 : j \in 1 .. n /\ j < i
    BY <1>1
  <2> QED  BY <1>2, <1>4, <2>1
<1> QED  BY <1>1, <1>6, <1>7, <1>8 DEF o, s

\* recv at a client delivers frames.
LEMMA RecvDelivers ==
    ASSUME TcpInv, FlowInv, FlowInv', NEW e \in Clients, RecvData(e)
    PROVE  Downlink!Deliver(e)
<1>1. e \in Ends /\ sent' = sent
  BY DEF RecvData
<1>2. PICK z \in Seq(Bytes \X Bytes) : received' = [received EXCEPT ![e] = received[e] \o z]
  <2>1. PICK b : /\ received' = [received EXCEPT ![e] = received[e] \o WholeFrames(b)]
                 /\ WholeFrames(b) \in Seq(Bytes \X Bytes)
    BY <1>1, RecvFacts
  <2> QED  BY <2>1
<1>3. /\ received \in [Ends -> Seq(Bytes \X Bytes)] /\ received' \in [Ends -> Seq(Bytes \X Bytes)]
      /\ Whole(received'[e], Outs')
  BY DEF FlowInv, Buffers, Got
<1> PICK r : r = received[e]
  OBVIOUS
<1> PICK q : q = received'[e]
  OBVIOUS
<1> PICK O : O = Outs'
  OBVIOUS
<1>4. r \in Seq(Bytes \X Bytes) /\ q \in Seq(Bytes \X Bytes) /\ q = r \o z /\ Whole(q, O)
  BY <1>1, <1>2, <1>3
<1>5. Len(r) <= Len(q) /\ \A i \in 1 .. Len(r) : q[i] = r[i]
  <2>1. /\ Len(r \o z) = Len(r) + Len(z)
        /\ \A i \in 1 .. Len(r \o z) : (r \o z)[i] = IF i <= Len(r) THEN r[i] ELSE z[i - Len(r)]
    BY <1>4, ConcatProperties
  <2>2. Len(r) \in Nat /\ Len(z) \in Nat
    BY <1>4, LenProperties
  <2> QED  BY <1>4, <2>1, <2>2
<1>6. sent[Server] \in Nat /\ O \subseteq 1 .. sent[Server]
  BY <1>1 DEF Outs, TcpInv, Shape
<1>7. /\ Len(Numbers(r)) <= Len(Numbers(q))
      /\ SubSeq(Numbers(q), 1, Len(Numbers(r))) = Numbers(r)
      /\ \A i \in Len(Numbers(r)) + 1 .. Len(Numbers(q)) :
           /\ Numbers(q)[i] \in O
           /\ \A j \in 1 .. i - 1 : Numbers(q)[j] < Numbers(q)[i]
  <2>1. O \in SUBSET Nat
    BY <1>6
  <2> QED  BY <1>4, <1>5, <2>1, NumbersGrow
<1>8. \A x \in Clients \ {e} : received'[x] = received[x]
  BY <1>2, <1>3
<1> DEFINE S == [s \in {Server} |-> sent[s]]
           D == [s \in {Server} |-> [x \in Clients |-> Numbers(received[x])]]
<1>9. S[Server] = sent[Server] /\ S' = S
  BY <1>1
<1>10. \A x \in Clients : /\ D[Server][x] = Numbers(received[x])
                          /\ D'[Server][x] = Numbers(received'[x])
  OBVIOUS
<1>11. Downlink!Continues(Server, Numbers(r), Numbers(q))
  <2>1. \A a, b : a \in O /\ b \in O /\ a < b => a # b
    BY <1>6
  <2> QED  BY <1>6, <1>7, <1>9, <2>1 DEF Downlink!Continues
<1>12. Downlink!Continues(Server, D[Server][e], D'[Server][e])
  BY <1>10, <1>11
<1>13. \A x \in Clients \ {e} : D'[Server][x] = D[Server][x]
  BY <1>8, <1>10
<1> QED  BY <1>9, <1>12, <1>13 DEF Downlink!Deliver

\* Steps that send nothing at the server and bring the clients nothing.
LEMMA Stutters ==
    ASSUME sent'[Server] = sent[Server], \A e \in Clients : received'[e] = received[e]
    PROVE  UNCHANGED Downlink!frames
<1>1. [s \in {Server} |-> sent[s]]' = [s \in {Server} |-> sent[s]]
  OBVIOUS
<1>2. [s \in {Server} |-> [e \in Clients |-> Numbers(received[e])]]'
         = [s \in {Server} |-> [e \in Clients |-> Numbers(received[e])]]
  OBVIOUS
<1> QED  BY <1>1, <1>2 DEF Downlink!frames

\* send() at the server.
LEMMA SendSends ==
    ASSUME TcpInv, Send(Server)
    PROVE  Downlink!Send(Server)
<1>1. /\ sent \in [Ends -> Nat] /\ sent'[Server] = sent[Server] + 1
      /\ received' = received
  BY DEF TcpInv, Shape, Send
<1>2. [s \in {Server} |-> sent[s]]'
         = [[s \in {Server} |-> sent[s]] EXCEPT ![Server] = @ + 1]
  BY <1>1
<1>3. [s \in {Server} |-> [e \in Clients |-> Numbers(received[e])]]'
         = [s \in {Server} |-> [e \in Clients |-> Numbers(received[e])]]
  BY <1>1
<1> QED  BY <1>2, <1>3 DEF Downlink!Send

\* Every step of the link is a step of FrameLink, or none.
LEMMA LinkStep ==
    ASSUME TcpInv, FlowInv, FlowInv', [Next]_vars
    PROVE  [Downlink!Next]_(Downlink!frames)
<1>0. sent \in [Ends -> Nat] /\ received \in [Ends -> Seq(Bytes \X Bytes)]
  BY DEF TcpInv, Shape, FlowInv, Buffers
<1>1. CASE UNCHANGED vars
  BY <1>1, Stutters DEF vars, history
<1>2. ASSUME NEW e \in Ends, RecvData(e) PROVE [Downlink!Next]_(Downlink!frames)
  <2>1. CASE e \in Clients
    <3>1. Downlink!Deliver(e)
      BY <1>2, <2>1, RecvDelivers
    <3> QED  BY <2>1, <3>1 DEF Downlink!Next
  <2>2. CASE e = Server
    <3>1. sent' = sent /\ \A x \in Clients : received'[x] = received[x]
      BY <1>0, <1>2, <2>2, EndAssumption DEF RecvData
    <3> QED  BY <3>1, Stutters
  <2> QED  BY <2>1, <2>2
<1>3. ASSUME NEW e \in Ends, RxStep(e), ~RecvData(e) PROVE [Downlink!Next]_(Downlink!frames)
  <2>1. sent' = sent /\ received' = received
    BY <1>3 DEF RxStep, RxTop, RxSocket, RecvTimeout, RecvError, Connect, ConnectReturns,
                HandshakeOk, HandshakeRejected, HandshakeFails, Listen, Accept,
                InstallAccepted, history
  <2> QED  BY <2>1, Stutters
<1>4. ASSUME NEW e \in Ends, TxStep(e) PROVE [Downlink!Next]_(Downlink!frames)
  <2>1. sent' = sent /\ received' = received
    BY <1>4 DEF TxStep, TxGet, TxSocket, TxClear, TxSend, TxError, TxEnds, history
  <2> QED  BY <2>1, Stutters
<1>5. ASSUME NEW e \in Ends, Send(e) PROVE [Downlink!Next]_(Downlink!frames)
  <2>1. CASE e = Server
    <3>1. Downlink!Send(Server)
      BY <1>5, <2>1, SendSends
    <3> QED  BY <3>1 DEF Downlink!Next
  <2>2. CASE e # Server
    <3>1. sent'[Server] = sent[Server] /\ received' = received
      BY <1>0, <1>5, <2>2 DEF Send
    <3> QED  BY <3>1, Stutters
  <2> QED  BY <2>1, <2>2
<1>6. ASSUME NEW e \in Ends, StopBegins(e) \/ StopEnds(e) PROVE [Downlink!Next]_(Downlink!frames)
  <2>1. sent' = sent /\ received' = received
    BY <1>6 DEF StopBegins, StopEnds
  <2> QED  BY <2>1, Stutters
<1>7. ASSUME NEW c \in Conns, Reset(c) PROVE [Downlink!Next]_(Downlink!frames)
  <2>1. sent' = sent /\ received' = received
    BY <1>7 DEF Reset
  <2> QED  BY <2>1, Stutters
<1> QED  BY <1>1, <1>2, <1>3, <1>4, <1>5, <1>6, <1>7 DEF Next

\* The two threads, _drain_rx_buffer, the reconnections and stop() implement
\* FrameLink from the server to any number of clients: whole frames, each at most
\* once and in the order of send(), however recv cuts the stream.
THEOREM LinkIsFrameLink == Spec => IsFrameLink
<1>1. Init => Downlink!Init
  <2> SUFFICES ASSUME Init PROVE Downlink!Init
    OBVIOUS
  <2>1. [s \in {Server} |-> sent[s]] = [s \in {Server} |-> 0]
    BY DEF Init
  <2>2. \A e \in Clients : Numbers(received[e]) = <<>>
    BY DEF Init, Numbers
  <2>3. [s \in {Server} |-> [e \in Clients |-> Numbers(received[e])]]
           = [s \in {Server} |-> [e \in Clients |-> <<>>]]
    BY <2>2
  <2> QED  BY <2>1, <2>3 DEF Downlink!Init
<1>2. TcpInv /\ FlowInv /\ FlowInv' /\ [Next]_vars => [Downlink!Next]_(Downlink!frames)
  BY LinkStep
<1> QED  BY <1>1, <1>2, TcpInvariant, FlowInvariant, PTL DEF Spec, IsFrameLink, Downlink!Spec
=============================================================================
