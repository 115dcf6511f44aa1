--------------------------- MODULE MeshNodeProofs ---------------------------
(***************************************************************************)
(* Proofs about MeshNode for every set of stations, every topology, every  *)
(* TTL, sequence space, expiry and bound.                                  *)
(***************************************************************************)
EXTENDS MeshNode, TLAPS

USE NodesAssumption, TtlAssumption, SeqAssumption, ExpiryAssumption, BoundAssumption
    DEF NodesAssumption, TtlAssumption, SeqAssumption, ExpiryAssumption, BoundAssumption

(***************************************************************************)
(* What the operators of the model return.                                 *)
(***************************************************************************)

\* An update of one entry of one station's table changes that entry only.
LEMMA TableUpdate ==
    ASSUME NEW S, NEW T, NEW V, NEW g \in [S -> [T -> V]],
           NEW n \in S, NEW k \in T, NEW v, NEW m \in S, NEW o \in T
    PROVE  [g EXCEPT ![n][k] = v][m][o] = IF m = n /\ o = k THEN v ELSE g[m][o]
OBVIOUS

\* link_client.send produces well-formed copies.
LEMMA BroadcastType ==
    ASSUME NEW n \in Nodes, NEW f \in OgmFrame \cup DataFrame
    PROVE  Broadcast(n, f) \subseteq Copy
<1> SUFFICES ASSUME NEW c \in Broadcast(n, f) PROVE c \in Copy OBVIOUS
<1>1. PICK m \in InRange(n) : c = [to |-> m, from |-> n, frame |-> f] BY DEF Broadcast
<1>2. m \in Nodes BY DEF InRange
<1> QED BY <1>1, <1>2 DEF Copy

\* link_client.send: every copy carries the frame, comes from the sender and
\* goes to a station in its range.
LEMMA BroadcastCopies ==
    ASSUME NEW n, NEW f, NEW c \in Broadcast(n, f)
    PROVE  c.from = n /\ c.frame = f /\ c.to \in Nodes /\ <<c.from, c.to>> \in Hears
<1>1. PICK m \in InRange(n) : c = [to |-> m, from |-> n, frame |-> f] BY DEF Broadcast
<1> QED BY <1>1 DEF InRange

\* _next_seqno stays inside the sequence space.
LEMMA NextSeqnoType ==
    ASSUME TypeOK, NEW n \in Nodes
    PROVE  NextSeqno(n) \in Seqnos
BY DEF TypeOK, NextSeqno, Seqnos

\* _handle_data_frame ends in one of its outcomes.
LEMMA FateType == ASSUME NEW n, NEW f PROVE Fate(n, f) \in Fates
BY DEF Fate, Fates

\* The "none" record of the model is no table entry.
LEMMA NoRouteIsNoEntry == NoRoute \notin OriginatorEntry
BY DEF NoRoute, OriginatorEntry, Never, Seqnos

\* Only packets with TTL left are forwarded.
LEMMA ForwardedTtl ==
    ASSUME NEW n, NEW f \in DataFrame, Fate(n, f) = "forwarded"
    PROVE  [f EXCEPT !.ttl = @ - 1] \in DataFrame
BY DEF Fate, DataFrame

\* _handle_ogm forwards well-formed OGMs that name the forwarder.
LEMMA ForwardOgmType ==
    ASSUME NEW n \in Nodes, NEW f \in OgmFrame
    PROVE  /\ ForwardOgm(n, f) \subseteq Copy
           /\ \A c \in ForwardOgm(n, f) : /\ <<c.from, c.to>> \in Hears
                                          /\ c.frame.type = "OGM"
                                          /\ c.frame.prev_hop = c.from
<1>1. CASE f.ttl > 1
  <2> DEFINE g == Ogm(f.origin, f.seqno, f.ttl - 1, n)
  <2>1. g \in OgmFrame /\ g.type = "OGM" /\ g.prev_hop = n
    BY <1>1 DEF Ogm, OgmFrame
  <2>2. ForwardOgm(n, f) = Broadcast(n, g)
    BY <1>1 DEF ForwardOgm
  <2> HIDE DEF g
  <2> QED BY <2>1, <2>2, BroadcastType, BroadcastCopies
<1>2. CASE ~(f.ttl > 1)
  BY <1>2 DEF ForwardOgm
<1> QED BY <1>1, <1>2

-----------------------------------------------------------------------------
(***************************************************************************)
(* Type correctness.                                                       *)
(***************************************************************************)

\* The initial state of every station is well typed.
LEMMA InitType == Init => TypeOK
<1> SUFFICES ASSUME Init PROVE TypeOK OBVIOUS
<1>1. /\ now \in 0 .. MaxTime /\ up \in [Nodes -> BOOLEAN] /\ boots \in [Nodes -> Nat]
      /\ seqno \in [Nodes -> Seqnos] /\ ogms \in [Nodes -> Nat]
  BY DEF Init, Seqnos
<1>2. /\ originators \in [Nodes -> [Nodes -> OriginatorEntry \cup {NoRoute}]]
      /\ neighbors \in [Nodes -> [Nodes -> 0 .. MaxTime \cup {Never}]]
      /\ dataSeen \in [Nodes -> [Keys -> 0 .. MaxTime \cup {Never}]]
  BY DEF Init, EmptyRoutes, EmptyTimes, EmptyKeys
<1>3. /\ dead \in [Nodes -> [originators : SUBSET Nodes, neighbors : SUBSET Nodes,
                           data_seen : SUBSET Keys]]
      /\ air \subseteq Copy /\ sent \subseteq Send
  BY DEF Init, NothingDead
<1>4. accepted \in [Nodes -> Seq(Accept)]
  BY DEF Init
<1> QED BY <1>1, <1>2, <1>3, <1>4 DEF TypeOK

\* Every handler, thread step and life-cycle step keeps the types.
LEMMA StepType == TypeOK /\ [Next]_vars => TypeOK'
<1> SUFFICES ASSUME TypeOK, [Next]_vars PROVE TypeOK' OBVIOUS
<1>1. ASSUME NEW n \in Nodes, OgmLoop(n) PROVE TypeOK'
  <2> DEFINE ogm == Ogm(n, NextSeqno(n), OgmTtl, n)
  <2>1. ogm \in OgmFrame BY NextSeqnoType DEF Ogm, OgmFrame
  <2>2. air' = air \cup Broadcast(n, ogm) BY <1>1 DEF OgmLoop
  <2>3. air' \subseteq Copy BY <2>1, <2>2, BroadcastType DEF TypeOK
  <2>4. seqno' \in [Nodes -> Seqnos] /\ ogms' \in [Nodes -> Nat]
    BY <1>1, NextSeqnoType DEF OgmLoop, TypeOK
  <2> QED BY <1>1, <2>3, <2>4 DEF OgmLoop, TypeOK, routeVars, dataVars
<1>2. ASSUME NEW n \in Nodes, NEW d \in Nodes, NEW p \in Payloads,
             SendApplicationData(n, d, p)
      PROVE TypeOK'
  <2> DEFINE data == [type |-> "DATA", ttl |-> OgmTtl, origin |-> n,
                      seqno |-> NextSeqno(n), dest |-> d, payload |-> p]
  <2>1. data \in DataFrame BY NextSeqnoType DEF DataFrame
  <2>2. air' = air \cup Broadcast(n, data) BY <1>2 DEF SendApplicationData
  <2>3. air' \subseteq Copy BY <2>1, <2>2, BroadcastType DEF TypeOK
  <2>4. seqno' \in [Nodes -> Seqnos] /\ sent' \subseteq Send
    <3>1. [origin |-> n, seqno |-> NextSeqno(n), dest |-> d, payload |-> p] \in Send
      BY NextSeqnoType DEF Send
    <3> QED BY <1>2, <3>1, NextSeqnoType DEF SendApplicationData, TypeOK
  <2> QED BY <1>2, <2>3, <2>4 DEF SendApplicationData, TypeOK, routeVars, dataVars
<1>3. ASSUME NEW n \in Nodes, NEW c \in air, HandleOgm(n, c) PROVE TypeOK'
  <2>1. c.frame \in OgmFrame
    BY <1>3 DEF HandleOgm, TypeOK, Copy, OgmFrame, DataFrame
  <2>2. air' \subseteq Copy
    BY <1>3, <2>1, ForwardOgmType DEF HandleOgm, TypeOK, Medium
  <2>3. neighbors' \in [Nodes -> [Nodes -> 0 .. MaxTime \cup {Never}]]
    BY <1>3, <2>1 DEF HandleOgm, TypeOK, OgmFrame
  <2>4. originators' \in [Nodes -> [Nodes -> OriginatorEntry \cup {NoRoute}]]
    BY <1>3, <2>1 DEF HandleOgm, TypeOK, OgmFrame, OriginatorEntry
  <2> QED BY <1>3, <2>2, <2>3, <2>4 DEF HandleOgm, TypeOK, nodeVars, dataVars
<1>4. ASSUME NEW n \in Nodes, NEW c \in air, DropDuplicate(n, c) PROVE TypeOK'
  BY <1>4 DEF DropDuplicate, TypeOK, Medium, nodeVars, routeVars, dataVars
<1>5. ASSUME NEW n \in Nodes, NEW c \in air, HandleData(n, c) PROVE TypeOK'
  <2> DEFINE f == c.frame
             log == [key |-> KeyOf(f), payload |-> f.payload, time |-> now,
                     fate |-> Fate(n, f)]
  <2>1. f \in DataFrame
    BY <1>5 DEF HandleData, DataArrives, TypeOK, Copy, OgmFrame, DataFrame
  <2>2. KeyOf(f) \in Keys /\ log \in Accept
    BY <2>1, FateType DEF KeyOf, Keys, DataFrame, Accept, TypeOK
  <2>3. dataSeen' \in [Nodes -> [Keys -> 0 .. MaxTime \cup {Never}]]
    BY <1>5, <2>2 DEF HandleData, TypeOK
  <2>4. accepted' \in [Nodes -> Seq(Accept)]
    <3>1. Append(accepted[n], log) \in Seq(Accept) BY <2>2 DEF TypeOK
    <3>2. accepted' = [accepted EXCEPT ![n] = Append(@, log)] BY <1>5 DEF HandleData
    <3> HIDE DEF log
    <3> QED BY <3>1, <3>2 DEF TypeOK
  <2>5. air' \subseteq Copy
    <3>1. CASE Fate(n, f) = "forwarded"
      <4>1. [f EXCEPT !.ttl = @ - 1] \in OgmFrame \cup DataFrame
        BY <2>1, <3>1, ForwardedTtl
      <4> QED BY <1>5, <3>1, <4>1, BroadcastType DEF HandleData, Medium, TypeOK
    <3>2. CASE Fate(n, f) # "forwarded"
      BY <1>5, <3>2 DEF HandleData, Medium, TypeOK
    <3> QED BY <3>1, <3>2
  <2> QED BY <1>5, <2>3, <2>4, <2>5 DEF HandleData, TypeOK, nodeVars, routeVars
<1>6. ASSUME NEW n \in Nodes, CleanupCollect(n) PROVE TypeOK'
  <2>1. dead' \in [Nodes -> [originators : SUBSET Nodes, neighbors : SUBSET Nodes,
                           data_seen : SUBSET Keys]]
    <3>1. PICK found \in [originators : SUBSET Nodes, neighbors : SUBSET Nodes,
                          data_seen : SUBSET Keys] : Collect(n, found)
      BY <1>6 DEF CleanupCollect, NothingDead, DeadOriginators, DeadNeighbors, DeadData
    <3> QED BY <3>1 DEF Collect, TypeOK
  <2> QED BY <1>6, <2>1 DEF CleanupCollect, Collect, TypeOK, nodeVars, routeVars, dataVars
<1>7. ASSUME NEW n \in Nodes, CleanupDelete(n) PROVE TypeOK'
  <2>1. originators' \in [Nodes -> [Nodes -> OriginatorEntry \cup {NoRoute}]]
    BY <1>7 DEF CleanupDelete, TypeOK
  <2>2. neighbors' \in [Nodes -> [Nodes -> 0 .. MaxTime \cup {Never}]]
    BY <1>7 DEF CleanupDelete, TypeOK
  <2>3. dataSeen' \in [Nodes -> [Keys -> 0 .. MaxTime \cup {Never}]]
    BY <1>7 DEF CleanupDelete, TypeOK
  <2>4. dead' \in [Nodes -> [originators : SUBSET Nodes, neighbors : SUBSET Nodes,
                           data_seen : SUBSET Keys]]
    BY <1>7 DEF CleanupDelete, TypeOK, NothingDead
  <2> QED BY <1>7, <2>1, <2>2, <2>3, <2>4 DEF CleanupDelete, TypeOK, nodeVars
<1>8. ASSUME NEW n \in Nodes, Stop(n) PROVE TypeOK'
  BY <1>8 DEF Stop, TypeOK, routeVars, dataVars
<1>9. ASSUME NEW n \in Nodes, Start(n) PROVE TypeOK'
  <2>1. /\ up' \in [Nodes -> BOOLEAN] /\ boots' \in [Nodes -> Nat]
        /\ seqno' \in [Nodes -> Seqnos] /\ ogms' \in [Nodes -> Nat]
    BY <1>9 DEF Start, TypeOK, Seqnos
  <2>2. originators' \in [Nodes -> [Nodes -> OriginatorEntry \cup {NoRoute}]]
    BY <1>9 DEF Start, TypeOK, EmptyRoutes
  <2>3. /\ neighbors' \in [Nodes -> [Nodes -> 0 .. MaxTime \cup {Never}]]
        /\ dataSeen' \in [Nodes -> [Keys -> 0 .. MaxTime \cup {Never}]]
    BY <1>9 DEF Start, TypeOK, EmptyTimes, EmptyKeys
  <2>4. dead' \in [Nodes -> [originators : SUBSET Nodes, neighbors : SUBSET Nodes,
                           data_seen : SUBSET Keys]]
    BY <1>9 DEF Start, TypeOK, NothingDead
  <2>5. accepted' \in [Nodes -> Seq(Accept)]
    BY <1>9 DEF Start, TypeOK
  <2> QED BY <1>9, <2>1, <2>2, <2>3, <2>4, <2>5 DEF Start, TypeOK
<1>10. ASSUME NEW c \in air, Lose(c) PROVE TypeOK'
  BY <1>10 DEF Lose, TypeOK, nodeVars, routeVars, dataVars
<1>11. CASE Tick
  BY <1>11 DEF Tick, TypeOK, nodeVars, routeVars, dataVars
<1>12. CASE UNCHANGED vars
  BY <1>12 DEF TypeOK, vars, nodeVars, routeVars, dataVars
<1> QED
  BY <1>1, <1>2, <1>3, <1>4, <1>5, <1>6, <1>7, <1>8, <1>9, <1>10, <1>11, <1>12
  DEF Next, OnLinkFrame

\* Type correctness of the mesh layer: whatever frames arrive, expire or are
\* forwarded, every table, counter and frame keeps its type; in particular a
\* forwarded frame never leaves with a TTL of 0.
THEOREM TypeCorrect == Spec => []TypeOK
BY InitType, StepType, PTL DEF Spec

-----------------------------------------------------------------------------
(***************************************************************************)
(* Duplicate suppression.                                                  *)
(***************************************************************************)
WindowInv == CacheCoversWindow /\ OncePerWindow

\* A step that leaves the log, the cache, the collected keys and the clock of
\* every station alone preserves the invariant.
LEMMA WindowFrame ==
    ASSUME WindowInv, UNCHANGED <<now, dataSeen, accepted>>,
           \A n \in Nodes : dead'[n].data_seen \subseteq dead[n].data_seen
    PROVE  WindowInv'
BY DEF WindowInv, CacheCoversWindow, OncePerWindow, TooOld

\* _handle_data_frame: a packet id that is not cached was last let through
\* more than the expiry ago.
LEMMA WindowHandleData ==
    ASSUME TypeOK, WindowInv, NEW n \in Nodes, NEW c \in air, HandleData(n, c)
    PROVE  WindowInv'
<1> DEFINE f == c.frame
           log == [key |-> KeyOf(f), payload |-> f.payload, time |-> now,
                   fate |-> Fate(n, f)]
           L == Len(accepted[n])
<1>1. f \in DataFrame
  BY DEF HandleData, DataArrives, TypeOK, Copy, OgmFrame, DataFrame
<1>2. KeyOf(f) \in Keys /\ log \in Accept
  BY <1>1, FateType DEF KeyOf, Keys, DataFrame, Accept, TypeOK
<1>3. log.key = KeyOf(f) /\ log.time = now OBVIOUS
<1> HIDE DEF log
<1>4. /\ now' = now /\ dead' = dead
      /\ dataSeen[n][KeyOf(f)] = Never
      /\ dataSeen' = [dataSeen EXCEPT ![n][KeyOf(f)] = now]
      /\ accepted' = [accepted EXCEPT ![n] = Append(@, log)]
  BY DEF HandleData, FirstSight, log
<1>5. /\ L \in Nat /\ Len(accepted'[n]) = L + 1 /\ accepted'[n][L + 1] = log
      /\ \A i \in 1 .. L : accepted'[n][i] = accepted[n][i] /\ accepted[n][i] \in Accept
      /\ \A m \in Nodes \ {n} : accepted'[m] = accepted[m] /\ dataSeen'[m] = dataSeen[m]
  BY <1>2, <1>4 DEF TypeOK
<1>6. now \in Int /\ now # Never /\ \A k \in Keys : dataSeen[n][k] \in Int
  BY DEF TypeOK, Never
<1>7. /\ dataSeen'[n][KeyOf(f)] = now
      /\ \A k \in Keys \ {KeyOf(f)} : dataSeen'[n][k] = dataSeen[n][k]
  BY <1>2, <1>4 DEF TypeOK
<1>8. CacheCoversWindow'
  <2> SUFFICES ASSUME NEW m \in Nodes
               PROVE /\ \A i \in 1 .. Len(accepted'[m]) :
                          LET a == accepted'[m][i]
                          IN  /\ a.time <= now
                              /\ dataSeen'[m][a.key] # Never => a.time <= dataSeen'[m][a.key]
                              /\ dataSeen'[m][a.key] = Never => now - a.time > DataSeenExpiry
                     /\ \A k \in dead[m].data_seen :
                           dataSeen'[m][k] # Never /\ now - dataSeen'[m][k] > DataSeenExpiry
    BY <1>4 DEF CacheCoversWindow, TooOld
  <2>1. CASE m # n
    BY <2>1, <1>5 DEF WindowInv, CacheCoversWindow, TooOld
  <2>2. CASE m = n
    <3>1. ASSUME NEW i \in 1 .. L
          PROVE LET a == accepted[n][i]
                IN  /\ a.time <= now
                    /\ dataSeen'[n][a.key] # Never => a.time <= dataSeen'[n][a.key]
                    /\ dataSeen'[n][a.key] = Never => now - a.time > DataSeenExpiry
      <4>1. accepted[n][i].key \in Keys BY <3>1, <1>5 DEF Accept
      <4>2. accepted[n][i].time <= now BY <3>1 DEF WindowInv, CacheCoversWindow
      <4>3. CASE accepted[n][i].key = KeyOf(f)
        BY <4>2, <4>3, <1>6, <1>7
      <4>4. CASE accepted[n][i].key # KeyOf(f)
        BY <3>1, <4>1, <4>4, <1>7 DEF WindowInv, CacheCoversWindow
      <4> QED BY <4>3, <4>4
    <3>2. ASSUME NEW k \in dead[n].data_seen
          PROVE  dataSeen'[n][k] # Never /\ now - dataSeen'[n][k] > DataSeenExpiry
      <4>1. k \in Keys BY <3>2 DEF TypeOK
      <4>2. dataSeen[n][k] # Never /\ now - dataSeen[n][k] > DataSeenExpiry
        BY <3>2 DEF WindowInv, CacheCoversWindow, TooOld
      <4> QED BY <4>1, <4>2, <1>4, <1>7
    <3>3. ASSUME NEW i \in 1 .. L + 1
          PROVE LET a == accepted'[n][i]
                IN  /\ a.time <= now
                    /\ dataSeen'[n][a.key] # Never => a.time <= dataSeen'[n][a.key]
                    /\ dataSeen'[n][a.key] = Never => now - a.time > DataSeenExpiry
      <4>1. CASE i \in 1 .. L BY <4>1, <3>1, <1>5
      <4>2. CASE i = L + 1 BY <4>2, <1>3, <1>5, <1>6, <1>7
      <4> QED BY <3>3, <4>1, <4>2, <1>5
    <3> QED BY <2>2, <3>2, <3>3, <1>5
  <2> QED BY <2>1, <2>2
<1>9. OncePerWindow'
  <2> SUFFICES ASSUME NEW m \in Nodes, NEW i \in 1 .. Len(accepted'[m]),
                      NEW j \in 1 .. Len(accepted'[m]), i < j,
                      accepted'[m][i].key = accepted'[m][j].key
               PROVE  accepted'[m][j].time - accepted'[m][i].time > DataSeenExpiry
    BY DEF OncePerWindow
  <2>1. CASE m # n
    BY <2>1, <1>5 DEF WindowInv, OncePerWindow
  <2>2. CASE m = n /\ j \in 1 .. L
    <3>1. i \in 1 .. L BY <2>2, <1>5
    <3>2. accepted'[n][i] = accepted[n][i] /\ accepted'[n][j] = accepted[n][j]
      BY <2>2, <3>1, <1>5
    <3> QED BY <2>2, <3>1, <3>2 DEF WindowInv, OncePerWindow
  <2>3. CASE m = n /\ j = L + 1
    <3>1. i \in 1 .. L BY <2>3, <1>5
    <3>2. accepted[n][i].key = KeyOf(f) BY <2>3, <3>1, <1>3, <1>5
    <3>3. now - accepted[n][i].time > DataSeenExpiry
      BY <3>1, <3>2, <1>4 DEF WindowInv, CacheCoversWindow
    <3> QED BY <2>3, <3>1, <3>3, <1>3, <1>5
  <2> QED BY <2>1, <2>2, <2>3, <1>5
<1> QED BY <1>8, <1>9 DEF WindowInv

\* _cleanup_loop: a deleted key is past the window of every packet logged
\* under it.
LEMMA WindowCleanupDelete ==
    ASSUME TypeOK, WindowInv, NEW n \in Nodes, CleanupDelete(n)
    PROVE  WindowInv'
<1>1. now' = now /\ accepted' = accepted /\ OncePerWindow'
  BY DEF CleanupDelete, WindowInv, OncePerWindow
<1>2. ASSUME NEW m \in Nodes, NEW i \in 1 .. Len(accepted[m])
      PROVE LET a == accepted[m][i]
            IN  /\ a.time <= now
                /\ dataSeen'[m][a.key] # Never => a.time <= dataSeen'[m][a.key]
                /\ dataSeen'[m][a.key] = Never => now - a.time > DataSeenExpiry
  <2>1. accepted[m][i] \in Accept BY <1>2 DEF TypeOK
  <2> DEFINE k == accepted[m][i].key
             t == accepted[m][i].time
  <2>2. k \in Keys /\ t \in Int /\ now \in Int /\ dataSeen[m][k] \in Int
    <3>1. k \in Keys /\ t \in Int /\ now \in Int BY <2>1 DEF Accept, TypeOK
    <3> QED BY <3>1 DEF TypeOK, Never
  <2>3. /\ t <= now
        /\ dataSeen[m][k] # Never => t <= dataSeen[m][k]
        /\ dataSeen[m][k] = Never => now - t > DataSeenExpiry
    BY <1>2 DEF WindowInv, CacheCoversWindow
  <2>4. CASE m = n /\ k \in dead[n].data_seen
    <3>1. dataSeen[n][k] # Never /\ now - dataSeen[n][k] > DataSeenExpiry
      BY <2>4 DEF WindowInv, CacheCoversWindow, TooOld
    <3>2. dataSeen'[n][k] = Never BY <2>2, <2>4 DEF CleanupDelete, TypeOK
    <3> QED BY <2>2, <2>3, <2>4, <3>1, <3>2
  <2>5. CASE ~(m = n /\ k \in dead[n].data_seen)
    <3>1. dataSeen'[m][k] = dataSeen[m][k]
      BY <2>2, <2>5 DEF CleanupDelete, TypeOK
    <3> QED BY <2>3, <3>1
  <2> QED BY <2>4, <2>5
<1>3. ASSUME NEW m \in Nodes, NEW k \in dead'[m].data_seen
      PROVE  TooOld(dataSeen'[m][k], DataSeenExpiry)
  <2>1. m # n BY <1>3 DEF CleanupDelete, NothingDead, TypeOK
  <2>2. dead'[m] = dead[m] /\ dataSeen'[m] = dataSeen[m]
    BY <2>1 DEF CleanupDelete, TypeOK
  <2> QED BY <1>3, <2>2 DEF WindowInv, CacheCoversWindow
<1> QED BY <1>1, <1>2, <1>3 DEF WindowInv, CacheCoversWindow, TooOld

\* Every step of the mesh layer preserves the invariant.
LEMMA WindowStep == TypeOK /\ WindowInv /\ [Next]_vars => WindowInv'
<1> SUFFICES ASSUME TypeOK, WindowInv, [Next]_vars PROVE WindowInv' OBVIOUS
<1>1. ASSUME NEW n \in Nodes, OgmLoop(n) PROVE WindowInv'
  BY <1>1, WindowFrame DEF OgmLoop, dataVars
<1>2. ASSUME NEW n \in Nodes, NEW d \in Nodes, NEW p \in Payloads,
             SendApplicationData(n, d, p)
      PROVE WindowInv'
  BY <1>2, WindowFrame DEF SendApplicationData, dataVars
<1>3. ASSUME NEW n \in Nodes, NEW c \in air, HandleOgm(n, c) PROVE WindowInv'
  BY <1>3, WindowFrame DEF HandleOgm, dataVars
<1>4. ASSUME NEW n \in Nodes, NEW c \in air, DropDuplicate(n, c) PROVE WindowInv'
  BY <1>4, WindowFrame DEF DropDuplicate, dataVars
<1>5. ASSUME NEW n \in Nodes, NEW c \in air, HandleData(n, c) PROVE WindowInv'
  BY <1>5, WindowHandleData
<1>6. ASSUME NEW n \in Nodes, CleanupCollect(n) PROVE WindowInv'
  <2>1. now' = now /\ dataSeen' = dataSeen /\ accepted' = accepted
    BY <1>6 DEF CleanupCollect, Collect, dataVars
  <2>2. ASSUME NEW m \in Nodes, NEW k \in dead'[m].data_seen
        PROVE  k \in dead[m].data_seen \/ TooOld(dataSeen[m][k], DataSeenExpiry)
    <3>1. CASE m # n
      BY <1>6, <2>2, <3>1 DEF CleanupCollect, Collect, TypeOK
    <3>2. CASE m = n
      <4>1. dead'[n].data_seen = {} \/ dead'[n].data_seen = DeadData(n)
        <5>1. PICK found : /\ Collect(n, found)
                           /\ found.data_seen = {} \/ found.data_seen = DeadData(n)
          BY <1>6 DEF CleanupCollect, NothingDead
        <5>2. dead'[n] = found BY <5>1 DEF Collect, TypeOK
        <5> QED BY <5>1, <5>2
      <4> QED BY <2>2, <3>2, <4>1 DEF DeadData
    <3> QED BY <3>1, <3>2
  <2> QED BY <2>1, <2>2 DEF WindowInv, CacheCoversWindow, OncePerWindow, TooOld
<1>7. ASSUME NEW n \in Nodes, CleanupDelete(n) PROVE WindowInv'
  BY <1>7, WindowCleanupDelete
<1>8. ASSUME NEW n \in Nodes, Stop(n) PROVE WindowInv'
  BY <1>8, WindowFrame DEF Stop, dataVars
<1>9. ASSUME NEW n \in Nodes, Start(n) PROVE WindowInv'
  <2>1. now' = now BY <1>9 DEF Start
  <2>2. Len(accepted'[n]) = 0 /\ dead'[n].data_seen = {}
    BY <1>9 DEF Start, NothingDead, TypeOK
  <2>3. \A m \in Nodes \ {n} : /\ accepted'[m] = accepted[m]
                               /\ dataSeen'[m] = dataSeen[m]
                               /\ dead'[m] = dead[m]
    BY <1>9 DEF Start, TypeOK
  <2>4. CacheCoversWindow'
    <3>1. ASSUME NEW m \in Nodes, NEW i \in 1 .. Len(accepted'[m])
          PROVE LET a == accepted'[m][i]
                IN  /\ a.time <= now
                    /\ dataSeen'[m][a.key] # Never => a.time <= dataSeen'[m][a.key]
                    /\ dataSeen'[m][a.key] = Never => now - a.time > DataSeenExpiry
      <4>1. m # n BY <3>1, <2>2
      <4> QED BY <3>1, <4>1, <2>3 DEF WindowInv, CacheCoversWindow
    <3>2. ASSUME NEW m \in Nodes, NEW k \in dead'[m].data_seen
          PROVE  TooOld(dataSeen'[m][k], DataSeenExpiry)
      <4>1. m # n BY <3>2, <2>2
      <4> QED BY <3>2, <4>1, <2>3 DEF WindowInv, CacheCoversWindow
    <3> QED BY <2>1, <3>1, <3>2 DEF CacheCoversWindow, TooOld
  <2>5. OncePerWindow'
    <3> SUFFICES ASSUME NEW m \in Nodes, NEW i \in 1 .. Len(accepted'[m]),
                        NEW j \in 1 .. Len(accepted'[m]), i < j,
                        accepted'[m][i].key = accepted'[m][j].key
                 PROVE  accepted'[m][j].time - accepted'[m][i].time > DataSeenExpiry
      BY DEF OncePerWindow
    <3>1. m # n BY <2>2
    <3> QED BY <3>1, <2>3 DEF WindowInv, OncePerWindow
  <2> QED BY <2>4, <2>5 DEF WindowInv
<1>10. ASSUME NEW c \in air, Lose(c) PROVE WindowInv'
  BY <1>10, WindowFrame DEF Lose, dataVars
<1>11. CASE Tick
  <2>1. now' = now + 1 /\ UNCHANGED <<dataSeen, accepted, dead>> /\ now \in Int
    BY <1>11 DEF Tick, dataVars, TypeOK
  <2>2. \A m \in Nodes : \A i \in 1 .. Len(accepted[m]) : accepted[m][i].time \in Int
    <3>1. \A m \in Nodes : \A i \in 1 .. Len(accepted[m]) : accepted[m][i] \in Accept
      BY DEF TypeOK
    <3> QED BY <3>1 DEF Accept
  <2>3. \A m \in Nodes : \A k \in dead[m].data_seen : dataSeen[m][k] \in Int
    <3>1. \A m \in Nodes : dead[m].data_seen \subseteq Keys BY DEF TypeOK
    <3> QED BY <3>1 DEF TypeOK, Never
  <2>4. CacheCoversWindow'
    BY <2>1, <2>2, <2>3 DEF WindowInv, CacheCoversWindow, TooOld
  <2> QED BY <2>1, <2>4 DEF WindowInv, OncePerWindow
<1>12. CASE UNCHANGED vars
  BY <1>12, WindowFrame DEF vars, dataVars
<1> QED
  BY <1>1, <1>2, <1>3, <1>4, <1>5, <1>6, <1>7, <1>8, <1>9, <1>10, <1>11, <1>12
  DEF Next, OnLinkFrame

\* Duplicate suppression: in every mesh, a process lets the same packet id
\* through a second time (to deliver or to repeat it) only when more than
\* data_seen_expiry_seconds have passed since the first.
THEOREM DuplicateSuppression == Spec => []OncePerWindow
<1>1. Init => WindowInv
  BY DEF Init, WindowInv, CacheCoversWindow, OncePerWindow, NothingDead
<1> QED BY <1>1, TypeCorrect, WindowStep, PTL DEF Spec, WindowInv

-----------------------------------------------------------------------------
(***************************************************************************)
(* End-to-end integrity of DATA.                                           *)
(***************************************************************************)
IntegrityInv == DataWasSent /\ DeliveredWasSent

\* Steps that create no DATA frame and log nothing preserve integrity.
LEMMA IntegrityFrame ==
    ASSUME IntegrityInv, sent \subseteq sent',
           \A c \in air' : c \in air \/ c.frame.type = "OGM",
           \A n \in Nodes : accepted'[n] = accepted[n] \/ Len(accepted'[n]) = 0
    PROVE  IntegrityInv'
<1>1. DataWasSent'
  BY DEF IntegrityInv, DataWasSent
<1>2. DeliveredWasSent'
  <2> SUFFICES ASSUME NEW n \in Nodes, NEW i \in 1 .. Len(accepted'[n]),
                      accepted'[n][i].fate = "delivered"
               PROVE  AccountedFor(sent', n, accepted'[n][i])
    BY DEF DeliveredWasSent
  <2>1. accepted'[n] = accepted[n] OBVIOUS
  <2>2. AccountedFor(sent, n, accepted[n][i])
    BY <2>1 DEF IntegrityInv, DeliveredWasSent
  <2> QED BY <2>1, <2>2 DEF AccountedFor
<1> QED BY <1>1, <1>2 DEF IntegrityInv

\* _handle_data_frame passes on and delivers only what was sent.
LEMMA IntegrityHandleData ==
    ASSUME TypeOK, IntegrityInv, NEW n \in Nodes, NEW c \in air, HandleData(n, c)
    PROVE  IntegrityInv'
<1> DEFINE f == c.frame
           fwd == [f EXCEPT !.ttl = @ - 1]
           log == [key |-> KeyOf(f), payload |-> f.payload, time |-> now,
                   fate |-> Fate(n, f)]
<1>1. f \in DataFrame /\ f.type = "DATA"
  BY DEF HandleData, DataArrives, TypeOK, Copy, OgmFrame, DataFrame
<1>2. PICK s \in sent : /\ s.origin = f.origin /\ s.seqno = f.seqno
                        /\ s.dest = f.dest /\ s.payload = f.payload
  BY <1>1 DEF IntegrityInv, DataWasSent
<1>3. /\ fwd.origin = f.origin /\ fwd.seqno = f.seqno
      /\ fwd.dest = f.dest /\ fwd.payload = f.payload
  BY <1>1 DEF DataFrame
<1> HIDE DEF fwd
<1>4. \A x \in air' : x \in air \/ x.frame = fwd
  <2>1. air' = Medium(c) \cup (IF Fate(n, f) = "forwarded" THEN Broadcast(n, fwd) ELSE {})
    BY DEF HandleData, fwd
  <2>2. \A x \in Broadcast(n, fwd) : x.frame = fwd BY BroadcastCopies
  <2> QED BY <2>1, <2>2 DEF Medium
<1>5. sent' = sent BY DEF HandleData
<1>6. DataWasSent'
  BY <1>2, <1>3, <1>4, <1>5 DEF IntegrityInv, DataWasSent
<1>7. log \in Accept
  BY <1>1, FateType DEF KeyOf, Keys, DataFrame, Accept, TypeOK
<1>8. /\ log.key = <<f.origin, f.seqno>> /\ log.payload = f.payload
      /\ log.fate = Fate(n, f)
  BY DEF KeyOf
<1> HIDE DEF log
<1>9. /\ Len(accepted[n]) \in Nat /\ Len(accepted'[n]) = Len(accepted[n]) + 1
      /\ accepted'[n][Len(accepted[n]) + 1] = log
      /\ \A i \in 1 .. Len(accepted[n]) : accepted'[n][i] = accepted[n][i]
      /\ \A m \in Nodes \ {n} : accepted'[m] = accepted[m]
  <2>1. accepted' = [accepted EXCEPT ![n] = Append(@, log)] BY DEF HandleData, log
  <2> QED BY <2>1, <1>7 DEF TypeOK
<1>10. DeliveredWasSent'
  <2> SUFFICES ASSUME NEW m \in Nodes, NEW i \in 1 .. Len(accepted'[m]),
                      accepted'[m][i].fate = "delivered"
               PROVE  AccountedFor(sent, m, accepted'[m][i])
    BY <1>5 DEF DeliveredWasSent
  <2>1. CASE m # n
    <3>1. accepted'[m] = accepted[m] BY <2>1, <1>9
    <3> QED BY <3>1 DEF IntegrityInv, DeliveredWasSent
  <2>2. CASE m = n /\ i \in 1 .. Len(accepted[n])
    <3>1. accepted'[m][i] = accepted[m][i] BY <2>2, <1>9
    <3> QED BY <2>2, <3>1 DEF IntegrityInv, DeliveredWasSent
  <2>3. CASE m = n /\ i = Len(accepted[n]) + 1
    <3>1. Fate(n, f) = "delivered" BY <2>3, <1>8, <1>9
    <3>2. f.dest = n /\ <<n, f.origin>> \notin CannotDecode BY <3>1 DEF Fate
    <3>3. accepted'[m][i].payload = s.payload /\ accepted'[m][i].key = <<s.origin, s.seqno>>
      BY <2>3, <1>2, <1>8, <1>9
    <3> QED BY <2>3, <3>2, <3>3, <1>2 DEF AccountedFor
  <2> QED BY <2>1, <2>2, <2>3, <1>9
<1> QED BY <1>6, <1>10 DEF IntegrityInv

\* Every step of the mesh layer preserves integrity.
LEMMA IntegrityStep == TypeOK /\ IntegrityInv /\ [Next]_vars => IntegrityInv'
<1> SUFFICES ASSUME TypeOK, IntegrityInv, [Next]_vars PROVE IntegrityInv' OBVIOUS
<1>1. ASSUME NEW n \in Nodes, OgmLoop(n) PROVE IntegrityInv'
  <2> DEFINE ogm == Ogm(n, NextSeqno(n), OgmTtl, n)
  <2>1. ogm.type = "OGM" BY DEF Ogm
  <2>2. air' = air \cup Broadcast(n, ogm) BY <1>1 DEF OgmLoop
  <2> HIDE DEF ogm
  <2>3. \A c \in Broadcast(n, ogm) : c.frame.type = "OGM"
    BY <2>1 DEF Broadcast
  <2> QED BY <1>1, <2>2, <2>3, IntegrityFrame DEF OgmLoop, dataVars
<1>2. ASSUME NEW n \in Nodes, NEW d \in Nodes, NEW p \in Payloads,
             SendApplicationData(n, d, p)
      PROVE IntegrityInv'
  <2> DEFINE data == [type |-> "DATA", ttl |-> OgmTtl, origin |-> n,
                      seqno |-> NextSeqno(n), dest |-> d, payload |-> p]
             s == [origin |-> n, seqno |-> NextSeqno(n), dest |-> d, payload |-> p]
  <2>1. /\ s.origin = data.origin /\ s.seqno = data.seqno
        /\ s.dest = data.dest /\ s.payload = data.payload
    OBVIOUS
  <2>2. sent' = sent \cup {s} /\ air' = air \cup Broadcast(n, data) /\ accepted' = accepted
    BY <1>2 DEF SendApplicationData, dataVars
  <2> HIDE DEF data, s
  <2>3. DataWasSent'
    <3>1. \A c \in air' : c \in air \/ c.frame = data BY <2>2, BroadcastCopies
    <3> QED BY <2>1, <2>2, <3>1 DEF IntegrityInv, DataWasSent
  <2>4. DeliveredWasSent'
    BY <2>2 DEF IntegrityInv, DeliveredWasSent, AccountedFor
  <2> QED BY <2>3, <2>4 DEF IntegrityInv
<1>3. ASSUME NEW n \in Nodes, NEW c \in air, HandleOgm(n, c) PROVE IntegrityInv'
  <2>1. c.frame \in OgmFrame
    BY <1>3 DEF HandleOgm, TypeOK, Copy, OgmFrame, DataFrame
  <2> QED BY <1>3, <2>1, ForwardOgmType, IntegrityFrame DEF HandleOgm, Medium, dataVars
<1>4. ASSUME NEW n \in Nodes, NEW c \in air, DropDuplicate(n, c) PROVE IntegrityInv'
  BY <1>4, IntegrityFrame DEF DropDuplicate, Medium, dataVars
<1>5. ASSUME NEW n \in Nodes, NEW c \in air, HandleData(n, c) PROVE IntegrityInv'
  BY <1>5, IntegrityHandleData
<1>6. ASSUME NEW n \in Nodes, CleanupCollect(n) PROVE IntegrityInv'
  BY <1>6, IntegrityFrame DEF CleanupCollect, Collect, dataVars
<1>7. ASSUME NEW n \in Nodes, CleanupDelete(n) PROVE IntegrityInv'
  BY <1>7, IntegrityFrame DEF CleanupDelete
<1>8. ASSUME NEW n \in Nodes, Stop(n) PROVE IntegrityInv'
  BY <1>8, IntegrityFrame DEF Stop, dataVars
<1>9. ASSUME NEW n \in Nodes, Start(n) PROVE IntegrityInv'
  <2>1. \A m \in Nodes : accepted'[m] = accepted[m] \/ Len(accepted'[m]) = 0
    BY <1>9 DEF Start, TypeOK
  <2> QED BY <1>9, <2>1, IntegrityFrame DEF Start
<1>10. ASSUME NEW c \in air, Lose(c) PROVE IntegrityInv'
  BY <1>10, IntegrityFrame DEF Lose, dataVars
<1>11. CASE Tick
  BY <1>11, IntegrityFrame DEF Tick, dataVars
<1>12. CASE UNCHANGED vars
  BY <1>12, IntegrityFrame DEF vars, dataVars
<1> QED
  BY <1>1, <1>2, <1>3, <1>4, <1>5, <1>6, <1>7, <1>8, <1>9, <1>10, <1>11, <1>12
  DEF Next, OnLinkFrame

\* Integrity: in every mesh, whatever the relays, what the application of a
\* station receives was sent to it by the named origin under that sequence
\* number.
THEOREM EndToEndIntegrity == Spec => []DeliveredWasSent
<1>1. Init => IntegrityInv
  BY DEF Init, IntegrityInv, DataWasSent, DeliveredWasSent
<1> QED BY <1>1, TypeCorrect, IntegrityStep, PTL DEF Spec, IntegrityInv

-----------------------------------------------------------------------------
(***************************************************************************)
(* The cleanup thread and the routing table.                               *)
(***************************************************************************)

\* A step keeps every collected key in its table when it collects nothing new
\* and empties no entry.
LEMMA DeleteFrame ==
    ASSUME TypeOK, DeleteFindsKey, dead' = dead,
           \A n, o \in Nodes : originators[n][o] # NoRoute => originators'[n][o] # NoRoute,
           \A n, p \in Nodes : neighbors[n][p] # Never => neighbors'[n][p] # Never,
           \A n \in Nodes : \A k \in Keys : dataSeen[n][k] # Never => dataSeen'[n][k] # Never
    PROVE  DeleteFindsKey'
<1>1. \A n \in Nodes : /\ dead[n].originators \subseteq Nodes
                       /\ dead[n].neighbors \subseteq Nodes
                       /\ dead[n].data_seen \subseteq Keys
  BY DEF TypeOK
<1> QED BY <1>1 DEF DeleteFindsKey

\* Every step keeps the keys the cleanup thread has collected in their tables.
LEMMA DeleteStep == TypeOK /\ DeleteFindsKey /\ [Next]_vars => DeleteFindsKey'
<1> SUFFICES ASSUME TypeOK, DeleteFindsKey, [Next]_vars PROVE DeleteFindsKey' OBVIOUS
<1>1. ASSUME NEW n \in Nodes, OgmLoop(n) PROVE DeleteFindsKey'
  BY <1>1, DeleteFrame DEF OgmLoop, routeVars, dataVars
<1>2. ASSUME NEW n \in Nodes, NEW d \in Nodes, NEW p \in Payloads,
             SendApplicationData(n, d, p)
      PROVE DeleteFindsKey'
  BY <1>2, DeleteFrame DEF SendApplicationData, routeVars, dataVars
<1>3. ASSUME NEW n \in Nodes, NEW c \in air, HandleOgm(n, c) PROVE DeleteFindsKey'
  <2>1. c.frame \in OgmFrame
    BY <1>3 DEF HandleOgm, TypeOK, Copy, OgmFrame, DataFrame
  <2> DEFINE f == c.frame
             entry == [best_next_hop |-> f.prev_hop, last_seqno |-> f.seqno, last_seen |-> now]
  <2>2. f.prev_hop \in Nodes /\ f.origin \in Nodes /\ f.seqno \in Seqnos
    BY <2>1 DEF OgmFrame
  <2>3. entry # NoRoute
    <3>1. entry \in OriginatorEntry BY <2>2 DEF OriginatorEntry, TypeOK
    <3> QED BY <3>1, NoRouteIsNoEntry
  <2>4. \/ originators' = [originators EXCEPT ![n][f.origin] = entry]
        \/ originators' = originators
    BY <1>3 DEF HandleOgm
  <2> HIDE DEF entry
  <2>5. \A m, o \in Nodes : originators[m][o] # NoRoute => originators'[m][o] # NoRoute
    <3>1. \A m, o \in Nodes : \/ originators'[m][o] = originators[m][o]
                             \/ originators'[m][o] = entry
      <4>1. originators \in [Nodes -> [Nodes -> OriginatorEntry \cup {NoRoute}]] BY DEF TypeOK
      <4> QED BY <4>1, <2>2, <2>4, TableUpdate
    <3> QED BY <2>3, <3>1
  <2>6. \A m, p \in Nodes : neighbors[m][p] # Never => neighbors'[m][p] # Never
    BY <1>3, <2>2 DEF HandleOgm, TypeOK, Never
  <2>7. dead' = dead /\ dataSeen' = dataSeen
    BY <1>3 DEF HandleOgm, dataVars
  <2> QED BY <2>5, <2>6, <2>7, DeleteFrame
<1>4. ASSUME NEW n \in Nodes, NEW c \in air, DropDuplicate(n, c) PROVE DeleteFindsKey'
  BY <1>4, DeleteFrame DEF DropDuplicate, routeVars, dataVars
<1>5. ASSUME NEW n \in Nodes, NEW c \in air, HandleData(n, c) PROVE DeleteFindsKey'
  <2>1. \A m \in Nodes : \A k \in Keys : dataSeen[m][k] # Never => dataSeen'[m][k] # Never
    <3>1. dataSeen' = [dataSeen EXCEPT ![n][KeyOf(c.frame)] = now] BY <1>5 DEF HandleData
    <3>2. now # Never BY DEF TypeOK, Never
    <3> QED BY <3>1, <3>2 DEF TypeOK
  <2> QED BY <1>5, <2>1, DeleteFrame DEF HandleData, routeVars
<1>6. ASSUME NEW n \in Nodes, CleanupCollect(n) PROVE DeleteFindsKey'
  <2>1. UNCHANGED <<originators, neighbors, dataSeen>>
    BY <1>6 DEF CleanupCollect, Collect, routeVars, dataVars
  <2>2. PICK found : /\ Collect(n, found)
                     /\ found.originators = {} \/ found.originators = DeadOriginators(n)
                     /\ found.neighbors = {} \/ found.neighbors = DeadNeighbors(n)
                     /\ found.data_seen = {} \/ found.data_seen = DeadData(n)
    BY <1>6 DEF CleanupCollect, NothingDead
  <2>3. dead'[n] = found /\ \A m \in Nodes \ {n} : dead'[m] = dead[m]
    BY <2>2 DEF Collect, TypeOK
  <2>4. \A o \in DeadOriginators(n) : originators[n][o] # NoRoute
    BY DEF DeadOriginators, TooOld, NoRoute
  <2>5. /\ \A p \in DeadNeighbors(n) : neighbors[n][p] # Never
        /\ \A k \in DeadData(n) : dataSeen[n][k] # Never
    BY DEF DeadNeighbors, DeadData, TooOld
  <2> QED BY <2>1, <2>2, <2>3, <2>4, <2>5 DEF DeleteFindsKey
<1>7. ASSUME NEW n \in Nodes, CleanupDelete(n) PROVE DeleteFindsKey'
  <2>1. dead'[n].originators = {} /\ dead'[n].neighbors = {} /\ dead'[n].data_seen = {}
    BY <1>7 DEF CleanupDelete, NothingDead, TypeOK
  <2>2. \A m \in Nodes \ {n} : /\ dead'[m] = dead[m]
                               /\ originators'[m] = originators[m]
                               /\ neighbors'[m] = neighbors[m]
                               /\ dataSeen'[m] = dataSeen[m]
    BY <1>7 DEF CleanupDelete, TypeOK
  <2> QED BY <2>1, <2>2 DEF DeleteFindsKey
<1>8. ASSUME NEW n \in Nodes, Stop(n) PROVE DeleteFindsKey'
  BY <1>8, DeleteFrame DEF Stop, routeVars, dataVars
<1>9. ASSUME NEW n \in Nodes, Start(n) PROVE DeleteFindsKey'
  <2>1. dead'[n].originators = {} /\ dead'[n].neighbors = {} /\ dead'[n].data_seen = {}
    BY <1>9 DEF Start, NothingDead, TypeOK
  <2>2. \A m \in Nodes \ {n} : /\ dead'[m] = dead[m]
                               /\ originators'[m] = originators[m]
                               /\ neighbors'[m] = neighbors[m]
                               /\ dataSeen'[m] = dataSeen[m]
    BY <1>9 DEF Start, TypeOK
  <2> QED BY <2>1, <2>2 DEF DeleteFindsKey
<1>10. ASSUME NEW c \in air, Lose(c) PROVE DeleteFindsKey'
  BY <1>10, DeleteFrame DEF Lose, routeVars, dataVars
<1>11. CASE Tick
  BY <1>11, DeleteFrame DEF Tick, routeVars, dataVars
<1>12. CASE UNCHANGED vars
  BY <1>12, DeleteFrame DEF vars, routeVars, dataVars
<1> QED
  BY <1>1, <1>2, <1>3, <1>4, <1>5, <1>6, <1>7, <1>8, <1>9, <1>10, <1>11, <1>12
  DEF Next, OnLinkFrame

\* The del statements of _cleanup_loop never raise KeyError, although the
\* tables change between collecting and deleting.
THEOREM CleanupNeverRaises == Spec => []DeleteFindsKey
<1>1. ASSUME Init PROVE DeleteFindsKey
  <2>1. \A n \in Nodes : dead[n] = NothingDead BY <1>1 DEF Init
  <2>2. /\ NothingDead.originators = {} /\ NothingDead.neighbors = {}
        /\ NothingDead.data_seen = {}
    BY DEF NothingDead
  <2> QED BY <2>1, <2>2 DEF DeleteFindsKey
<1> QED BY <1>1, TypeCorrect, DeleteStep, PTL DEF Spec

HopInv == HopIsTransmitter /\ NextHopInRange

\* A step that learns no route and puts only correctly labelled copies on the
\* air preserves the invariant.
LEMMA HopFrame ==
    ASSUME HopInv,
           \A c \in air' : \/ c \in air
                           \/ /\ <<c.from, c.to>> \in Hears
                              /\ c.frame.type = "OGM" => c.frame.prev_hop = c.from,
           \A n, o \in Nodes : \/ originators'[n][o] = originators[n][o]
                               \/ originators'[n][o] = NoRoute
    PROVE  HopInv'
BY DEF HopInv, HopIsTransmitter, NextHopInRange, HasRoute

\* Every step of the mesh layer preserves the invariant.
LEMMA HopStep == TypeOK /\ HopInv /\ [Next]_vars => HopInv'
<1> SUFFICES ASSUME TypeOK, HopInv, [Next]_vars PROVE HopInv' OBVIOUS
<1>1. ASSUME NEW n \in Nodes, OgmLoop(n) PROVE HopInv'
  <2> DEFINE ogm == Ogm(n, NextSeqno(n), OgmTtl, n)
  <2>1. ogm.prev_hop = n BY DEF Ogm
  <2>2. air' = air \cup Broadcast(n, ogm) BY <1>1 DEF OgmLoop
  <2> HIDE DEF ogm
  <2>3. \A c \in Broadcast(n, ogm) : <<c.from, c.to>> \in Hears /\ c.frame.prev_hop = c.from
    <3> TAKE c \in Broadcast(n, ogm)
    <3>1. PICK m \in InRange(n) : c = [to |-> m, from |-> n, frame |-> ogm] BY DEF Broadcast
    <3> QED BY <3>1, <2>1 DEF InRange
  <2> QED BY <1>1, <2>2, <2>3, HopFrame DEF OgmLoop, routeVars
<1>2. ASSUME NEW n \in Nodes, NEW d \in Nodes, NEW p \in Payloads,
             SendApplicationData(n, d, p)
      PROVE HopInv'
  <2> DEFINE data == [type |-> "DATA", ttl |-> OgmTtl, origin |-> n,
                      seqno |-> NextSeqno(n), dest |-> d, payload |-> p]
  <2>1. data.type = "DATA" OBVIOUS
  <2>2. air' = air \cup Broadcast(n, data) BY <1>2 DEF SendApplicationData
  <2> HIDE DEF data
  <2>3. \A c \in Broadcast(n, data) : <<c.from, c.to>> \in Hears /\ c.frame.type = "DATA"
    <3> TAKE c \in Broadcast(n, data)
    <3>1. PICK m \in InRange(n) : c = [to |-> m, from |-> n, frame |-> data] BY DEF Broadcast
    <3> QED BY <3>1, <2>1 DEF InRange
  <2> QED BY <1>2, <2>2, <2>3, HopFrame DEF SendApplicationData, routeVars
<1>3. ASSUME NEW n \in Nodes, NEW c \in air, HandleOgm(n, c) PROVE HopInv'
  <2> DEFINE f == c.frame
             entry == [best_next_hop |-> f.prev_hop, last_seqno |-> f.seqno, last_seen |-> now]
  <2>1. f \in OgmFrame /\ f.type = "OGM" /\ c.to = n
    BY <1>3 DEF HandleOgm, TypeOK, Copy, OgmFrame, DataFrame
  <2>2. HopIsTransmitter'
    BY <1>3, <2>1, ForwardOgmType DEF HandleOgm, Medium, HopInv, HopIsTransmitter
  <2>3. <<f.prev_hop, n>> \in Hears /\ f.origin \in Nodes
    BY <2>1 DEF HopInv, HopIsTransmitter, OgmFrame
  <2>4. entry.best_next_hop = f.prev_hop OBVIOUS
  <2>5. \/ originators' = [originators EXCEPT ![n][f.origin] = entry]
        \/ originators' = originators
    BY <1>3 DEF HandleOgm
  <2> HIDE DEF entry
  <2>6. \A m, o \in Nodes : \/ originators'[m][o] = originators[m][o]
                            \/ m = n /\ originators'[m][o] = entry
    <3>1. originators \in [Nodes -> [Nodes -> OriginatorEntry \cup {NoRoute}]] BY DEF TypeOK
    <3> QED BY <3>1, <2>3, <2>5, TableUpdate
  <2>7. NextHopInRange'
    BY <2>3, <2>4, <2>6 DEF HopInv, NextHopInRange, HasRoute
  <2> QED BY <2>2, <2>7 DEF HopInv
<1>4. ASSUME NEW n \in Nodes, NEW c \in air, DropDuplicate(n, c) PROVE HopInv'
  BY <1>4, HopFrame DEF DropDuplicate, Medium, routeVars
<1>5. ASSUME NEW n \in Nodes, NEW c \in air, HandleData(n, c) PROVE HopInv'
  <2> DEFINE f == c.frame
             fwd == [f EXCEPT !.ttl = @ - 1]
  <2>1. f \in DataFrame
    BY <1>5 DEF HandleData, DataArrives, TypeOK, Copy, OgmFrame, DataFrame
  <2>2. fwd.type = "DATA" BY <2>1 DEF DataFrame
  <2>3. air' = Medium(c) \cup (IF Fate(n, f) = "forwarded" THEN Broadcast(n, fwd) ELSE {})
    BY <1>5 DEF HandleData
  <2> HIDE DEF fwd
  <2>4. \A x \in Broadcast(n, fwd) : <<x.from, x.to>> \in Hears /\ x.frame.type = "DATA"
    <3> TAKE x \in Broadcast(n, fwd)
    <3>1. PICK m \in InRange(n) : x = [to |-> m, from |-> n, frame |-> fwd] BY DEF Broadcast
    <3> QED BY <3>1, <2>2 DEF InRange
  <2>5. originators' = originators BY <1>5 DEF HandleData, routeVars
  <2> QED BY <2>3, <2>4, <2>5, HopFrame DEF Medium
<1>6. ASSUME NEW n \in Nodes, CleanupCollect(n) PROVE HopInv'
  BY <1>6, HopFrame DEF CleanupCollect, Collect, routeVars
<1>7. ASSUME NEW n \in Nodes, CleanupDelete(n) PROVE HopInv'
  <2>1. air' = air BY <1>7 DEF CleanupDelete
  <2>2. \A m, o \in Nodes : \/ originators'[m][o] = originators[m][o]
                            \/ originators'[m][o] = NoRoute
    BY <1>7 DEF CleanupDelete, TypeOK
  <2> QED BY <2>1, <2>2, HopFrame
<1>8. ASSUME NEW n \in Nodes, Stop(n) PROVE HopInv'
  BY <1>8, HopFrame DEF Stop, routeVars
<1>9. ASSUME NEW n \in Nodes, Start(n) PROVE HopInv'
  <2>1. air' = air BY <1>9 DEF Start
  <2>2. \A m, o \in Nodes : \/ originators'[m][o] = originators[m][o]
                            \/ originators'[m][o] = NoRoute
    BY <1>9 DEF Start, EmptyRoutes, TypeOK
  <2> QED BY <2>1, <2>2, HopFrame
<1>10. ASSUME NEW c \in air, Lose(c) PROVE HopInv'
  BY <1>10, HopFrame DEF Lose, routeVars
<1>11. CASE Tick
  BY <1>11, HopFrame DEF Tick, routeVars
<1>12. CASE UNCHANGED vars
  BY <1>12, HopFrame DEF vars, routeVars
<1> QED
  BY <1>1, <1>2, <1>3, <1>4, <1>5, <1>6, <1>7, <1>8, <1>9, <1>10, <1>11, <1>12
  DEF Next, OnLinkFrame

\* A next hop in a routing table is always a station in range of the table's
\* owner, through forwarding, expiry and restarts.
THEOREM NextHopsInRange == Spec => []NextHopInRange
<1>1. Init => HopInv
  BY DEF Init, HopInv, HopIsTransmitter, NextHopInRange, HasRoute, EmptyRoutes
<1> QED BY <1>1, TypeCorrect, HopStep, PTL DEF Spec, HopInv

-----------------------------------------------------------------------------
(***************************************************************************)
(* Routes without loops.  A station that restarts, or whose route expires, *)
(* forgets the sequence number it has seen and may take the route of a     *)
(* station behind it, so the statement is about a run in which neither     *)
(* happens: nobody is started twice, and the run is no longer than         *)
(* route_expiry_seconds.  Any topology, loss, delay, duplication and       *)
(* reordering is allowed, and so is a wrap of the sequence numbers.        *)
(***************************************************************************)
NothingForgotten == /\ \A n \in Nodes : MaxBoots[n] <= 1
                    /\ MaxTime <= RouteExpiry

\* Station h has heard of originator o, with sequence number s or a later one.
Heard(h, o, s) == HasRoute(h, o) /\ originators[h][o].last_seqno >= s

\* Every process is the first one of its station.
FirstProcess == \A n \in Nodes : up[n] /\ boots[n] >= 1

\* No route is about to be deleted.
RoutesKept == \A n \in Nodes : dead[n].originators = {}

\* A station repeats only what it has heard.
RelayHeard ==
    \A c \in air : c.frame.type = "OGM" /\ c.frame.prev_hop # c.frame.origin
                       => Heard(c.frame.prev_hop, c.frame.origin, c.frame.seqno)

\* The next hop of a route knows the originator at least as recently.
HopHeard ==
    \A n, o \in Nodes :
        HasRoute(n, o) /\ originators[n][o].best_next_hop # o
            => Heard(originators[n][o].best_next_hop, o, originators[n][o].last_seqno)

LoopInv == /\ FirstProcess
           /\ RoutesKept
           /\ RelayHeard
           /\ HopHeard
           /\ RoutesLoopFree

\* A step that leaves the routes alone and puts on the air only OGMs of their
\* originator preserves the routing part of the invariant.
LEMMA LoopFrame ==
    ASSUME LoopInv, originators' = originators,
           \A c \in air' \ air : c.frame.type = "OGM" => c.frame.prev_hop = c.frame.origin
    PROVE  RelayHeard' /\ HopHeard' /\ RoutesLoopFree'
<1>1. \A n, o \in Nodes : HasRoute(n, o)' <=> HasRoute(n, o) BY DEF HasRoute
<1>2. RelayHeard'
  BY DEF LoopInv, RelayHeard, Heard, HasRoute
<1>3. HopHeard'
  BY DEF LoopInv, HopHeard, Heard, HasRoute
<1>4. RoutesLoopFree'
  BY <1>1 DEF LoopInv, RoutesLoopFree
<1> QED BY <1>2, <1>3, <1>4

\* The same step, when it also leaves the life cycle and the cleanup alone.
LEMMA LoopFrameAll ==
    ASSUME LoopInv, originators' = originators, up' = up, boots' = boots, dead' = dead,
           \A c \in air' \ air : c.frame.type = "OGM" => c.frame.prev_hop = c.frame.origin
    PROVE  LoopInv'
<1>1. FirstProcess' /\ RoutesKept' BY DEF LoopInv, FirstProcess, RoutesKept
<1> QED BY <1>1, LoopFrame DEF LoopInv

\* No route is old enough to be deleted within route_expiry_seconds.
LEMMA NoDeadRoute ==
    ASSUME NothingForgotten, TypeOK, NEW n \in Nodes
    PROVE  DeadOriginators(n) = {}
<1> SUFFICES ASSUME NEW o \in DeadOriginators(n) PROVE FALSE OBVIOUS
<1>1. o \in Nodes /\ TooOld(originators[n][o].last_seen, RouteExpiry)
  BY DEF DeadOriginators
<1>2. originators[n][o] \in OriginatorEntry \cup {NoRoute} BY <1>1 DEF TypeOK
<1>3. originators[n][o].last_seen # Never BY <1>1 DEF TooOld
<1>4. originators[n][o].last_seen \in 0 .. MaxTime
  BY <1>2, <1>3 DEF OriginatorEntry, NoRoute
<1> QED BY <1>1, <1>4 DEF TooOld, NothingForgotten, TypeOK

\* _handle_ogm when it replaces the route: the new next hop is not the station
\* itself, and no next hop leads back to it.
LEMMA LoopAdopt ==
    ASSUME TypeOK, LoopInv, NEW n \in Nodes, NEW f \in OgmFrame, Fresher(n, f),
           f.prev_hop # f.origin => Heard(f.prev_hop, f.origin, f.seqno),
           originators' = [originators EXCEPT ![n][f.origin] =
               [best_next_hop |-> f.prev_hop, last_seqno |-> f.seqno, last_seen |-> now]]
    PROVE  /\ \A m, o \in Nodes, s \in Seqnos : Heard(m, o, s) => Heard(m, o, s)'
           /\ Heard(n, f.origin, f.seqno)'
           /\ HopHeard'
           /\ RoutesLoopFree'
<1> PICK h, g, s : h = f.prev_hop /\ g = f.origin /\ s = f.seqno OBVIOUS
<1>1. h \in Nodes /\ g \in Nodes /\ s \in Seqnos BY DEF OgmFrame
<1> DEFINE e == [best_next_hop |-> h, last_seqno |-> s, last_seen |-> now]
<1>2. e.best_next_hop = h /\ e.last_seqno = s /\ e # NoRoute /\ e.last_seqno # Never
  BY <1>1 DEF NoRoute, Never, Seqnos
<1>3. originators' = [originators EXCEPT ![n][g] = e] OBVIOUS
<1> HIDE DEF e
<1>4. \A m, o \in Nodes :
        originators'[m][o] = IF m = n /\ o = g THEN e ELSE originators[m][o]
  <2>1. originators \in [Nodes -> [Nodes -> OriginatorEntry \cup {NoRoute}]] BY DEF TypeOK
  <2>2. \A m, o \in Nodes : [originators EXCEPT ![n][g] = e][m][o]
                              = IF m = n /\ o = g THEN e ELSE originators[m][o]
    BY <1>1, <2>1, TableUpdate
  <2> QED BY <1>3, <2>2
<1>5. ~Heard(n, g, s)
  <2>1. CASE originators[n][g] = NoRoute BY <2>1 DEF Heard, HasRoute
  <2>2. CASE originators[n][g] # NoRoute
    <3>1. originators[n][g] \in OriginatorEntry BY <1>1, <2>2 DEF TypeOK
    <3>2. originators[n][g].last_seqno \in Seqnos BY <3>1 DEF OriginatorEntry
    <3>3. s > originators[n][g].last_seqno BY <2>2 DEF Fresher
    <3> QED BY <1>1, <3>2, <3>3 DEF Heard, Seqnos
  <2> QED BY <2>1, <2>2
<1>6. h # g => Heard(h, g, s) /\ h # n
  BY <1>5
<1>7. \A m, o \in Nodes : HasRoute(m, o) => originators[m][o] \in OriginatorEntry
  BY DEF TypeOK, HasRoute
<1>8. ASSUME NEW m \in Nodes, NEW o \in Nodes, NEW t \in Seqnos, Heard(m, o, t)
      PROVE  Heard(m, o, t)'
  <2>1. CASE m = n /\ o = g
    <3>1. originators[n][g].last_seqno \in Seqnos
      BY <1>7, <1>8, <2>1 DEF Heard, OriginatorEntry
    <3>2. t <= s
      BY <1>1, <1>5, <1>8, <2>1, <3>1 DEF Heard, Seqnos
    <3> QED BY <1>2, <1>4, <1>8, <2>1, <3>2 DEF Heard, HasRoute, Seqnos
  <2>2. CASE ~(m = n /\ o = g)
    BY <1>4, <1>8, <2>2 DEF Heard, HasRoute
  <2> QED BY <2>1, <2>2
<1>9. Heard(n, g, s)'
  BY <1>1, <1>2, <1>4 DEF Heard, HasRoute, Seqnos
<1>10. HopHeard'
  <2> SUFFICES ASSUME NEW m \in Nodes, NEW o \in Nodes, HasRoute(m, o)',
                      originators'[m][o].best_next_hop # o
               PROVE  Heard(originators[m][o].best_next_hop, o, originators[m][o].last_seqno)'
    BY DEF HopHeard
  <2> PICK k, t : k = originators'[m][o].best_next_hop /\ t = originators'[m][o].last_seqno
    OBVIOUS
  <2>1. Heard(k, o, t) /\ k \in Nodes /\ t \in Seqnos
    <3>1. CASE m = n /\ o = g
      BY <1>1, <1>2, <1>4, <1>6, <3>1
    <3>2. CASE ~(m = n /\ o = g)
      <4>1. originators'[m][o] = originators[m][o] BY <1>4, <3>2
      <4>2. HasRoute(m, o) BY <4>1 DEF HasRoute
      <4>3. k \in Nodes /\ t \in Seqnos BY <1>7, <4>1, <4>2 DEF OriginatorEntry
      <4> QED BY <4>1, <4>2, <4>3 DEF LoopInv, HopHeard
    <3> QED BY <3>1, <3>2
  <2>2. Heard(k, o, t)' BY <1>8, <2>1
  <2> QED BY <2>2 DEF Heard, HasRoute
<1>11. RoutesLoopFree'
  <2> SUFFICES ASSUME NEW o \in Nodes, NEW S \in SUBSET (Nodes \ {o}), S # {},
                      \A m \in S : /\ HasRoute(m, o)'
                                   /\ originators'[m][o].best_next_hop \in S
               PROVE  FALSE
    BY DEF RoutesLoopFree
  <2>1. CASE n \in S /\ o = g
    <3> DEFINE T == {m \in S : m # n /\ Heard(m, g, s)}
    <3>1. h \in S BY <1>2, <1>4, <2>1
    <3>2. h \in T BY <1>6, <2>1, <3>1
    <3>3. ASSUME NEW m \in T
          PROVE  HasRoute(m, g) /\ originators[m][g].best_next_hop \in T
      <4>1. m \in Nodes /\ m \in S /\ m # n /\ Heard(m, g, s) OBVIOUS
      <4>2. originators'[m][g] = originators[m][g] BY <1>1, <1>4, <4>1
      <4> PICK k : k = originators[m][g].best_next_hop OBVIOUS
      <4>3. k \in S /\ k # g BY <2>1, <4>1, <4>2
      <4>4. Heard(k, g, originators[m][g].last_seqno)
        BY <1>1, <4>1, <4>3 DEF LoopInv, HopHeard, Heard
      <4>5. originators[m][g].last_seqno \in Seqnos /\ originators[k][g].last_seqno \in Seqnos
        BY <1>1, <1>7, <4>1, <4>3, <4>4 DEF Heard, OriginatorEntry
      <4>6. Heard(k, g, s) BY <1>1, <4>1, <4>4, <4>5 DEF Heard, Seqnos
      <4>7. k # n BY <1>5, <4>6
      <4> QED BY <4>1, <4>3, <4>6, <4>7 DEF Heard
    <3>4. T \in SUBSET (Nodes \ {g}) /\ T # {} BY <2>1, <3>2
    <3> HIDE DEF T
    <3> QED BY <1>1, <3>3, <3>4 DEF LoopInv, RoutesLoopFree
  <2>2. CASE ~(n \in S /\ o = g)
    <3>1. \A m \in S : originators'[m][o] = originators[m][o] BY <1>4, <2>2
    <3>2. \A m \in S : HasRoute(m, o) /\ originators[m][o].best_next_hop \in S
      BY <3>1 DEF HasRoute
    <3> QED BY <3>2 DEF LoopInv, RoutesLoopFree
  <2> QED BY <2>1, <2>2
<1> QED BY <1>8, <1>9, <1>10, <1>11

\* _handle_ogm keeps the routes free of loops, and what it repeats it has heard.
LEMMA LoopHandleOgm ==
    ASSUME TypeOK, LoopInv, NEW n \in Nodes, NEW c \in air, HandleOgm(n, c)
    PROVE  LoopInv'
<1> PICK f : f = c.frame OBVIOUS
<1>1. f \in OgmFrame /\ f.type = "OGM"
  BY DEF HandleOgm, TypeOK, Copy, OgmFrame, DataFrame
<1>2. f.origin \in Nodes /\ f.seqno \in Seqnos /\ f.prev_hop \in Nodes BY <1>1 DEF OgmFrame
<1>3. FirstProcess' /\ RoutesKept'
  BY DEF HandleOgm, nodeVars, LoopInv, FirstProcess, RoutesKept
<1>4. f.prev_hop # f.origin => Heard(f.prev_hop, f.origin, f.seqno)
  BY <1>1 DEF LoopInv, RelayHeard
<1>5. /\ \A m, o \in Nodes, s \in Seqnos : Heard(m, o, s) => Heard(m, o, s)'
      /\ Heard(n, f.origin, f.seqno)'
      /\ HopHeard' /\ RoutesLoopFree'
  <2>1. CASE Fresher(n, f)
    <3>1. originators' = [originators EXCEPT ![n][f.origin] =
            [best_next_hop |-> f.prev_hop, last_seqno |-> f.seqno, last_seen |-> now]]
      BY <2>1 DEF HandleOgm
    <3> QED BY <1>1, <1>4, <2>1, <3>1, LoopAdopt
  <2>2. CASE ~Fresher(n, f)
    <3>1. originators' = originators BY <2>2 DEF HandleOgm
    <3>2. Heard(n, f.origin, f.seqno)
      <4>1. HasRoute(n, f.origin) /\ ~(f.seqno > originators[n][f.origin].last_seqno)
        BY <2>2 DEF Fresher, HasRoute
      <4>2. originators[n][f.origin].last_seqno \in Seqnos
        BY <1>2, <4>1 DEF HasRoute, TypeOK, OriginatorEntry
      <4> QED BY <1>2, <4>1, <4>2 DEF Heard, Seqnos
    <3>3. \A m, o, s : Heard(m, o, s) <=> Heard(m, o, s)' BY <3>1 DEF Heard, HasRoute
    <3>4. HopHeard' BY <3>1 DEF LoopInv, HopHeard, Heard, HasRoute
    <3>5. RoutesLoopFree' BY <3>1 DEF LoopInv, RoutesLoopFree, HasRoute
    <3> QED BY <3>2, <3>3, <3>4, <3>5
  <2> QED BY <2>1, <2>2
<1>6. RelayHeard'
  <2> SUFFICES ASSUME NEW d \in air', d.frame.type = "OGM",
                      d.frame.prev_hop # d.frame.origin
               PROVE  Heard(d.frame.prev_hop, d.frame.origin, d.frame.seqno)'
    BY DEF RelayHeard
  <2>1. d \in air \/ d \in ForwardOgm(n, f)
    BY DEF HandleOgm, Medium
  <2>2. CASE d \in air
    <3>1. d.frame \in OgmFrame BY <2>2 DEF TypeOK, Copy, OgmFrame, DataFrame
    <3>2. Heard(d.frame.prev_hop, d.frame.origin, d.frame.seqno)
      BY <2>2 DEF LoopInv, RelayHeard
    <3> QED BY <1>5, <3>1, <3>2 DEF OgmFrame
  <2>3. CASE d \in ForwardOgm(n, f)
    <3> PICK g : g = Ogm(f.origin, f.seqno, f.ttl - 1, n) OBVIOUS
    <3>1. d \in Broadcast(n, g) BY <2>3 DEF ForwardOgm
    <3>2. d.frame = g BY <3>1 DEF Broadcast
    <3>3. d.frame.prev_hop = n /\ d.frame.origin = f.origin /\ d.frame.seqno = f.seqno
      BY <3>2 DEF Ogm
    <3> QED BY <1>5, <3>3 DEF Heard, HasRoute
  <2> QED BY <2>1, <2>2, <2>3
<1> QED BY <1>3, <1>5, <1>6 DEF LoopInv

\* Every step of the mesh layer preserves the invariant while nothing is
\* forgotten.
LEMMA LoopStep ==
    ASSUME NothingForgotten PROVE TypeOK /\ LoopInv /\ [Next]_vars => LoopInv'
<1> SUFFICES ASSUME TypeOK, LoopInv, [Next]_vars PROVE LoopInv' OBVIOUS
<1>1. ASSUME NEW n \in Nodes, OgmLoop(n) PROVE LoopInv'
  <2>1. \A c \in air' \ air : c.frame = Ogm(n, NextSeqno(n), OgmTtl, n)
    BY <1>1, BroadcastCopies DEF OgmLoop
  <2>2. \A c \in air' \ air : c.frame.prev_hop = c.frame.origin BY <2>1 DEF Ogm
  <2> QED BY <1>1, <2>2, LoopFrameAll DEF OgmLoop, routeVars
<1>2. ASSUME NEW n \in Nodes, NEW d \in Nodes, NEW p \in Payloads,
             SendApplicationData(n, d, p)
      PROVE LoopInv'
  <2> PICK data : data = [type |-> "DATA", ttl |-> OgmTtl, origin |-> n,
                          seqno |-> NextSeqno(n), dest |-> d, payload |-> p]
    OBVIOUS
  <2>1. air' = air \cup Broadcast(n, data) BY <1>2 DEF SendApplicationData
  <2>2. data.type # "OGM" OBVIOUS
  <2>3. ASSUME NEW c \in air' \ air PROVE c.frame.type # "OGM"
    <3>1. c \in Broadcast(n, data) BY <2>1
    <3>2. c.frame = data BY <3>1 DEF Broadcast
    <3> QED BY <2>2, <3>2
  <2> QED BY <1>2, <2>3, LoopFrameAll DEF SendApplicationData, routeVars
<1>3. ASSUME NEW n \in Nodes, NEW c \in air, HandleOgm(n, c) PROVE LoopInv'
  BY <1>3, LoopHandleOgm
<1>4. ASSUME NEW n \in Nodes, NEW c \in air, DropDuplicate(n, c) PROVE LoopInv'
  <2>1. air' \subseteq air BY <1>4 DEF DropDuplicate, Medium
  <2> QED BY <1>4, <2>1, LoopFrameAll DEF DropDuplicate, nodeVars, routeVars
<1>5. ASSUME NEW n \in Nodes, NEW c \in air, HandleData(n, c) PROVE LoopInv'
  <2> PICK fwd : fwd = [c.frame EXCEPT !.ttl = @ - 1] OBVIOUS
  <2>1. fwd.type # "OGM"
    BY <1>5 DEF HandleData, DataArrives, TypeOK, Copy, OgmFrame, DataFrame
  <2>2. \A d \in air' \ air : d \in Broadcast(n, fwd)
    BY <1>5 DEF HandleData, Medium
  <2>3. ASSUME NEW d \in air' \ air PROVE d.frame.type # "OGM"
    <3>1. d \in Broadcast(n, fwd) BY <2>2
    <3>2. d.frame = fwd BY <3>1 DEF Broadcast
    <3> QED BY <2>1, <3>2
  <2> QED BY <1>5, <2>3, LoopFrameAll DEF HandleData, nodeVars, routeVars
<1>6. ASSUME NEW n \in Nodes, CleanupCollect(n) PROVE LoopInv'
  <2>1. PICK found : Collect(n, found) /\ found.originators = {}
    BY <1>6, NoDeadRoute DEF CleanupCollect, NothingDead
  <2>2. RoutesKept'
    BY <2>1 DEF Collect, LoopInv, RoutesKept, TypeOK
  <2>3. FirstProcess' BY <2>1 DEF Collect, nodeVars, LoopInv, FirstProcess
  <2> QED BY <2>1, <2>2, <2>3, LoopFrame DEF Collect, routeVars, LoopInv
<1>7. ASSUME NEW n \in Nodes, CleanupDelete(n) PROVE LoopInv'
  <2>1. RoutesKept' BY <1>7 DEF CleanupDelete, NothingDead, LoopInv, RoutesKept, TypeOK
  <2>2. FirstProcess' BY <1>7 DEF CleanupDelete, nodeVars, LoopInv, FirstProcess
  <2>3. originators' = originators
    <3>1. dead[n].originators = {} BY DEF LoopInv, RoutesKept
    <3>2. [o \in Nodes |-> IF o \in dead[n].originators THEN NoRoute ELSE originators[n][o]]
            = originators[n]
      BY <3>1 DEF TypeOK
    <3>3. originators' = [originators EXCEPT ![n] =
            [o \in Nodes |-> IF o \in dead[n].originators THEN NoRoute ELSE originators[n][o]]]
      BY <1>7 DEF CleanupDelete
    <3> QED BY <3>2, <3>3 DEF TypeOK
  <2> QED BY <1>7, <2>1, <2>2, <2>3, LoopFrame DEF CleanupDelete, LoopInv
<1>8. ASSUME NEW n \in Nodes, Stop(n) PROVE LoopInv'
  BY <1>8 DEF Stop, NothingForgotten, LoopInv, FirstProcess, TypeOK
<1>9. ASSUME NEW n \in Nodes, Start(n) PROVE LoopInv'
  BY <1>9 DEF Start, LoopInv, FirstProcess
<1>10. ASSUME NEW c \in air, Lose(c) PROVE LoopInv'
  <2>1. c.to \in Nodes BY DEF TypeOK, Copy
  <2> QED BY <1>10, <2>1 DEF Lose, LoopInv, FirstProcess
<1>11. CASE Tick
  BY <1>11, LoopFrameAll DEF Tick, nodeVars, routeVars
<1>12. CASE UNCHANGED vars
  BY <1>12, LoopFrameAll DEF vars, nodeVars, routeVars
<1> QED
  BY <1>1, <1>2, <1>3, <1>4, <1>5, <1>6, <1>7, <1>8, <1>9, <1>10, <1>11, <1>12
  DEF Next, OnLinkFrame

\* Stations that know no route have no loop.
LEMMA LoopInit == Init => LoopInv
<1> SUFFICES ASSUME Init PROVE LoopInv OBVIOUS
<1>1. FirstProcess /\ RoutesKept /\ RelayHeard
  BY DEF Init, FirstProcess, RoutesKept, RelayHeard, NothingDead
<1>2. \A n, o \in Nodes : ~HasRoute(n, o) BY DEF Init, EmptyRoutes, HasRoute
<1>3. HopHeard BY <1>2 DEF HopHeard
<1>4. RoutesLoopFree BY <1>2 DEF RoutesLoopFree
<1> QED BY <1>1, <1>3, <1>4 DEF LoopInv

\* Routing (_handle_ogm): as long as no station forgets what it has heard,
\* the next hops towards an originator never form a circle, of any length,
\* whatever the topology, the losses, the delays, the duplicates and the order
\* in which OGMs arrive: along a route the sequence numbers never decrease.
THEOREM NoRoutingLoop == NothingForgotten => (Spec => []RoutesLoopFree)
<1> SUFFICES ASSUME NothingForgotten PROVE Spec => []RoutesLoopFree OBVIOUS
<1>1. Init => TypeOK /\ LoopInv BY InitType, LoopInit
<1>2. TypeOK /\ LoopInv /\ [Next]_vars => (TypeOK /\ LoopInv)' BY StepType, LoopStep
<1>3. LoopInv => RoutesLoopFree BY DEF LoopInv
<1> QED BY <1>1, <1>2, <1>3, PTL DEF Spec
=============================================================================
