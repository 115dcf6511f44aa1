------------------------------ MODULE MeshNode ------------------------------
(***************************************************************************)
(* The mesh layer (mesh_node.py) of a set of stations that share a radio   *)
(* or TCP medium: originator messages (OGMs) that build routes, DATA       *)
(* frames that are flooded hop by hop, the packet-id cache that suppresses *)
(* duplicates, the cleanup thread that expires the three tables, and a     *)
(* process that stops and is started again with empty tables.              *)
(*                                                                         *)
(* The medium stands for the link clients (multiplex_link.py fans every    *)
(* frame out to all links): a frame reaches any station in range late,     *)
(* more than once, out of order, or not at all.                            *)
(***************************************************************************)
EXTENDS Integers, Sequences

CONSTANTS
    Nodes,            \* stations (8-byte node ids)
    Hears,            \* <<a, b>> : station b is in range of station a
    CannotDecode,     \* <<n, o>> : n fails to decrypt / decompress o's DATA
    OgmTtl,           \* routing_config.ogm_ttl, also the TTL of DATA
    SeqMod,           \* size of the sequence-number space (2^32 in the code)
    RouteExpiry,      \* routing_config.route_expiry_seconds
    NeighborExpiry,   \* routing_config.neighbor_expiry_seconds
    DataSeenExpiry,   \* routing_config.data_seen_expiry_seconds
    Traffic,          \* <<a, b>> : a's application may send to b
    Duplicating,      \* does the medium deliver copies any number of times?
    MaxTime,          \* bound on the clock
    MaxBoots,         \* MaxBoots[n]: bound on process starts at n
    MaxOgms,          \* MaxOgms[n]: bound on OGMs per process at n
    MaxSends          \* bound on application sends, all stations together

ASSUME NodesAssumption  == /\ Hears \subseteq Nodes \X Nodes
                           /\ CannotDecode \subseteq Nodes \X Nodes
                           /\ Traffic \subseteq Nodes \X Nodes
ASSUME TtlAssumption    == OgmTtl \in 1 .. 255
ASSUME SeqAssumption    == SeqMod \in Nat /\ SeqMod > 1
ASSUME ExpiryAssumption == /\ RouteExpiry \in Nat
                           /\ NeighborExpiry \in Nat
                           /\ DataSeenExpiry \in Nat
ASSUME BoundAssumption  == /\ Duplicating \in BOOLEAN
                           /\ MaxTime \in Nat /\ MaxSends \in Nat
                           /\ MaxBoots \in [Nodes -> Nat]
                           /\ MaxOgms \in [Nodes -> Nat]

VARIABLES
    now,          \* time.time()
    up,           \* up[n]: _running is set
    boots,        \* boots[n]: processes started so far at n (history)
    seqno,        \* seqno[n]: _seqno, in memory only
    ogms,         \* ogms[n]: OGMs this process sent (bound)
    originators,  \* originators[n][o]: OriginatorEntry or NoRoute
    neighbors,    \* neighbors[n][p]: last_seen or Never
    dataSeen,     \* dataSeen[n][k]: time key k was recorded, or Never
    dead,         \* dead[n]: keys the cleanup pass collected, not yet deleted
    air,          \* frame copies under way, one per station in range
    sent,         \* application payloads handed to send_application_data
    accepted      \* accepted[n]: log of the DATA that passed n's dedup, this process

nodeVars == <<up, boots, seqno, ogms>>
routeVars == <<originators, neighbors>>
dataVars == <<dataSeen, accepted>>
vars == <<now, nodeVars, routeVars, dataVars, dead, air, sent>>

-----------------------------------------------------------------------------
Never   == -1
NoRoute == [best_next_hop |-> "none", last_seqno |-> Never, last_seen |-> Never]

Seqnos   == 0 .. SeqMod - 1
Keys     == Nodes \X Seqnos
Payloads == 1 .. MaxSends

OriginatorEntry ==
    [best_next_hop : Nodes, last_seqno : Seqnos, last_seen : 0 .. MaxTime]

OgmFrame == [type : {"OGM"}, ttl : 1 .. OgmTtl, origin : Nodes,
             seqno : Seqnos, prev_hop : Nodes]

DataFrame == [type : {"DATA"}, ttl : 1 .. OgmTtl, origin : Nodes,
              seqno : Seqnos, dest : Nodes, payload : Payloads]

Copy == [to : Nodes, from : Nodes, frame : OgmFrame \cup DataFrame]

Send == [origin : Nodes, seqno : Seqnos, dest : Nodes, payload : Payloads]

NothingDead == [originators |-> {}, neighbors |-> {}, data_seen |-> {}]

Fates == {"undecodable", "delivered", "expired", "unroutable", "forwarded"}

Accept == [key : Keys, payload : Payloads, time : 0 .. MaxTime, fate : Fates]

\* _data_seen is keyed by the full packet id.
KeyOf(f) == <<f.origin, f.seqno>>

InRange(n) == {m \in Nodes : <<n, m>> \in Hears}

\* An OGM as _build_ogm_payload and _handle_ogm put it together.
Ogm(o, seq, ttl, hop) ==
    [type |-> "OGM", ttl |-> ttl, origin |-> o, seqno |-> seq, prev_hop |-> hop]

\* link_client.send: one copy for every station in range of n.
Broadcast(n, f) == {[to |-> m, from |-> n, frame |-> f] : m \in InRange(n)}

\* _next_seqno
NextSeqno(n) == (seqno[n] + 1) % SeqMod

-----------------------------------------------------------------------------
EmptyRoutes  == [o \in Nodes |-> NoRoute]
EmptyTimes   == [p \in Nodes |-> Never]
EmptyKeys    == [k \in Keys |-> Never]

Init ==
    /\ now = 0
    /\ up = [n \in Nodes |-> TRUE]
    /\ boots = [n \in Nodes |-> 1]
    /\ seqno = [n \in Nodes |-> 0]
    /\ ogms = [n \in Nodes |-> 0]
    /\ originators = [n \in Nodes |-> EmptyRoutes]
    /\ neighbors = [n \in Nodes |-> EmptyTimes]
    /\ dataSeen = [n \in Nodes |-> EmptyKeys]
    /\ dead = [n \in Nodes |-> NothingDead]
    /\ air = {}
    /\ sent = {}
    /\ accepted = [n \in Nodes |-> << >>]

(***************************************************************************)
(* Sending.                                                                *)
(***************************************************************************)

\* One turn of _ogm_loop: _build_ogm_payload and send.
OgmLoop(n) ==
    /\ up[n]
    /\ ogms[n] < MaxOgms[n]
    /\ ogms' = [ogms EXCEPT ![n] = @ + 1]
    /\ seqno' = [seqno EXCEPT ![n] = NextSeqno(n)]
    /\ air' = air \cup Broadcast(n, Ogm(n, NextSeqno(n), OgmTtl, n))
    /\ UNCHANGED <<now, up, boots, routeVars, dataVars, dead, sent>>

\* send_application_data: the same counter as the OGMs; the sender does not
\* enter its own packet into _data_seen.
SendApplicationData(n, d, p) ==
    LET s    == [origin |-> n, seqno |-> NextSeqno(n), dest |-> d, payload |-> p]
        data == [type |-> "DATA", ttl |-> OgmTtl, origin |-> n,
                 seqno |-> NextSeqno(n), dest |-> d, payload |-> p]
    IN  /\ up[n] /\ <<n, d>> \in Traffic
        /\ \A x \in sent : x.payload < p           \* payloads are told apart
        /\ p = 1 \/ \E x \in sent : x.payload = p - 1
        /\ seqno' = [seqno EXCEPT ![n] = NextSeqno(n)]
        /\ sent' = sent \cup {s}
        /\ air' = air \cup Broadcast(n, data)
        /\ UNCHANGED <<now, up, boots, ogms, routeVars, dataVars, dead>>

(***************************************************************************)
(* Receiving: _on_link_frame, on the link's RX thread.  A copy that is     *)
(* never taken is a lost one.  A duplicating medium keeps the copy and may  *)
(* deliver it again at any time (the same frame arrives over two links).   *)
(***************************************************************************)
Medium(c) == IF Duplicating THEN air ELSE air \ {c}

\* Mutants: an equal sequence number replaces the route; an OGM is forwarded
\* with the previous hop it came with; the last hop of an OGM is cut off;
\* an OGM is forwarded whatever its TTL.
Fresher_OrEqual(n, f) == \/ originators[n][f.origin] = NoRoute
                         \/ f.seqno >= originators[n][f.origin].last_seqno
ForwardOgm_KeepsHop(n, f) ==
    IF f.ttl > 1 THEN Broadcast(n, Ogm(f.origin, f.seqno, f.ttl - 1, f.prev_hop)) ELSE {}
ForwardOgm_Short(n, f) ==
    IF f.ttl > 2 THEN Broadcast(n, Ogm(f.origin, f.seqno, f.ttl - 1, n)) ELSE {}
ForwardOgm_NoTtl(n, f) == Broadcast(n, Ogm(f.origin, f.seqno, f.ttl - 1, n))

\* A route is replaced only by an OGM with a higher sequence number.
Fresher(n, f) == \/ originators[n][f.origin] = NoRoute
                 \/ f.seqno > originators[n][f.origin].last_seqno

ForwardOgm(n, f) ==
    IF f.ttl > 1 THEN Broadcast(n, Ogm(f.origin, f.seqno, f.ttl - 1, n)) ELSE {}

\* _handle_ogm: OGMs are not deduplicated; a station processes and forwards
\* its own OGMs when it hears them echoed.
HandleOgm(n, c) ==
    LET f     == c.frame
        entry == [best_next_hop |-> f.prev_hop, last_seqno |-> f.seqno, last_seen |-> now]
    IN  /\ up[n] /\ c.to = n /\ f.type = "OGM"
        /\ neighbors' = [neighbors EXCEPT ![n][f.prev_hop] = now]
        /\ originators' = IF Fresher(n, f)
                          THEN [originators EXCEPT ![n][f.origin] = entry]
                          ELSE originators
        /\ air' = Medium(c) \cup ForwardOgm(n, f)
        /\ UNCHANGED <<now, nodeVars, dataVars, dead, sent>>

\* The packet-id test at the head of _handle_data_frame.
FirstSight(n, f) == dataSeen[n][KeyOf(f)] = Never

\* _lookup_best_next_hop: only the existence of a route is used.
HasRoute(n, d) == originators[n][d] # NoRoute

DataArrives(n, c) == up[n] /\ c.to = n /\ c.frame.type = "DATA"

DropDuplicate(n, c) ==
    /\ DataArrives(n, c)
    /\ ~FirstSight(n, c.frame)
    /\ air' = Medium(c)
    /\ UNCHANGED <<now, nodeVars, routeVars, dataVars, dead, sent>>

\* Mutants: no destination test; a TTL test that is off by one.
Fate_AnyDest(n, f) == "delivered"
Fate_Short(n, f) == CASE f.dest = n -> "delivered"
                      [] f.dest # n /\ f.ttl <= 2 -> "expired"
                      [] f.dest # n /\ f.ttl > 2 /\ ~HasRoute(n, f.dest) -> "unroutable"
                      [] OTHER -> "forwarded"

\* The rest of _handle_data_frame, in the order of its early returns.
Fate(n, f) ==
    IF <<n, f.origin>> \in CannotDecode THEN "undecodable"
    ELSE IF f.dest = n                  THEN "delivered"
    ELSE IF f.ttl <= 1                  THEN "expired"
    ELSE IF ~HasRoute(n, f.dest)        THEN "unroutable"
    ELSE                                     "forwarded"

\* The key is recorded before anything else is looked at, so a packet that is
\* then dropped is remembered all the same.
HandleData(n, c) ==
    LET f   == c.frame
        fwd == [f EXCEPT !.ttl = @ - 1]
        log == [key |-> KeyOf(f), payload |-> f.payload, time |-> now, fate |-> Fate(n, f)]
    IN  /\ DataArrives(n, c)
        /\ FirstSight(n, f)
        /\ dataSeen' = [dataSeen EXCEPT ![n][KeyOf(f)] = now]
        /\ accepted' = [accepted EXCEPT ![n] = Append(@, log)]
        /\ air' = Medium(c)
                    \cup (IF Fate(n, f) = "forwarded" THEN Broadcast(n, fwd) ELSE {})
        /\ UNCHANGED <<now, nodeVars, routeVars, dead, sent>>

(***************************************************************************)
(* _cleanup_loop: for each table in turn the thread lists the keys that    *)
(* are too old and then deletes them; frames may be handled in between.    *)
(***************************************************************************)
\* Mutants: entries expire one unit early; the wrong table is scanned.
TooOld_Early(t, expiry) == t # Never /\ now - t >= expiry
DeadNeighbors_WrongTable(n) ==
    {p \in Nodes : originators[n][p] # NoRoute /\ now - originators[n][p].last_seen > NeighborExpiry}

TooOld(t, expiry) == t # Never /\ now - t > expiry

DeadOriginators(n) == {o \in Nodes : TooOld(originators[n][o].last_seen, RouteExpiry)}
DeadNeighbors(n)   == {p \in Nodes : TooOld(neighbors[n][p], NeighborExpiry)}
DeadData(n)        == {k \in Keys : TooOld(dataSeen[n][k], DataSeenExpiry)}

Collect(n, found) ==
    /\ up[n] /\ dead[n] = NothingDead /\ found # NothingDead
    /\ dead' = [dead EXCEPT ![n] = found]
    /\ UNCHANGED <<now, nodeVars, routeVars, dataVars, air, sent>>

CleanupCollect(n) ==
    \/ Collect(n, [NothingDead EXCEPT !.originators = DeadOriginators(n)])
    \/ Collect(n, [NothingDead EXCEPT !.neighbors = DeadNeighbors(n)])
    \/ Collect(n, [NothingDead EXCEPT !.data_seen = DeadData(n)])

CleanupDelete(n) ==
    /\ up[n] /\ dead[n] # NothingDead
    /\ originators' = [originators EXCEPT ![n] =
          [o \in Nodes |-> IF o \in dead[n].originators THEN NoRoute ELSE @[o]]]
    /\ neighbors' = [neighbors EXCEPT ![n] =
          [p \in Nodes |-> IF p \in dead[n].neighbors THEN Never ELSE @[p]]]
    /\ dataSeen' = [dataSeen EXCEPT ![n] =
          [k \in Keys |-> IF k \in dead[n].data_seen THEN Never ELSE @[k]]]
    /\ dead' = [dead EXCEPT ![n] = NothingDead]
    /\ UNCHANGED <<now, nodeVars, accepted, air, sent>>

(***************************************************************************)
(* Life cycle of the process, the medium and the clock.                    *)
(***************************************************************************)

\* stop(), or a crash: the threads end and the link is closed.
Stop(n) ==
    /\ up[n] /\ boots[n] < MaxBoots[n]
    /\ up' = [up EXCEPT ![n] = FALSE]
    /\ UNCHANGED <<now, boots, seqno, ogms, routeVars, dataVars, dead, air, sent>>

\* A new process: __init__ and start().  Nothing of the mesh layer is on disk.
Start(n) ==
    /\ ~up[n]
    /\ up' = [up EXCEPT ![n] = TRUE]
    /\ boots' = [boots EXCEPT ![n] = @ + 1]
    /\ seqno' = [seqno EXCEPT ![n] = 0]
    /\ ogms' = [ogms EXCEPT ![n] = 0]
    /\ originators' = [originators EXCEPT ![n] = EmptyRoutes]
    /\ neighbors' = [neighbors EXCEPT ![n] = EmptyTimes]
    /\ dataSeen' = [dataSeen EXCEPT ![n] = EmptyKeys]
    /\ accepted' = [accepted EXCEPT ![n] = << >>]
    /\ dead' = [dead EXCEPT ![n] = NothingDead]
    /\ UNCHANGED <<now, air, sent>>

\* The receiver is off the air.
Lose(c) ==
    /\ ~up[c.to]
    /\ air' = air \ {c}
    /\ UNCHANGED <<now, nodeVars, routeVars, dataVars, dead, sent>>

Tick ==
    /\ now < MaxTime
    /\ now' = now + 1
    /\ UNCHANGED <<nodeVars, routeVars, dataVars, dead, air, sent>>

\* _on_link_frame: dispatch on the message type.
OnLinkFrame(n, c) ==
    \/ HandleOgm(n, c)
    \/ DropDuplicate(n, c)
    \/ HandleData(n, c)

Next ==
    \/ \E n \in Nodes : \/ OgmLoop(n)
                        \/ \E d \in Nodes, p \in Payloads : SendApplicationData(n, d, p)
                        \/ \E c \in air : OnLinkFrame(n, c)
                        \/ CleanupCollect(n)
                        \/ CleanupDelete(n)
                        \/ Stop(n)
                        \/ Start(n)
    \/ \E c \in air : Lose(c)
    \/ Tick

Spec == Init /\ [][Next]_vars

\* The RX thread of a station that is up keeps taking frames off its link.
RxFairness ==
    \A n \in Nodes : WF_vars(\E c \in air : OnLinkFrame(n, c))

FairSpec == Spec /\ RxFairness

-----------------------------------------------------------------------------
\* Type invariant of the tables, the counters and the frames under way.
TypeOK ==
    /\ now \in 0 .. MaxTime
    /\ up \in [Nodes -> BOOLEAN]
    /\ boots \in [Nodes -> Nat]
    /\ seqno \in [Nodes -> Seqnos]
    /\ ogms \in [Nodes -> Nat]
    /\ originators \in [Nodes -> [Nodes -> OriginatorEntry \cup {NoRoute}]]
    /\ neighbors \in [Nodes -> [Nodes -> 0 .. MaxTime \cup {Never}]]
    /\ dataSeen \in [Nodes -> [Keys -> 0 .. MaxTime \cup {Never}]]
    /\ dead \in [Nodes -> [originators : SUBSET Nodes, neighbors : SUBSET Nodes,
                           data_seen : SUBSET Keys]]
    /\ air \subseteq Copy
    /\ sent \subseteq Send
    /\ accepted \in [Nodes -> Seq(Accept)]

\* What the cache remembers of the log (the inductive strengthening of
\* OncePerWindow): a logged packet is either still cached, under a time no
\* earlier than its entry, or its window is over; and what the cleanup thread
\* has collected for deletion is past its window.
CacheCoversWindow ==
    \A n \in Nodes :
        /\ \A i \in 1 .. Len(accepted[n]) :
              LET a == accepted[n][i]
              IN  /\ a.time <= now
                  /\ dataSeen[n][a.key] # Never => a.time <= dataSeen[n][a.key]
                  /\ dataSeen[n][a.key] = Never => now - a.time > DataSeenExpiry
        /\ \A k \in dead[n].data_seen : TooOld(dataSeen[n][k], DataSeenExpiry)

\* Duplicate suppression (_handle_data_frame and _cleanup_loop together): a
\* process takes the same packet id past the cache a second time only after
\* more than data_seen_expiry_seconds, so it neither delivers nor repeats a
\* packet twice within the window, however often and late copies arrive.
OncePerWindow ==
    \A n \in Nodes : \A i, j \in 1 .. Len(accepted[n]) :
        i < j /\ accepted[n][i].key = accepted[n][j].key
            => accepted[n][j].time - accepted[n][i].time > DataSeenExpiry

\* Log entry a of station n is accounted for by one of the sends S.
AccountedFor(S, n, a) ==
    \E s \in S : /\ s.dest = n /\ s.payload = a.payload
                 /\ <<s.origin, s.seqno>> = a.key
                 /\ <<n, s.origin>> \notin CannotDecode

\* End-to-end integrity: what the application callback receives was sent to
\* this very station by the origin named in the header, under that sequence
\* number, by a station whose traffic this one can decode.
DeliveredWasSent ==
    \A n \in Nodes : \A i \in 1 .. Len(accepted[n]) :
        accepted[n][i].fate = "delivered" => AccountedFor(sent, n, accepted[n][i])

\* Every DATA frame under way is one its origin sent, with the destination and
\* the payload it was sent with (the inductive strengthening of
\* DeliveredWasSent).
DataWasSent ==
    \A c \in air : c.frame.type = "DATA" =>
        \E s \in sent : /\ s.origin = c.frame.origin /\ s.seqno = c.frame.seqno
                        /\ s.dest = c.frame.dest /\ s.payload = c.frame.payload

\* Every copy comes from a station in range, and an OGM names the station that
\* transmitted it as previous hop (the inductive strengthening of
\* NextHopInRange).
HopIsTransmitter ==
    \A c \in air : /\ <<c.from, c.to>> \in Hears
                   /\ c.frame.type = "OGM" => c.frame.prev_hop = c.from

\* The del statements of _cleanup_loop never raise KeyError: a key that was
\* collected is still in its table when it is deleted, whatever frames are
\* handled between the two.
DeleteFindsKey ==
    \A n \in Nodes :
        /\ \A o \in dead[n].originators : originators[n][o] # NoRoute
        /\ \A p \in dead[n].neighbors : neighbors[n][p] # Never
        /\ \A k \in dead[n].data_seen : dataSeen[n][k] # Never

\* Packet ids identify packets: a DATA copy that the cache of its receiver
\* would suppress carries a payload that receiver has already processed.
OnlyDuplicatesSuppressed ==
    \A c \in air :
        c.frame.type = "DATA" /\ dataSeen[c.to][KeyOf(c.frame)] # Never
            => \E i \in 1 .. Len(accepted[c.to]) :
                   accepted[c.to][i].payload = c.frame.payload

\* Route entries come from OGMs: a next hop is a station in range.
NextHopInRange ==
    \A n, o \in Nodes : HasRoute(n, o) => <<originators[n][o].best_next_hop, n>> \in Hears

\* Following best_next_hop towards an originator never runs in a circle.
RoutesLoopFree ==
    \A o \in Nodes : ~ \E S \in SUBSET (Nodes \ {o}) :
        /\ S # {}
        /\ \A n \in S : HasRoute(n, o) /\ originators[n][o].best_next_hop \in S

\* With a medium that loses nothing, an OGM reaches every station.
RouteLearned ==
    \A n, o \in Nodes : (ogms[o] > 0 /\ n # o) ~> HasRoute(n, o)

\* With a medium that loses nothing, a packet is delivered unless a relay had
\* no route to its destination when the packet came by.
DeliveredOrUnroutable ==
    \A p \in Payloads :
        (\E s \in sent : s.payload = p) ~>
            (\E n \in Nodes : \E i \in 1 .. Len(accepted[n]) :
                /\ accepted[n][i].payload = p
                /\ accepted[n][i].fate \in {"delivered", "unroutable"})
=============================================================================
