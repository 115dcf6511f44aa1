------------------------------ MODULE ChatSync ------------------------------
(***************************************************************************)
(* The chat table of chat_store.py and the traffic of chat_client.py: the  *)
(* messages stations write, the three kinds of sync request, the answers,  *)
(* and what a station makes of them.  Stations are in mode "full"; relays  *)
(* and monitors neither write, store nor sync.                             *)
(*                                                                         *)
(* The mesh below is a set of packets: it loses them, delivers them in any *)
(* order, and with Duplicating more than once.  The gap tracker and the    *)
(* retries that a message or an answer also reaches are GapTracker and     *)
(* SyncRetry.                                                              *)
(***************************************************************************)
EXTENDS Integers, FiniteSets, FiniteSetsExt

CONSTANTS
    Stations, Channels,
    Threads,       \* RX threads of a station, one per link
    Writes,        \* <<n, d, c>>: n may write to d on channel c
    Asks,          \* <<n, d, c, mode>>: n may ask d for channel c in this mode
    Gap,           \* <<start, end>>: the range that range requests ask for
    LastN,         \* LastN[n]: sync_last_n_messages
    MaxSend,       \* sync_max_send_per_response
    Retention,     \* prune_older_than_seconds, in ticks
    None,
    Duplicating,
    MaxMsgs, MaxSeq, MaxTime,
    MaxPrunes,     \* MaxPrunes[n]: how often n prunes its table
    MaxFlight,     \* packets under way when a request is made
    MaxBoots       \* MaxBoots[n]: processes started at n

ASSUME AskAssumption   == /\ Writes \subseteq Stations \X Stations \X Channels
                          /\ Asks \subseteq
                               Stations \X Stations \X Channels \X {"seqno", "range", "since_ts"}
                          /\ Gap \in Nat \X Nat /\ Gap[1] <= Gap[2]
ASSUME LimitAssumption == /\ LastN \in [Stations -> Nat \ {0}]
                          /\ MaxSend \in Nat \ {0}
                          /\ Retention \in Nat \ {0}
ASSUME BoundAssumption == /\ MaxMsgs \in Nat /\ MaxSeq \in Nat
                          /\ MaxTime \in Nat /\ MaxFlight \in Nat
                          /\ MaxPrunes \in [Stations -> Nat]
                          /\ MaxBoots \in [Stations -> Nat]
                          /\ Duplicating \in BOOLEAN
ASSUME NoneAssumption  == None \notin [origin : Stations, seqno : Nat, channel : Channels,
                                       text : Nat, created : Nat]

VARIABLES
    now,       \* time.time(), in the unit of created_ts
    counter,   \* counter[n]: _seqno of the mesh node
    boots,     \* boots[n]: processes started so far at n
    store,     \* store[n]: rows of chat_messages
    lastId,    \* lastId[n]: AUTOINCREMENT of the table
    writing,   \* writing[n]: the message sent and not yet logged, or None
    rx,        \* rx[n][t]: the answer thread t works on, or None
    net,       \* packets under way
    written,   \* history: every message written
    prunes     \* prunes[n]: how often n pruned its table

vars == <<now, counter, boots, store, lastId, writing, rx, net, written, prunes>>
tableVars == <<store, lastId>>

Message(r) == [origin |-> r.origin, seqno |-> r.seqno, channel |-> r.channel,
               text |-> r.text, created |-> r.created]

-----------------------------------------------------------------------------
(* chat_store.py.                                                          *)

Has(rows, o, q) == \E r \in rows : r.origin = o /\ r.seqno = q

Row(m, id) == [id |-> id, origin |-> m.origin, seqno |-> m.seqno, channel |-> m.channel,
               text |-> m.text, created |-> m.created]

\* Mutants: INSERT without OR IGNORE and without the unique constraint; INSERT
\* OR REPLACE.
AddMessage_Plain(n, m) ==
    /\ store'  = [store EXCEPT ![n] = @ \cup {Row(m, lastId[n] + 1)}]
    /\ lastId' = [lastId EXCEPT ![n] = @ + 1]
AddMessage_Replace(n, m) ==
    /\ store'  = [store EXCEPT ![n] = {r \in @ : r.origin # m.origin \/ r.seqno # m.seqno}
                                        \cup {Row(m, lastId[n] + 1)}]
    /\ lastId' = [lastId EXCEPT ![n] = @ + 1]

\* INSERT OR IGNORE.
AddMessage(n, m) ==
    IF Has(store[n], m.origin, m.seqno)
    THEN UNCHANGED tableVars
    ELSE /\ store'  = [store EXCEPT ![n] = @ \cup {Row(m, lastId[n] + 1)}]
         /\ lastId' = [lastId EXCEPT ![n] = @ + 1]

\* ORDER BY created_ts, id, and for ranges ORDER BY seqno.  (Since-requests
\* leave the order of equal times open; SQLite returns them by id.)
Before(mode, r, s) ==
    IF mode = "range"
    THEN r.seqno < s.seqno
    ELSE r.created < s.created \/ (r.created = s.created /\ r.id < s.id)

\* LIMIT k of the ascending and of the descending order.
FirstOf(rows, mode, k) == {r \in rows : Cardinality({s \in rows : Before(mode, s, r)}) < k}
LastOf(rows, mode, k)  == {r \in rows : Cardinality({s \in rows : Before(mode, r, s)}) < k}

OfChannel(rows, c) == {r \in rows : r.channel = c}

GetLastNMessages(rows, c, k) == LastOf(OfChannel(rows, c), "seqno", k)
GetMessagesSince(rows, c, ts, k) ==
    FirstOf({r \in OfChannel(rows, c) : r.created > ts}, "since_ts", k)

\* Mutant: the end of the range is exclusive.
GetMessagesForRange_EndExclusive(rows, c, o, range, k) ==
    FirstOf({r \in OfChannel(rows, c) : r.origin = o /\ r.seqno \in range[1] .. range[2] - 1},
            "range", k)

GetMessagesForRange(rows, c, o, range, k) ==
    FirstOf({r \in OfChannel(rows, c) : r.origin = o /\ r.seqno \in range[1] .. range[2]},
            "range", k)

PruneKeepLastN(rows, k) == UNION {GetLastNMessages(rows, c, k) : c \in Channels}
PruneOlder(rows, cutoff) == {r \in rows : r.created >= cutoff}

-----------------------------------------------------------------------------
Init ==
    /\ now = 0
    /\ counter = [n \in Stations |-> 0]
    /\ boots = [n \in Stations |-> 1]
    /\ store = [n \in Stations |-> {}]
    /\ lastId = [n \in Stations |-> 0]
    /\ writing = [n \in Stations |-> None]
    /\ rx = [n \in Stations |-> [t \in Threads |-> None]]
    /\ net = {}
    /\ written = {}
    /\ prunes = [n \in Stations |-> 0]

Taken(p) == IF Duplicating THEN net ELSE net \ {p}

\* send_message_to_node.  The message is sent first, under the next number of
\* the mesh node (numbers in between went to OGMs and sync traffic) ...
SendMessage(n, d, c) ==
    /\ writing[n] = None
    /\ Cardinality(written) < MaxMsgs
    /\ \E q \in counter[n] + 1 .. MaxSeq :
         LET m == [origin |-> n, seqno |-> q, channel |-> c,
                   text |-> Cardinality(written) + 1, created |-> now]
         IN  /\ counter' = [counter EXCEPT ![n] = q]
             /\ net' = net \cup {[type |-> "message", to |-> d, body |-> m]}
             /\ writing' = [writing EXCEPT ![n] = m]
             /\ written' = written \cup {m}
    /\ UNCHANGED <<now, boots, tableVars, rx, prunes>>

\* ... and logged locally after that.
LogSent(n) ==
    /\ writing[n] # None
    /\ AddMessage(n, writing[n])
    /\ writing' = [writing EXCEPT ![n] = None]
    /\ UNCHANGED <<now, counter, boots, rx, net, written, prunes>>

\* _handle_incoming_chat_message.
HandleMessage(n, t, p) ==
    /\ rx[n][t] = None
    /\ p.type = "message" /\ p.to = n
    /\ AddMessage(n, p.body)
    /\ net' = Taken(p)
    /\ UNCHANGED <<now, counter, boots, writing, rx, written, prunes>>

-----------------------------------------------------------------------------
(* Sync requests.                                                          *)

\* The highest number of each origin in the last-N window; 0: not in inv.
Inventory(n, c) ==
    [o \in Stations |->
        Max({0} \cup {r.seqno : r \in {s \in GetLastNMessages(store[n], c, LastN[n]) :
                                         s.origin = o}})]

Request(n, d, c, mode, arg) ==
    [type |-> "request", to |-> d, from |-> n, channel |-> c, mode |-> mode,
     last_n |-> LastN[n], arg |-> arg]

\* request_sync_last_n, request_sync_range (asked of the origin itself) and
\* request_sync.
Ask(n, d, c, mode) ==
    /\ Cardinality(net) < MaxFlight
    /\ \E arg \in CASE mode = "seqno"    -> {Inventory(n, c)}
                    [] mode = "range"    -> {Gap}
                    [] mode = "since_ts" -> -1 .. now :
         net' = net \cup {Request(n, d, c, mode, arg)}
    /\ UNCHANGED <<now, counter, boots, tableVars, writing, rx, written, prunes>>

\* The window of a last-N request, limited by the limits of both stations.
WindowFor(n, p) == GetLastNMessages(store[n], p.channel, Min({p.last_n, LastN[n]}))

\* Mutants: a capped answer keeps the newest messages; the highest message the
\* asker has is sent again.
Answer_NewestFirst(n, p) ==
    CASE p.mode = "since_ts" -> GetMessagesSince(store[n], p.channel, p.arg, MaxSend)
      [] p.mode = "range"    -> GetMessagesForRange(store[n], p.channel, n, p.arg, MaxSend)
      [] p.mode = "seqno"    ->
           LastOf({r \in WindowFor(n, p) : r.seqno > p.arg[r.origin]}, "seqno", MaxSend)
Answer_Again(n, p) ==
    CASE p.mode = "since_ts" -> GetMessagesSince(store[n], p.channel, p.arg, MaxSend)
      [] p.mode = "range"    -> GetMessagesForRange(store[n], p.channel, n, p.arg, MaxSend)
      [] p.mode = "seqno"    ->
           FirstOf({r \in WindowFor(n, p) : r.seqno >= p.arg[r.origin]}, "seqno", MaxSend)

\* The rows a request is answered with.
Answer(n, p) ==
    CASE p.mode = "since_ts" -> GetMessagesSince(store[n], p.channel, p.arg, MaxSend)
      [] p.mode = "range"    -> GetMessagesForRange(store[n], p.channel, n, p.arg, MaxSend)
      [] p.mode = "seqno"    ->
           FirstOf({r \in WindowFor(n, p) : r.seqno > p.arg[r.origin]}, "seqno", MaxSend)

\* A record of an answer; id stands for its place in the list.
Record(r) == [id |-> r.id, origin |-> r.origin, seqno |-> r.seqno,
              text |-> r.text, created |-> r.created]

\* _handle_sync_request: an empty answer is sent too.
HandleSyncRequest(n, t, p) ==
    /\ rx[n][t] = None
    /\ p.type = "request" /\ p.to = n
    /\ net' = Taken(p) \cup
              {[type |-> "response", to |-> p.from, channel |-> p.channel, mode |-> p.mode,
                records |-> {Record(r) : r \in Answer(n, p)}]}
    /\ UNCHANGED <<now, counter, boots, tableVars, writing, rx, written, prunes>>

-----------------------------------------------------------------------------
(* _handle_sync_response: record by record, has_message and add_message     *)
(* being two steps; other threads run in between.                          *)

Work(p, todo, absent) == [channel |-> p.channel, mode |-> p.mode, todo |-> todo,
                          absent |-> absent]

\* Back to the loop, or to the link when the list is done.
Continue(n, t, todo, absent) ==
    rx' = [rx EXCEPT ![n][t] = IF todo = {} THEN None ELSE Work(@, todo, absent)]

HandleSyncResponse(n, t, p) ==
    /\ rx[n][t] = None
    /\ p.type = "response" /\ p.to = n
    /\ net' = Taken(p)
    /\ rx' = [rx EXCEPT ![n][t] =
                IF p.records = {} THEN None ELSE Work(p, p.records, FALSE)]
    /\ UNCHANGED <<now, counter, boots, tableVars, writing, written, prunes>>

\* The next record of the list.
NextRecord(w, r) == r \in w.todo /\ \A s \in w.todo : ~Before(w.mode, s, r)

CheckRecord(n, t) ==
    /\ rx[n][t] # None
    /\ ~rx[n][t].absent
    /\ \E r \in rx[n][t].todo :
         /\ NextRecord(rx[n][t], r)
         /\ IF Has(store[n], r.origin, r.seqno)
            THEN Continue(n, t, rx[n][t].todo \ {r}, FALSE)
            ELSE Continue(n, t, rx[n][t].todo, TRUE)
    /\ UNCHANGED <<now, counter, boots, tableVars, writing, net, written, prunes>>

\* Mutant: the time of receipt is stored as the time of creation.
Applied_RecvTime(w, r) == [origin |-> r.origin, seqno |-> r.seqno, channel |-> w.channel,
                           text |-> r.text, created |-> now]

\* The row made of a record.
Applied(w, r) == [origin |-> r.origin, seqno |-> r.seqno, channel |-> w.channel,
                  text |-> r.text, created |-> r.created]

AddRecord(n, t) ==
    /\ rx[n][t] # None
    /\ rx[n][t].absent
    /\ \E r \in rx[n][t].todo :
         /\ NextRecord(rx[n][t], r)
         /\ AddMessage(n, Applied(rx[n][t], r))
         /\ Continue(n, t, rx[n][t].todo \ {r}, FALSE)
    /\ UNCHANGED <<now, counter, boots, writing, net, written, prunes>>

-----------------------------------------------------------------------------
(* Pruning, restarts, the clock and the mesh.                              *)

\* prune_db, from the GUI.
PruneDb(n) == store' = [store EXCEPT ![n] = PruneKeepLastN(@, LastN[n])]

\* _maybe_run_retention_maintenance; how often it runs is left open.
RunRetention(n) == store' = [store EXCEPT ![n] = PruneOlder(@, now - Retention)]

Prune(n) ==
    /\ prunes[n] < MaxPrunes[n]
    /\ prunes' = [prunes EXCEPT ![n] = @ + 1]
    /\ PruneDb(n) \/ RunRetention(n)
    /\ UNCHANGED <<now, counter, boots, lastId, writing, rx, net, written>>

\* A new process: the table persists, the counter does not.
Restart(n) ==
    /\ boots[n] < MaxBoots[n]
    /\ boots' = [boots EXCEPT ![n] = @ + 1]
    /\ counter' = [counter EXCEPT ![n] = 0]
    /\ writing' = [writing EXCEPT ![n] = None]
    /\ rx' = [rx EXCEPT ![n] = [t \in Threads |-> None]]
    /\ UNCHANGED <<now, tableVars, net, written, prunes>>

Lose(p) ==
    /\ net' = net \ {p}
    /\ UNCHANGED <<now, counter, boots, tableVars, writing, rx, written, prunes>>

Tick ==
    /\ now < MaxTime
    /\ now' = now + 1
    /\ UNCHANGED <<counter, boots, tableVars, writing, rx, net, written, prunes>>

\* _on_mesh_app_data.
OnMeshAppData(n, t, p) ==
    HandleMessage(n, t, p) \/ HandleSyncRequest(n, t, p) \/ HandleSyncResponse(n, t, p)

RxStep(n, t) == CheckRecord(n, t) \/ AddRecord(n, t)

Next ==
    \/ \E w \in Writes : SendMessage(w[1], w[2], w[3])
    \/ \E a \in Asks : Ask(a[1], a[2], a[3], a[4])
    \/ \E n \in Stations : LogSent(n) \/ Prune(n) \/ Restart(n)
    \/ \E n \in Stations, t \in Threads :
         RxStep(n, t) \/ \E p \in net : OnMeshAppData(n, t, p)
    \/ \E p \in net : Lose(p)
    \/ Tick

Spec == Init /\ [][Next]_vars

\* RX threads go on with the list they have.  Of the requests that are made
\* again and again, and of the answers, the mesh lets some through.
RequestArrives(n, d, c, mode) ==
    \E t \in Threads, p \in net : /\ p.type = "request" /\ p.from = n
                                  /\ p.channel = c /\ p.mode = mode
                                  /\ HandleSyncRequest(d, t, p)
AnswerArrives(n, c, mode) ==
    \E t \in Threads, p \in net : /\ p.type = "response"
                                  /\ p.channel = c /\ p.mode = mode
                                  /\ HandleSyncResponse(n, t, p)
Fairness ==
    /\ \A n \in Stations, t \in Threads : WF_vars(RxStep(n, t))
    /\ \A a \in Asks : /\ SF_vars(RequestArrives(a[1], a[2], a[3], a[4]))
                       /\ SF_vars(AnswerArrives(a[1], a[3], a[4]))

FairSpec == Spec /\ Fairness

-----------------------------------------------------------------------------
(* Properties.                                                             *)

Msg == [origin : Stations, seqno : 1 .. MaxSeq, channel : Channels,
        text : 1 .. MaxMsgs, created : 0 .. MaxTime]
Rec == [id : Nat \ {0}, origin : Stations, seqno : 1 .. MaxSeq,
        text : 1 .. MaxMsgs, created : 0 .. MaxTime]
Packet ==
    [type : {"message"}, to : Stations, body : Msg]
    \cup [type : {"request"}, to : Stations, from : Stations, channel : Channels,
          mode : {"seqno"}, last_n : Nat \ {0}, arg : [Stations -> 0 .. MaxSeq]]
    \cup [type : {"request"}, to : Stations, from : Stations, channel : Channels,
          mode : {"range"}, last_n : Nat \ {0}, arg : {Gap}]
    \cup [type : {"request"}, to : Stations, from : Stations, channel : Channels,
          mode : {"since_ts"}, last_n : Nat \ {0}, arg : -1 .. MaxTime]
IsAnswer(w) == /\ w.channel \in Channels
               /\ w.mode \in {"seqno", "range", "since_ts"}

\* Type invariant; the table is unique on (origin_id, seqno).
TypeOK ==
    /\ now \in 0 .. MaxTime
    /\ counter \in [Stations -> 0 .. MaxSeq]
    /\ lastId \in [Stations -> Nat]
    /\ \A n \in Stations :
         /\ writing[n] # None => writing[n] \in Msg
         /\ \A r \in store[n] : /\ Message(r) \in Msg
                                /\ r.id \in 1 .. lastId[n]
         /\ \A r, s \in store[n] : r.origin = s.origin /\ r.seqno = s.seqno => r = s
         /\ \A t \in Threads :
              LET w == rx[n][t] IN
              w # None => /\ IsAnswer(w) /\ w.todo \subseteq Rec /\ w.todo # {}
                          /\ w.absent \in BOOLEAN
    /\ \A p \in net : IF p.type = "response"
                      THEN IsAnswer(p) /\ p.to \in Stations /\ p.records \subseteq Rec
                      ELSE p \in Packet
    /\ written \subseteq Msg

\* Whatever a table holds, from the sender or from a third station's answer, is
\* a message as it was written: author, number, channel, text and time.
StoredWasWritten == \A n \in Stations : \A r \in store[n] : Message(r) \in written

\* The history of a station is never rewritten, although numbers are used
\* again after a restart: a row is as it is until it is pruned.
HistoryNotRewritten ==
    [][\A n \in Stations : \A r \in store[n], s \in store'[n] :
         r.origin = s.origin /\ r.seqno = s.seqno => r = s]_vars

\* The inventory of a last-N request only tells the highest number.  That is
\* enough for a station that hears an author through these requests alone: it
\* never holds a message while the author holds an earlier one that it lacks,
\* in spite of capped, late and repeated answers and of crashes between records.
OnlyBySync(n, d, c) ==
    /\ \A a \in Asks : a[1] = n /\ a[3] = c => a[2] = d /\ a[4] = "seqno"
    /\ <<d, n, c>> \notin Writes
NoHoles ==
    \A a \in Asks : OnlyBySync(a[1], a[2], a[3]) =>
        \A s \in OfChannel(store[a[1]], a[3]), r \in OfChannel(store[a[2]], a[3]) :
            (s.origin = a[2] /\ r.origin = a[2] /\ r.seqno < s.seqno)
                => Has(store[a[1]], r.origin, r.seqno)

\* A station that keeps asking another one gets up to what that station holds,
\* author by author, however small the answers are.
Asked(mode) == {a \in Asks : a[4] = mode}
Holds(n, c, x) == \E r \in OfChannel(store[n], c) : r.text = x
UpTo(n, d, c, x) ==
    \A r \in OfChannel(store[d], c) : r.text = x =>
        \E s \in OfChannel(store[n], c) : s.origin = r.origin /\ s.seqno >= r.seqno
CatchesUp ==
    \A a \in Asked("seqno"), x \in 1 .. MaxMsgs :
        (/\ []<><<Ask(a[1], a[2], a[3], "seqno")>>_vars
         /\ <>[]Holds(a[2], a[3], x)) => <>[]UpTo(a[1], a[2], a[3], x)

\* A message an author holds, and that was lost on its way, is repaired by range
\* requests for it.
RangeRepairs ==
    \A a \in Asked("range"), x \in 1 .. MaxMsgs :
        (/\ []<><<Ask(a[1], a[2], a[3], "range")>>_vars
         /\ <>[](\E r \in OfChannel(store[a[2]], a[3]) :
                    r.text = x /\ r.origin = a[2] /\ r.seqno \in Gap[1] .. Gap[2]))
        => <>Holds(a[1], a[3], x)
=============================================================================
