---------------------------- MODULE ChatUiProofs ----------------------------
(***************************************************************************)
(* Proofs about ChatUi, for any messages, channels and RX threads: what    *)
(* the list of channels shows when all is quiet, and which lines vanish.   *)
(***************************************************************************)
EXTENDS ChatUi, SequenceTheorems, TLAPS

RxPcs == {"idle", "store", "chat", "applied", "refresh", "compare", "put list"}
UiPcs == {"initial", "set", "idle", "reload", "put history", "send", "log", "refresh",
          "compare", "put list", "timer"}
ChatEvents    == [kind : {"chat"}, msg : Messages]
HistoryEvents == [kind : {"history"}, chan : Channels, msgs : SUBSET Messages]
ListEvents    == [kind : {"channels"}, chans : SUBSET Channels]
Event == ChatEvents \cup HistoryEvents \cup ListEvents

\* The shape of the state.
Shape ==
    /\ db \in SUBSET Messages /\ came \in SUBSET Messages
    /\ pc \in [Threads -> RxPcs \cup UiPcs]
    /\ \A t \in Rx : pc[t] \in RxPcs
    /\ pc["ui"] \in UiPcs
    /\ job \in [Threads -> Messages \cup {None}] /\ synced \in SUBSET Rx
    /\ snap \in [Threads -> SUBSET Channels]
    /\ uiq \in Seq(Event)
    /\ open \in SUBSET Channels /\ lines \in [Channels -> SUBSET Messages]
    /\ reload \in SUBSET Channels
    /\ pc["ui"] = "put history" => history \in HistoryEvents
    /\ mixed \in BOOLEAN /\ unlisted \in BOOLEAN

\* A thread has a message in hand until its list is refreshed, and no two have the same.
Jobs ==
    /\ \A t \in Threads : pc[t] \in {"store", "chat", "send", "log"} => job[t] # None
    /\ \A t \in Threads : job[t] # None => job[t] \in came
    /\ \A t, u \in Threads : t # u /\ job[t] = job[u] => job[t] = None

\* A message is settled when nobody is to store it any more.
Settled(m) == /\ m \in came \cup Stored
              /\ \A t \in Threads : job[t] = m => pc[t] \notin {"store", "send", "log"}
Gone(m) == m \notin db /\ Settled(m)
Typing(m) == pc["ui"] \in {"send", "log"} /\ job["ui"] = m

\* A message that a thread takes up in this step is new.
OnlyNewTakenUp ==
    \A t \in Threads :
        \/ job'[t] = job[t] /\ (pc'[t] \in {"store", "send", "log"} =>
                                  pc[t] \in {"store", "send", "log"})
        \/ job'[t] = None
        \/ job'[t] \notin came \cup Stored

\* The lines an event shows, and whether it keeps the line of m.
Shows(e) == IF e.kind = "chat" THEN {e.msg} ELSE IF e.kind = "history" THEN e.msgs ELSE {}
Keeps(e, m) ==
    e.kind = "history" /\ e.chan = Chan[m] => m \in e.msgs \/ m \in raced \/ Gone(m)

\* An event waits in the queue, or is about to be put; one comes before another.
Waits(e) == \E i \in 1 .. Len(uiq) : uiq[i] = e
Precedes(d, e) == \E i, j \in 1 .. Len(uiq) : i < j /\ uiq[i] = d /\ uiq[j] = e
Putting(e) == pc["ui"] = "put history" /\ e = history
Due(e) == Waits(e) \/ Putting(e)
Ahead(d, e) == Precedes(d, e) \/ (Waits(d) /\ Putting(e))

\* What is stored, shown or about to be shown is settled, but for a line just typed;
\* lines are in the tab of their channel.
Lasting ==
    /\ \A m \in db : Settled(m)
    /\ \A e \in Event : Due(e) => \A m \in Shows(e) :
           Settled(m) /\ (e.kind = "history" => Chan[m] = e.chan)
    /\ \A c \in Channels : \A m \in lines[c] : Chan[m] = c /\ (Settled(m) \/ Typing(m))

\* A snapshot on its way keeps the lines that are there when it is rendered.
Keeping ==
    /\ \A e \in Event : Due(e) => \A c \in Channels : \A m \in lines[c] : Keeps(e, m)
    /\ \A d, e \in Event : Ahead(d, e) => \A m \in Shows(d) : Keeps(e, m)

LinesInv == Shape /\ Jobs /\ Lasting /\ Keeping

-----------------------------------------------------------------------------
\* The list the user will see: the newest in the queue, or the one shown.
IsList(i) == i \in 1 .. Len(uiq) /\ uiq[i].kind = "channels"
WillShow(cs) == \/ (\A i \in Nat : ~IsList(i)) /\ known = cs
                \/ \E i \in Nat : IsList(i) /\ uiq[i].chans = cs /\ \A j \in Nat : IsList(j) => j <= i

\* While no two threads refresh the list at once, the list remembered is the one
\* the user will see or the one about to be put.
Remembered ==
    ~mixed => /\ \A t, u \in Threads : Refreshing(t) /\ Refreshing(u) => t = u
              /\ \A t \in Threads : pc[t] = "put list" => snap[t] = last
              /\ (\A t \in Threads : pc[t] # "put list") => WillShow(last)

\* A list that is not current is about to be read, or has been read.
Comparing(t) == pc[t] \in {"set", "compare"}
Pending(t) == pc[t] \in {"initial", "chat", "refresh"}
Current ==
    ~mixed /\ ~unlisted =>
        \/ \E t \in Threads : Pending(t)
        \/ \E t \in Threads : Comparing(t) /\ snap[t] = Listed
        \/ (\A t \in Threads : ~Comparing(t)) /\ last = Listed

ListInv == LinesInv /\ Remembered /\ Current

-----------------------------------------------------------------------------
(* The shape of the state, and who has which message in hand.              *)

USE DEF Threads, OnlyNewTakenUp

\* The RX threads are not the GUI thread.
LEMMA Apart == "ui" \in Threads /\ \A t \in Rx : t \in Threads /\ t # "ui"
  BY UiAssumption

\* A thread goes on to another step.
LEMMA Moved ==
    ASSUME Shape, NEW t \in Threads, NEW p, Go(t, p),
           t \in Rx => p \in RxPcs, t = "ui" => p \in UiPcs
    PROVE  /\ pc' \in [Threads -> RxPcs \cup UiPcs]
           /\ pc'[t] = p /\ \A u \in Threads : u # t => pc'[u] = pc[u]
           /\ \A u \in Rx : pc'[u] \in RxPcs
           /\ pc'["ui"] \in UiPcs
  BY Apart DEF Shape, Go

\* The events of the queue when one is put.
LEMMA PutOK ==
    ASSUME Shape, NEW e \in Event, PutUi(e)
    PROVE  /\ uiq' \in Seq(Event)
           /\ \A d : Waits(d)' => Waits(d) \/ d = e
           /\ \A d, f : Precedes(d, f)' => Precedes(d, f) \/ (Waits(d) /\ f = e)
<1>1. uiq \in Seq(Event) /\ uiq' = Append(uiq, e)
  BY DEF Shape, PutUi
<1>2. /\ uiq' \in Seq(Event) /\ Len(uiq) \in Nat /\ Len(uiq') = Len(uiq) + 1
      /\ \A i \in 1 .. Len(uiq) : uiq'[i] = uiq[i]
      /\ uiq'[Len(uiq) + 1] = e
  BY <1>1, AppendProperties, LenProperties
<1>3. \A i \in 1 .. Len(uiq') : i \in 1 .. Len(uiq) \/ i = Len(uiq) + 1
  BY <1>2
<1>4. ASSUME NEW d, Waits(d)' PROVE Waits(d) \/ d = e
  BY <1>2, <1>3, <1>4 DEF Waits
<1>5. ASSUME NEW d, NEW f, Precedes(d, f)' PROVE Precedes(d, f) \/ (Waits(d) /\ f = e)
  <2>1. PICK i \in 1 .. Len(uiq'), j \in 1 .. Len(uiq') : i < j /\ uiq'[i] = d /\ uiq'[j] = f
    BY <1>5 DEF Precedes
  <2>2. i \in 1 .. Len(uiq)
    BY <1>2, <2>1
  <2>3. CASE j \in 1 .. Len(uiq)
    BY <1>2, <2>1, <2>2, <2>3 DEF Precedes
  <2>4. CASE j = Len(uiq) + 1
    BY <1>2, <2>1, <2>2, <2>4 DEF Waits
  <2> QED  BY <1>3, <2>3, <2>4
<1> QED  BY <1>2, <1>4, <1>5

\* The events of the queue when the first is rendered.
LEMMA TakeOK ==
    ASSUME Shape, uiq # <<>>, uiq' = Tail(uiq)
    PROVE  /\ uiq' \in Seq(Event) /\ Head(uiq) \in Event /\ Waits(Head(uiq))
           /\ \A d : Waits(d)' => Precedes(Head(uiq), d)
           /\ \A d, f : Precedes(d, f)' => Precedes(d, f)
<1>1. uiq \in Seq(Event)
  BY DEF Shape
<1>2. /\ uiq' \in Seq(Event) /\ Len(uiq) \in Nat \ {0} /\ Len(uiq') = Len(uiq) - 1
      /\ Head(uiq) = uiq[1] /\ Head(uiq) \in Event
      /\ \A i \in 1 .. Len(uiq') : uiq'[i] = uiq[i + 1]
  BY <1>1, HeadTailProperties, LenProperties, EmptySeq
<1>3. \A i \in 1 .. Len(uiq') : i + 1 \in 1 .. Len(uiq) /\ 1 < i + 1
  BY <1>2
<1>4. 1 \in 1 .. Len(uiq)
  BY <1>2
<1>5. Waits(Head(uiq))
  BY <1>2, <1>4 DEF Waits
<1>6. ASSUME NEW d, Waits(d)' PROVE Precedes(Head(uiq), d)
  <2>1. PICK i \in 1 .. Len(uiq') : uiq'[i] = d
    BY <1>6 DEF Waits
  <2> QED  BY <1>2, <1>3, <1>4, <2>1 DEF Precedes
<1>7. ASSUME NEW d, NEW f, Precedes(d, f)' PROVE Precedes(d, f)
  <2>1. PICK i \in 1 .. Len(uiq'), j \in 1 .. Len(uiq') : i < j /\ uiq'[i] = d /\ uiq'[j] = f
    BY <1>7 DEF Precedes
  <2>2. i + 1 < j + 1
    BY <2>1
  <2> QED  BY <1>2, <1>3, <2>1, <2>2 DEF Precedes
<1> QED  BY <1>2, <1>5, <1>6, <1>7

\* Who comes before another waits, too.
LEMMA AheadDue ==
    ASSUME NEW d, NEW e, Ahead(d, e) PROVE Due(d) /\ Due(e)
  BY DEF Ahead, Due, Precedes, Waits

\* What on_timer renders is of the kinds it knows.
LEMMA Kinds ==
    ASSUME NEW e \in Event
    PROVE  /\ e.kind = "chat" => e.msg \in Messages /\ Shows(e) = {e.msg}
           /\ e.kind = "history" => /\ e.chan \in Channels /\ e.msgs \in SUBSET Messages
                                    /\ Shows(e) = e.msgs
           /\ e.kind = "channels" => e.chans \in SUBSET Channels /\ Shows(e) = {}
           /\ e.kind \in {"chat", "history", "channels"}
           /\ Shows(e) \in SUBSET Messages
  BY DEF Event, ChatEvents, HistoryEvents, ListEvents, Shows

\* The channels of messages.
LEMMA ChannelsOK ==
    /\ \A m \in Messages : Chan[m] \in Channels
    /\ General \in Channels
    /\ db \in SUBSET Messages => Listed \in SUBSET Channels
  BY DEF Channels, Listed

\* The steps of _refresh_channels_from_db, on any thread.
LEMMA RefreshShape ==
    ASSUME LinesInv, NEW t \in Threads, Refresh(t)
    PROVE  Shape' /\ Jobs'
<1> USE DEF LinesInv
<1>1. CASE ReadChannels(t)
  <2> DEFINE p == IF pc[t] = "initial" THEN "set" ELSE "compare"
  <2>1. /\ Go(t, p) /\ snap' = [snap EXCEPT ![t] = Listed]
        /\ UNCHANGED <<db, came, job, synced, uiq, open, lines, reload, history>>
        /\ mixed' = (mixed \/ \E u \in Threads \ {t} : Refreshing(u)) /\ unlisted' = FALSE
        /\ pc[t] \in {"initial", "refresh"}
    BY <1>1 DEF ReadChannels, tableVars, jobVars, tabVars, reqVars
  <2>2. (t \in Rx => p \in RxPcs) /\ (t = "ui" => p \in UiPcs) /\ p \in {"set", "compare"}
    BY <2>1 DEF Shape, RxPcs, UiPcs
  <2> HIDE DEF p
  <2>3. /\ pc' \in [Threads -> RxPcs \cup UiPcs]
        /\ pc'[t] = p /\ \A u \in Threads : u # t => pc'[u] = pc[u]
        /\ \A u \in Rx : pc'[u] \in RxPcs
        /\ pc'["ui"] \in UiPcs
    BY <2>1, <2>2, Moved
  <2>4. Listed \in SUBSET Channels
    BY ChannelsOK DEF Shape
  <2>5. Shape'
    BY <2>1, <2>2, <2>3, <2>4, Apart DEF Shape
  <2>6. Jobs'
    BY <2>1, <2>2, <2>3 DEF Jobs
  <2> QED  BY <2>5, <2>6
<1>2. CASE SetLastChannels(t)
  <2>1. /\ Go(t, "put list")
        /\ UNCHANGED <<db, came, job, synced, uiq, open, lines, reload, history, snap>>
        /\ UNCHANGED <<mixed, unlisted>>
    BY <1>2 DEF SetLastChannels, tableVars, jobVars, tabVars, reqVars, histVars
  <2>2. /\ pc' \in [Threads -> RxPcs \cup UiPcs]
        /\ pc'[t] = "put list" /\ \A u \in Threads : u # t => pc'[u] = pc[u]
        /\ \A u \in Rx : pc'[u] \in RxPcs
        /\ pc'["ui"] \in UiPcs
    BY <2>1, Moved DEF RxPcs, UiPcs
  <2>3. Shape'
    BY <2>1, <2>2, Apart DEF Shape
  <2>4. Jobs'
    BY <2>1, <2>2 DEF Jobs
  <2> QED  BY <2>3, <2>4
<1>3. CASE SameChannels(t) \/ PutChannels(t)
  <2>1. /\ AfterRefresh(t)
        /\ uiq' = uiq \/ PutUi(ChannelListEvent(snap[t]))
        /\ UNCHANGED <<db, came, synced, open, lines, reload, history>>
        /\ UNCHANGED <<mixed, unlisted>>
    BY <1>3 DEF SameChannels, PutChannels, tableVars, tabVars, reqVars, histVars
  <2>2. PICK p \in {"reload", "applied", "idle"} :
             Go(t, p) /\ (t \in Rx => p \in RxPcs) /\ (t = "ui" => p \in UiPcs)
    <3>1. t = "ui" => t \notin synced
      BY Apart DEF Shape
    <3>2. CASE t = "ui" /\ reload # {}
      BY <2>1, <3>1, <3>2, Apart DEF AfterRefresh, UiPcs
    <3>3. CASE ~(t = "ui" /\ reload # {}) /\ t \in synced
      BY <2>1, <3>1, <3>3 DEF AfterRefresh, RxPcs
    <3>4. CASE ~(t = "ui" /\ reload # {}) /\ t \notin synced
      BY <2>1, <3>1, <3>4 DEF AfterRefresh, RxPcs, UiPcs
    <3> QED  BY <3>2, <3>3, <3>4
  <2>3. /\ pc' \in [Threads -> RxPcs \cup UiPcs]
        /\ pc'[t] = p /\ \A u \in Threads : u # t => pc'[u] = pc[u]
        /\ \A u \in Rx : pc'[u] \in RxPcs
        /\ pc'["ui"] \in UiPcs
    BY <2>2, Moved
  <2>4. ChannelListEvent(snap[t]) \in Event
    BY DEF Shape, Event, ListEvents, ChannelListEvent
  <2>5. uiq' \in Seq(Event)
    BY <2>1, <2>4, PutOK DEF Shape
  <2>6. job' = [job EXCEPT ![t] = None] /\ snap' = [snap EXCEPT ![t] = {}]
    BY <2>1 DEF AfterRefresh
  <2>7. Shape'
    BY <2>1, <2>3, <2>5, <2>6, Apart DEF Shape
  <2>8. \A u \in Threads : job'[u] = IF u = t THEN None ELSE job[u]
    BY <2>6 DEF Shape
  <2>9. Jobs'
    BY <2>1, <2>3, <2>8 DEF Jobs
  <2> QED  BY <2>7, <2>9
<1> QED  BY <1>1, <1>2, <1>3 DEF Refresh

\* The other steps of an RX thread.
LEMMA RxShape ==
    ASSUME LinesInv, NEW t \in Rx,
           Store(t) \/ OnChatMessage(t) \/ OnSyncApplied(t) \/ \E m \in Incoming : Receive(t, m)
    PROVE  Shape' /\ Jobs'
<1> USE DEF LinesInv
<1>1. t \in Threads /\ t # "ui" /\ "ui" \in Threads
  BY Apart
<1>2. CASE Store(t)
  <2>1. /\ Go(t, "chat") /\ db' = db \cup {job[t]} /\ pc[t] = "store"
        /\ UNCHANGED <<came, job, synced, snap, uiq, open, lines, reload, history>>
        /\ UNCHANGED <<mixed, unlisted>>
    BY <1>2 DEF Store, Following, jobVars, listVars, tabVars, reqVars, histVars
  <2>2. /\ pc' \in [Threads -> RxPcs \cup UiPcs]
        /\ pc'[t] = "chat" /\ \A u \in Threads : u # t => pc'[u] = pc[u]
        /\ \A u \in Rx : pc'[u] \in RxPcs
        /\ pc'["ui"] \in UiPcs
    BY <1>1, <2>1, Moved DEF RxPcs
  <2>3. job[t] \in Messages
    BY <1>1, <2>1 DEF Shape, Jobs
  <2>4. Shape'
    BY <1>1, <2>1, <2>2, <2>3 DEF Shape
  <2>5. Jobs'
    BY <1>1, <2>1, <2>2 DEF Jobs
  <2> QED  BY <2>4, <2>5
<1>3. CASE OnChatMessage(t)
  <2>1. /\ Go(t, "refresh") /\ PutUi(ChatEvent(job[t])) /\ pc[t] = "chat"
        /\ UNCHANGED <<db, came, job, synced, snap, open, lines, reload, history>>
        /\ UNCHANGED <<mixed, unlisted>>
    BY <1>3 DEF OnChatMessage, Following, tableVars, jobVars, listVars, tabVars, reqVars
  <2>2. /\ pc' \in [Threads -> RxPcs \cup UiPcs]
        /\ pc'[t] = "refresh" /\ \A u \in Threads : u # t => pc'[u] = pc[u]
        /\ \A u \in Rx : pc'[u] \in RxPcs
        /\ pc'["ui"] \in UiPcs
    BY <1>1, <2>1, Moved DEF RxPcs
  <2>3. job[t] \in Messages
    BY <1>1, <2>1 DEF Shape, Jobs
  <2>4. ChatEvent(job[t]) \in Event
    BY <2>3 DEF Event, ChatEvents, ChatEvent
  <2>5. uiq' \in Seq(Event)
    BY <2>1, <2>4, PutOK
  <2>6. Shape'
    BY <1>1, <2>1, <2>2, <2>5 DEF Shape
  <2>7. Jobs'
    BY <1>1, <2>1, <2>2 DEF Jobs
  <2> QED  BY <2>6, <2>7
<1>4. CASE OnSyncApplied(t)
  <2>1. /\ Go(t, "refresh") /\ synced' = synced \ {t}
        /\ UNCHANGED <<db, came, job, snap, uiq, open, lines, reload, history>>
        /\ UNCHANGED <<mixed, unlisted>>
    BY <1>4 DEF OnSyncApplied, tableVars, listVars, tabVars, reqVars, histVars
  <2>2. /\ pc' \in [Threads -> RxPcs \cup UiPcs]
        /\ pc'[t] = "refresh" /\ \A u \in Threads : u # t => pc'[u] = pc[u]
        /\ \A u \in Rx : pc'[u] \in RxPcs
        /\ pc'["ui"] \in UiPcs
    BY <1>1, <2>1, Moved DEF RxPcs
  <2>3. Shape'
    BY <1>1, <2>1, <2>2 DEF Shape
  <2>4. Jobs'
    BY <1>1, <2>1, <2>2 DEF Jobs
  <2> QED  BY <2>3, <2>4
<1>5. ASSUME NEW m \in Incoming, Receive(t, m) PROVE Shape' /\ Jobs'
  <2>1. /\ Go(t, "store") /\ job' = [job EXCEPT ![t] = m] /\ came' = came \cup {m}
        /\ m \notin came
        /\ synced' \in {synced, synced \cup {t}}
        /\ UNCHANGED <<db, snap, uiq, open, lines, reload, history>>
        /\ UNCHANGED <<mixed, unlisted>>
    BY <1>5 DEF Receive, Following, listVars, tabVars, reqVars, histVars
  <2>2. /\ pc' \in [Threads -> RxPcs \cup UiPcs]
        /\ pc'[t] = "store" /\ \A u \in Threads : u # t => pc'[u] = pc[u]
        /\ \A u \in Rx : pc'[u] \in RxPcs
        /\ pc'["ui"] \in UiPcs
    BY <1>1, <2>1, Moved DEF RxPcs
  <2>3. m \in Messages /\ m # None
    BY UiAssumption DEF Messages
  <2>4. synced' \in SUBSET Rx
    BY <2>1 DEF Shape
  <2>5. Shape'
    BY <1>1, <2>1, <2>2, <2>3, <2>4 DEF Shape
  <2>6. \A u \in Threads : job'[u] = IF u = t THEN m ELSE job[u]
    BY <2>1 DEF Shape
  <2>7. Jobs'
    BY <1>1, <2>1, <2>2, <2>3, <2>6 DEF Jobs
  <2> QED  BY <2>5, <2>7
<1> QED  BY <1>2, <1>3, <1>4, <1>5

\* What the user does and what the GUI thread does then.
LEMMA UiShape ==
    ASSUME LinesInv,
           \/ ReadHistory \/ PutHistory \/ SendMessage \/ LogSent \/ OnPruneDb
           \/ OnClose \/ Shutdown \/ RunRetention
           \/ \E c \in Channels : OnNodeActivated(c) \/ OnTabClose(c)
           \/ \E m \in Typed : OnSend(m)
    PROVE  Shape' /\ Jobs'
<1> USE DEF LinesInv
<1>1. "ui" \in Threads /\ \A t \in Rx : t # "ui" /\ t \in Threads
  BY Apart
<1>2. CASE ReadHistory
  <2>1. PICK c \in reload : history' = HistoryEvent(c) /\ reload' = reload \ {c}
    BY <1>2 DEF ReadHistory
  <2>2. /\ Go("ui", "put history")
        /\ UNCHANGED <<db, came, job, synced, snap, uiq, open, lines, mixed, unlisted>>
    BY <1>2 DEF ReadHistory, tableVars, jobVars, listVars, tabVars, histVars
  <2>3. /\ pc' \in [Threads -> RxPcs \cup UiPcs]
        /\ pc'["ui"] = "put history" /\ \A u \in Threads : u # "ui" => pc'[u] = pc[u]
        /\ \A u \in Rx : pc'[u] \in RxPcs
        /\ pc'["ui"] \in UiPcs
    BY <1>1, <2>2, Moved DEF UiPcs
  <2>4. HistoryEvent(c) \in HistoryEvents
    BY DEF Shape, HistoryEvent, HistoryEvents
  <2>5. Shape'
    BY <2>1, <2>2, <2>3, <2>4 DEF Shape
  <2>6. Jobs'
    BY <2>2, <2>3 DEF Jobs
  <2> QED  BY <2>5, <2>6
<1>3. CASE PutHistory
  <2> DEFINE p == IF reload = {} THEN "idle" ELSE "reload"
  <2>1. /\ Go("ui", p) /\ PutUi(history) /\ pc["ui"] = "put history"
        /\ UNCHANGED <<db, came, job, synced, snap, open, lines, reload, mixed, unlisted>>
    BY <1>3 DEF PutHistory, tableVars, jobVars, listVars, tabVars, histVars
  <2>2. p \in {"idle", "reload"} /\ p \in UiPcs
    BY DEF UiPcs
  <2> HIDE DEF p
  <2>3. /\ pc' \in [Threads -> RxPcs \cup UiPcs]
        /\ pc'["ui"] = p /\ \A u \in Threads : u # "ui" => pc'[u] = pc[u]
        /\ \A u \in Rx : pc'[u] \in RxPcs
        /\ pc'["ui"] \in UiPcs
    BY <1>1, <2>1, <2>2, Moved
  <2>4. history \in Event
    BY <2>1 DEF Shape, Event
  <2>5. uiq' \in Seq(Event)
    BY <2>1, <2>4, PutOK
  <2>6. Shape'
    BY <2>1, <2>2, <2>3, <2>5 DEF Shape
  <2>7. Jobs'
    BY <2>1, <2>2, <2>3 DEF Jobs
  <2> QED  BY <2>6, <2>7
<1>4. CASE SendMessage
  <2>1. PICK p \in {"log", "refresh", "idle"} :
          Go("ui", p) /\ (IF p = "log" THEN job' = job ELSE job' = [job EXCEPT !["ui"] = None])
    BY <1>4 DEF SendMessage
  <2>2. /\ pc["ui"] = "send"
        /\ UNCHANGED <<db, came, synced, snap, uiq, open, lines, reload, history, mixed, unlisted>>
    BY <1>4 DEF SendMessage, tableVars, listVars, tabVars, reqVars, histVars
  <2>3. /\ pc' \in [Threads -> RxPcs \cup UiPcs]
        /\ pc'["ui"] = p /\ \A u \in Threads : u # "ui" => pc'[u] = pc[u]
        /\ \A u \in Rx : pc'[u] \in RxPcs
        /\ pc'["ui"] \in UiPcs
    BY <1>1, <2>1, Moved DEF UiPcs
  <2>4. Shape'
    BY <1>1, <2>1, <2>2, <2>3 DEF Shape
  <2>5. \A u \in Threads : job'[u] = job[u] \/ (u = "ui" /\ p # "log" /\ job'[u] = None)
    BY <2>1 DEF Shape
  <2>6. Jobs'
    BY <1>1, <2>1, <2>2, <2>3, <2>5 DEF Jobs
  <2> QED  BY <2>4, <2>6
<1>5. CASE LogSent
  <2>1. /\ Go("ui", "refresh") /\ pc["ui"] = "log" /\ db' = db \cup {job["ui"]}
        /\ UNCHANGED <<came, job, synced, snap, uiq, open, lines, reload, history, mixed, unlisted>>
    BY <1>5 DEF LogSent, jobVars, listVars, tabVars, reqVars, histVars
  <2>2. /\ pc' \in [Threads -> RxPcs \cup UiPcs]
        /\ pc'["ui"] = "refresh" /\ \A u \in Threads : u # "ui" => pc'[u] = pc[u]
        /\ \A u \in Rx : pc'[u] \in RxPcs
        /\ pc'["ui"] \in UiPcs
    BY <1>1, <2>1, Moved DEF UiPcs
  <2>3. job["ui"] \in Messages
    BY <1>1, <2>1 DEF Shape, Jobs
  <2>4. Shape'
    BY <2>1, <2>2, <2>3 DEF Shape
  <2>5. Jobs'
    BY <2>1, <2>2 DEF Jobs
  <2> QED  BY <2>4, <2>5
<1>6. CASE OnPruneDb
  <2>1. /\ Go("ui", "refresh") /\ db' \subseteq db /\ reload' = open
        /\ UNCHANGED <<came, job, synced, snap, uiq, open, lines, history, mixed, unlisted>>
    BY <1>6 DEF OnPruneDb, KeptBy, jobVars, listVars, tabVars, histVars
  <2>2. /\ pc' \in [Threads -> RxPcs \cup UiPcs]
        /\ pc'["ui"] = "refresh" /\ \A u \in Threads : u # "ui" => pc'[u] = pc[u]
        /\ \A u \in Rx : pc'[u] \in RxPcs
        /\ pc'["ui"] \in UiPcs
    BY <1>1, <2>1, Moved DEF UiPcs
  <2>3. Shape'
    BY <2>1, <2>2 DEF Shape
  <2>4. Jobs'
    BY <2>1, <2>2 DEF Jobs
  <2> QED  BY <2>3, <2>4
<1>7. CASE OnClose \/ Shutdown \/ RunRetention
  <2>1. /\ db' \subseteq db /\ unlisted' \in BOOLEAN
        /\ UNCHANGED <<pc, came, job, synced, snap, uiq, open, lines, reload, history, mixed>>
    BY <1>7 DEF OnClose, Shutdown, RunRetention, tableVars, jobVars, listVars, tabVars, reqVars,
                histVars, Shape
  <2> QED  BY <2>1 DEF Shape, Jobs
<1>8. ASSUME NEW c \in Channels, OnNodeActivated(c) PROVE Shape' /\ Jobs'
  <2>1. /\ Go("ui", "reload") /\ open' = open \cup {c} /\ reload' = {c}
        /\ UNCHANGED <<db, came, job, synced, snap, uiq, lines, history, mixed, unlisted>>
    BY <1>8 DEF OnNodeActivated, tableVars, jobVars, listVars, histVars
  <2>2. /\ pc' \in [Threads -> RxPcs \cup UiPcs]
        /\ pc'["ui"] = "reload" /\ \A u \in Threads : u # "ui" => pc'[u] = pc[u]
        /\ \A u \in Rx : pc'[u] \in RxPcs
        /\ pc'["ui"] \in UiPcs
    BY <1>1, <2>1, Moved DEF UiPcs
  <2>3. Shape'
    BY <2>1, <2>2 DEF Shape
  <2>4. Jobs'
    BY <2>1, <2>2 DEF Jobs
  <2> QED  BY <2>3, <2>4
<1>9. ASSUME NEW c \in Channels, OnTabClose(c) PROVE Shape' /\ Jobs'
  <2>1. /\ open' = open \ {c} /\ lines' = [lines EXCEPT ![c] = {}]
        /\ UNCHANGED <<pc, db, came, job, synced, snap, uiq, reload, history, mixed, unlisted>>
    BY <1>9 DEF OnTabClose, tableVars, jobVars, listVars, reqVars, histVars
  <2>2. Shape'
    BY <2>1 DEF Shape
  <2>3. Jobs'
    BY <2>1 DEF Jobs
  <2> QED  BY <2>2, <2>3
<1>10. ASSUME NEW m \in Typed, OnSend(m) PROVE Shape' /\ Jobs'
  <2>1. /\ Go("ui", "send") /\ m \notin came /\ came' = came \cup {m}
        /\ job' = [job EXCEPT !["ui"] = m]
        /\ open' = open \cup {Chan[m]}
        /\ lines' = [lines EXCEPT ![Chan[m]] = lines[Chan[m]] \cup {m}]
        /\ UNCHANGED <<db, synced, snap, uiq, reload, history, mixed, unlisted>>
    BY <1>10 DEF OnSend, AppendChatLine, listVars, reqVars
  <2>2. /\ pc' \in [Threads -> RxPcs \cup UiPcs]
        /\ pc'["ui"] = "send" /\ \A u \in Threads : u # "ui" => pc'[u] = pc[u]
        /\ \A u \in Rx : pc'[u] \in RxPcs
        /\ pc'["ui"] \in UiPcs
    BY <1>1, <2>1, Moved DEF UiPcs
  <2>3. m \in Messages /\ m # None /\ Chan[m] \in Channels
    BY UiAssumption, ChannelsOK DEF Messages
  <2>4. Shape'
    BY <1>1, <2>1, <2>2, <2>3 DEF Shape
  <2>5. \A u \in Threads : job'[u] = IF u = "ui" THEN m ELSE job[u]
    BY <2>1 DEF Shape
  <2>6. Jobs'
    BY <1>1, <2>1, <2>2, <2>3, <2>5 DEF Jobs
  <2> QED  BY <2>4, <2>6
<1> QED  BY <1>2, <1>3, <1>4, <1>5, <1>6, <1>7, <1>8, <1>9, <1>10

\* What on_timer does with the first event, and where it goes on.
LEMMA TimerFacts ==
    ASSUME Shape, OnTimer
    PROVE  LET e == Head(uiq) IN
           /\ e \in Event /\ uiq # <<>> /\ uiq' = Tail(uiq)
           /\ pc["ui"] \in {"idle", "timer"} /\ pc'["ui"] \in {"idle", "timer"}
           /\ pc' \in [Threads -> RxPcs \cup UiPcs]
           /\ \A u \in Rx : pc'[u] = pc[u]
           /\ UNCHANGED <<db, came, job, synced, snap, last, reload, history>>
           /\ UNCHANGED <<raced, mixed, unlisted>>
           /\ e.kind = "chat" => /\ AppendChatLine(Chan[e.msg], e.msg) /\ known' = known
           /\ e.kind = "history" => /\ open' = open \cup {e.chan} /\ known' = known
                                    /\ lines' = [lines EXCEPT ![e.chan] = e.msgs]
           /\ e.kind = "channels" => known' = e.chans /\ UNCHANGED <<open, lines>>
<1> DEFINE e == Head(uiq)
           p == IF Len(uiq) = 1 THEN "idle" ELSE "timer"
<1>1. uiq # <<>> /\ uiq' = Tail(uiq) /\ pc["ui"] \in {"idle", "timer"} /\ Go("ui", p)
  BY DEF OnTimer
<1>2. /\ UNCHANGED <<db, came, job, synced, snap, last, reload, history>>
      /\ UNCHANGED <<raced, mixed, unlisted>>
  BY DEF OnTimer, tableVars, jobVars, listVars, reqVars, histVars
<1>3. p \in {"idle", "timer"} /\ p \in UiPcs
  BY DEF UiPcs
<1>4. e \in Event
  BY <1>1, TakeOK
<1>5. (CASE e.kind = "chat" -> RenderChat(e)
         [] e.kind = "history" -> RenderHistory(e)
         [] e.kind = "channels" -> RenderChannels(e))
  BY DEF OnTimer
<1> HIDE DEF e, p
<1>6. /\ pc' \in [Threads -> RxPcs \cup UiPcs]
      /\ pc'["ui"] = p /\ \A u \in Threads : u # "ui" => pc'[u] = pc[u]
  BY <1>1, <1>3, Apart, Moved
<1>7. e.kind = "chat" => AppendChatLine(Chan[e.msg], e.msg) /\ known' = known
  BY <1>5 DEF RenderChat
<1>8. e.kind = "history" => /\ open' = open \cup {e.chan} /\ known' = known
                            /\ lines' = [lines EXCEPT ![e.chan] = e.msgs]
  BY <1>5 DEF RenderHistory
<1>9. e.kind = "channels" => known' = e.chans /\ UNCHANGED <<open, lines>>
  BY <1>5 DEF RenderChannels
<1> QED  BY <1>1, <1>2, <1>3, <1>4, <1>6, <1>7, <1>8, <1>9, Apart DEF e

\* Shape after a tick of the timer.
LEMMA TimerShape ==
    ASSUME LinesInv, OnTimer
    PROVE  Shape' /\ Jobs'
<1> USE DEF LinesInv
<1> DEFINE e == Head(uiq)
<1>1. /\ e \in Event /\ uiq # <<>> /\ uiq' = Tail(uiq)
      /\ pc["ui"] \in {"idle", "timer"} /\ pc'["ui"] \in {"idle", "timer"}
      /\ pc' \in [Threads -> RxPcs \cup UiPcs]
      /\ \A u \in Rx : pc'[u] = pc[u]
      /\ UNCHANGED <<db, came, job, synced, snap, last, reload, history>>
      /\ UNCHANGED <<raced, mixed, unlisted>>
      /\ e.kind = "chat" => /\ AppendChatLine(Chan[e.msg], e.msg) /\ known' = known
      /\ e.kind = "history" => /\ open' = open \cup {e.chan} /\ known' = known
                               /\ lines' = [lines EXCEPT ![e.chan] = e.msgs]
      /\ e.kind = "channels" => known' = e.chans /\ UNCHANGED <<open, lines>>
  BY TimerFacts
<1>2. uiq' \in Seq(Event)
  BY <1>1, TakeOK
<1> HIDE DEF e
<1>3. open' \in SUBSET Channels /\ lines' \in [Channels -> SUBSET Messages]
  <2>1. CASE e.kind = "chat"
    <3>1. e.msg \in Messages /\ Chan[e.msg] \in Channels
      BY <1>1, <2>1, Kinds, ChannelsOK
    <3>2. /\ open' = open \cup {Chan[e.msg]}
          /\ lines' = [lines EXCEPT ![Chan[e.msg]] = lines[Chan[e.msg]] \cup {e.msg}]
      BY <1>1, <2>1 DEF AppendChatLine
    <3> QED  BY <3>1, <3>2 DEF Shape
  <2>2. CASE e.kind = "history"
    BY <1>1, <2>2, Kinds DEF Shape
  <2>3. CASE e.kind = "channels"
    BY <1>1, <2>3 DEF Shape
  <2> QED  BY <1>1, <2>1, <2>2, <2>3, Kinds
<1>4. Shape'
  BY <1>1, <1>2, <1>3 DEF Shape, UiPcs
<1>5. Jobs'
  BY <1>1 DEF Jobs
<1> QED  BY <1>4, <1>5

-----------------------------------------------------------------------------
(* Lines.                                                                  *)

\* A message stays settled, and once gone it does not come back: whoever stores a
\* message has it in hand from its arrival on.
LEMMA Stays ==
    ASSUME LinesInv, came \subseteq came', raced \subseteq raced',
           OnlyNewTakenUp,
           \A m \in Messages : m \in db' => m \in db \/ ~Settled(m)
    PROVE  \A m \in Messages :
             /\ Settled(m) => Settled(m)'
             /\ Gone(m) => Gone(m)'
             /\ \A e : Keeps(e, m) => Keeps(e, m)'
<1> TAKE m \in Messages
<1>1. Settled(m) => Settled(m)'
  <2>1. m # None
    BY UiAssumption
  <2> QED  BY <2>1 DEF Settled
<1>2. Gone(m) => Gone(m)'
  BY <1>1 DEF Gone
<1>3. \A e : Keeps(e, m) => Keeps(e, m)'
  BY <1>2 DEF Keeps
<1> QED  BY <1>1, <1>2, <1>3

\* Steps that show nothing new and put no snapshot.
LEMMA Plain ==
    ASSUME LinesInv, Shape',
           \A m \in Messages :
             /\ Settled(m) => Settled(m)'
             /\ \A e : Keeps(e, m) => Keeps(e, m)',
           \A m \in db' : m \in db \/ Settled(m)',
           \A m \in Messages : Typing(m) => Typing(m)' \/ Settled(m)',
           \A c \in Channels : lines'[c] \subseteq lines[c],
           \A e \in Event : Due(e)' => Due(e) \/ e.kind = "channels",
           \A d, e \in Event : Ahead(d, e)' =>
               Ahead(d, e) \/ d.kind = "channels" \/ e.kind = "channels"
    PROVE  Lasting' /\ Keeping'
<1> USE DEF LinesInv
<1>1. Lasting'
  <2>1. \A m \in db' : Settled(m)'
    BY DEF Shape, Lasting
  <2>2. ASSUME NEW e \in Event, Due(e)', NEW m \in Shows(e)
        PROVE  Settled(m)' /\ (e.kind = "history" => Chan[m] = e.chan)
    BY <2>2, Kinds DEF Lasting
  <2>3. ASSUME NEW c \in Channels, NEW m \in lines'[c]
        PROVE  Chan[m] = c /\ (Settled(m)' \/ Typing(m)')
    <3>1. m \in lines[c] /\ m \in Messages
      BY DEF Shape
    <3> QED  BY <3>1 DEF Lasting
  <2> QED  BY <2>1, <2>2, <2>3 DEF Lasting
<1>2. ASSUME NEW e \in Event, Due(e)', NEW c \in Channels, NEW m \in lines'[c]
      PROVE  Keeps(e, m)'
  <2>1. m \in lines[c] /\ m \in Messages
    BY DEF Shape
  <2>2. CASE Due(e)
    BY <2>1, <2>2 DEF Keeping
  <2>3. CASE e.kind = "channels"
    BY <2>3 DEF Keeps
  <2> QED  BY <1>2, <2>2, <2>3
<1>3. ASSUME NEW d \in Event, NEW e \in Event, Ahead(d, e)', NEW m \in Shows(d)
      PROVE  Keeps(e, m)'
  <2>1. m \in Messages /\ d.kind # "channels"
    BY Kinds
  <2>2. CASE Ahead(d, e)
    BY <2>1, <2>2 DEF Keeping
  <2>3. CASE e.kind = "channels"
    BY <2>3 DEF Keeps
  <2> QED  BY <1>3, <2>1, <2>2, <2>3
<1>4. Keeping'
  BY <1>2, <1>3 DEF Keeping
<1> QED  BY <1>1, <1>4

\* Nothing is put and no snapshot is begun.
LEMMA SameQueue ==
    ASSUME uiq' = uiq, pc'["ui"] = "put history" => pc["ui"] = "put history" /\ history' = history
    PROVE  /\ \A e \in Event : Due(e)' => Due(e)
           /\ \A d, e \in Event : Ahead(d, e)' => Ahead(d, e)
  BY DEF Due, Ahead, Waits, Precedes, Putting

\* Storing a message settles it.
LEMMA StoredIsSettled ==
    ASSUME LinesInv, NEW t \in Threads, NEW m, m = job[t], m # None,
           came' = came, job' = job,
           pc'[t] \notin {"store", "send", "log"}
    PROVE  Settled(m)'
<1>1. m \in came /\ \A u \in Threads : job[u] = m => u = t
  BY DEF LinesInv, Jobs
<1> QED  BY <1>1 DEF Settled

\* What a step of a refresh leaves alone.
LEMMA RefreshFacts ==
    ASSUME Shape, NEW t \in Threads, Refresh(t)
    PROVE  /\ UNCHANGED <<db, came, synced, open, lines, known, reload, history, raced>>
           /\ pc[t] \in {"initial", "refresh", "set", "compare", "put list"}
           /\ pc'[t] \in {"set", "compare", "put list", "reload", "applied", "idle"}
           /\ \A u \in Threads : u # t => pc'[u] = pc[u] /\ job'[u] = job[u] /\ snap'[u] = snap[u]
           /\ job'[t] \in {job[t], None}
           /\ uiq' = uiq \/ PutUi(ChannelListEvent(snap[t]))
<1>1. CASE ReadChannels(t)
  <2> USE DEF ReadChannels, tableVars, jobVars, tabVars, reqVars, Shape, Go
  <2>1. /\ UNCHANGED <<db, came, synced, open, lines, known, reload, history, raced, uiq, job>>
        /\ pc[t] \in {"initial", "refresh"}
    BY <1>1
  <2>2. pc'[t] \in {"set", "compare"} /\ \A u \in Threads : u # t => pc'[u] = pc[u]
    BY <1>1
  <2>3. \A u \in Threads : u # t => snap'[u] = snap[u]
    BY <1>1
  <2> QED  BY <2>1, <2>2, <2>3
<1>2. CASE SetLastChannels(t)
  <2> USE DEF SetLastChannels, tableVars, jobVars, tabVars, reqVars, histVars, Shape, Go
  <2>1. /\ UNCHANGED <<db, came, synced, open, lines, known, reload, history, raced, uiq, job, snap>>
        /\ pc[t] \in {"set", "compare"}
    BY <1>2
  <2>2. pc'[t] = "put list" /\ \A u \in Threads : u # t => pc'[u] = pc[u]
    BY <1>2
  <2> QED  BY <2>1, <2>2
<1>3. CASE SameChannels(t) \/ PutChannels(t)
  <2> USE DEF SameChannels, PutChannels, tableVars, tabVars, reqVars, histVars, Shape, Go, AfterRefresh
  <2>1. /\ UNCHANGED <<db, came, synced, open, lines, known, reload, history, raced>>
        /\ pc[t] \in {"put list", "compare"}
        /\ uiq' = uiq \/ PutUi(ChannelListEvent(snap[t]))
    BY <1>3
  <2>2. pc'[t] \in {"reload", "applied", "idle"} /\ \A u \in Threads : u # t => pc'[u] = pc[u]
    BY <1>3
  <2>3. \A u \in Threads : u # t => snap'[u] = snap[u] /\ job'[u] = job[u]
    BY <1>3
  <2>4. job'[t] = None
    BY <1>3
  <2> QED  BY <2>1, <2>2, <2>3, <2>4
<1> QED  BY <1>1, <1>2, <1>3 DEF Refresh

\* A refresh shows no lines: the list it puts has none.
LEMMA RefreshLines ==
    ASSUME LinesInv, NEW t \in Threads, Refresh(t)
    PROVE  Lasting' /\ Keeping'
<1>1. Shape /\ Shape'
  BY RefreshShape DEF LinesInv
<1>2. /\ UNCHANGED <<db, came, synced, open, lines, known, reload, history, raced>>
      /\ pc[t] \in {"initial", "refresh", "set", "compare", "put list"}
      /\ pc'[t] \in {"set", "compare", "put list", "reload", "applied", "idle"}
      /\ \A u \in Threads : u # t => pc'[u] = pc[u] /\ job'[u] = job[u]
      /\ job'[t] \in {job[t], None}
      /\ uiq' = uiq \/ PutUi(ChannelListEvent(snap[t]))
  BY <1>1, RefreshFacts
<1>3. \A m \in Messages : /\ Settled(m) => Settled(m)'
                          /\ \A e : Keeps(e, m) => Keeps(e, m)'
  <2>1. OnlyNewTakenUp
    BY <1>2
  <2> QED  BY <1>2, <2>1, Stays
<1>4. \A m \in Messages : Typing(m) => Typing(m)' \/ Settled(m)'
  BY <1>2, Apart DEF Typing
<1>5. pc'["ui"] = "put history" => pc["ui"] = "put history" /\ history' = history
  BY <1>2, Apart
<1>6. /\ \A e \in Event : Due(e)' => Due(e) \/ e.kind = "channels"
      /\ \A d, e \in Event : Ahead(d, e)' =>
               Ahead(d, e) \/ d.kind = "channels" \/ e.kind = "channels"
  <2>1. CASE uiq' = uiq
    BY <1>5, <2>1, SameQueue
  <2>2. CASE PutUi(ChannelListEvent(snap[t]))
    <3>1. PICK x : x = ChannelListEvent(snap[t])
      OBVIOUS
    <3>2. x \in Event /\ x.kind = "channels"
      BY <1>1, <3>1 DEF Shape, Event, ListEvents, ChannelListEvent
    <3>3. /\ \A d : Waits(d)' => Waits(d) \/ d = x
          /\ \A d, f : Precedes(d, f)' => Precedes(d, f) \/ (Waits(d) /\ f = x)
      BY <1>1, <2>2, <3>1, <3>2, PutOK
    <3>4. \A e : Putting(e)' => Putting(e)
      BY <1>5 DEF Putting
    <3> QED  BY <3>2, <3>3, <3>4 DEF Due, Ahead
  <2> QED  BY <1>2, <2>1, <2>2
<1>7. \A m \in db' : m \in db \/ Settled(m)'
  BY <1>2
<1>8. \A c \in Channels : lines'[c] \subseteq lines[c]
  BY <1>2
<1> QED  BY <1>1, <1>3, <1>4, <1>6, <1>7, <1>8, Plain

\* Steps that neither put an event nor read a history: messages arrive and are
\* stored, rows go, the user opens a tab or closes one, a send ends.
LEMMA QuietLines ==
    ASSUME LinesInv, Shape', came \subseteq came', raced' = raced, uiq' = uiq,
           pc'["ui"] = "put history" => pc["ui"] = "put history" /\ history' = history,
           OnlyNewTakenUp,
           \A m \in Messages : m \in db' => m \in db \/ (~Settled(m) /\ Settled(m)'),
           \A m \in Messages : Typing(m) => Typing(m)' \/ Settled(m)',
           \A c \in Channels : lines'[c] \subseteq lines[c]
    PROVE  Lasting' /\ Keeping'
<1>1. \A m \in Messages : /\ Settled(m) => Settled(m)'
                          /\ \A e : Keeps(e, m) => Keeps(e, m)'
  BY Stays
<1>2. /\ \A e \in Event : Due(e)' => Due(e)
      /\ \A d, e \in Event : Ahead(d, e)' => Ahead(d, e)
  BY SameQueue
<1>3. \A m \in db' : m \in db \/ Settled(m)'
  BY DEF Shape
<1> QED  BY <1>1, <1>2, <1>3, Plain

\* _on_chat_message: the message is stored by then, and a snapshot read before that and
\* put after this event has raced with it.
LEMMA ChatLines ==
    ASSUME LinesInv, NEW t \in Rx, OnChatMessage(t)
    PROVE  Lasting' /\ Keeping'
<1>1. Shape /\ Shape' /\ Jobs /\ Lasting /\ Keeping /\ t \in Threads /\ t # "ui" /\ "ui" \in Threads
  BY RxShape, Apart DEF LinesInv
<1>2. PICK m : m = job[t]
  OBVIOUS
<1>3. PICK x : x = ChatEvent(m)
  OBVIOUS
<1>4. /\ pc[t] = "chat" /\ PutUi(x) /\ Go(t, "refresh")
      /\ raced' = IF pc["ui"] = "put history" /\ LacksLine(history, m)
                  THEN raced \cup {m} ELSE raced
      /\ UNCHANGED <<db, came, job, lines, history>>
  BY <1>2, <1>3 DEF OnChatMessage, Following, tableVars, jobVars, tabVars, reqVars
<1>5. pc'[t] = "refresh" /\ \A u \in Threads : u # t => pc'[u] = pc[u]
  BY <1>1, <1>4 DEF Go, Shape
<1>6. m \in Messages /\ m \in came /\ \A u \in Threads : job[u] = m => u = t
  BY <1>1, <1>2, <1>4 DEF Shape, Jobs
<1>7. x \in Event /\ x.kind = "chat" /\ Shows(x) = {m}
  BY <1>3, <1>6 DEF Event, ChatEvents, ChatEvent, Shows
<1>8. \A k \in Messages : /\ Settled(k) => Settled(k)'
                          /\ \A e : Keeps(e, k) => Keeps(e, k)'
  <2>1. OnlyNewTakenUp
    BY <1>4, <1>5
  <2> QED  BY <1>4, <2>1, Stays
<1>9. Settled(m)'
  BY <1>4, <1>5, <1>6 DEF Settled
<1>10. /\ \A e : Waits(e)' => Waits(e) \/ e = x
       /\ \A d, e : Precedes(d, e)' => Precedes(d, e) \/ (Waits(d) /\ e = x)
  BY <1>1, <1>4, <1>7, PutOK
<1>11. \A e : Putting(e)' => Putting(e)
  BY <1>1, <1>4, <1>5 DEF Putting
<1>12. Lasting'
  <2>1. \A k \in db' : Settled(k)'
    BY <1>1, <1>4, <1>8 DEF Lasting, Shape
  <2>2. ASSUME NEW e \in Event, Due(e)', NEW k \in Shows(e)
        PROVE  Settled(k)' /\ (e.kind = "history" => Chan[k] = e.chan)
    <3>1. CASE Due(e)
      <4>1. k \in Messages
        BY Kinds
      <4> QED  BY <1>1, <1>8, <3>1, <4>1 DEF Lasting
    <3>2. CASE e = x
      BY <1>7, <1>9, <3>2
    <3> QED  BY <1>10, <1>11, <2>2, <3>1, <3>2 DEF Due
  <2>3. ASSUME NEW c \in Channels, NEW k \in lines'[c]
        PROVE  Chan[k] = c /\ (Settled(k)' \/ Typing(k)')
    <3>1. k \in lines[c] /\ k \in Messages
      BY <1>1, <1>4 DEF Shape
    <3>2. Typing(k) => Typing(k)'
      BY <1>1, <1>4, <1>5 DEF Typing
    <3> QED  BY <1>1, <1>8, <3>1, <3>2 DEF Lasting
  <2> QED  BY <2>1, <2>2, <2>3 DEF Lasting
<1>13. ASSUME NEW e \in Event, Due(e)', NEW c \in Channels, NEW k \in lines'[c]
       PROVE  Keeps(e, k)'
  <2>1. k \in lines[c] /\ k \in Messages
    BY <1>1, <1>4 DEF Shape
  <2>2. CASE Due(e)
    BY <1>1, <1>8, <2>1, <2>2 DEF Keeping
  <2>3. CASE e = x
    BY <1>7, <2>3 DEF Keeps
  <2> QED  BY <1>10, <1>11, <1>13, <2>2, <2>3 DEF Due
<1>14. ASSUME NEW d \in Event, NEW e \in Event, Ahead(d, e)', NEW k \in Shows(d)
       PROVE  Keeps(e, k)'
  <2>1. k \in Messages
    BY Kinds
  <2>2. CASE Ahead(d, e)
    BY <1>1, <1>8, <2>1, <2>2 DEF Keeping
  <2>3. CASE e = x
    BY <1>7, <2>3 DEF Keeps
  <2>4. CASE d = x /\ Putting(e)
    <3>1. k = m
      BY <1>7, <2>4
    <3>2. e = history /\ pc["ui"] = "put history"
      BY <2>4 DEF Putting
    <3> QED  BY <1>4, <3>1, <3>2 DEF Keeps, LacksLine
  <2> QED  BY <1>10, <1>11, <1>14, <2>2, <2>3, <2>4 DEF Ahead
<1>15. Keeping'
  BY <1>13, <1>14 DEF Keeping
<1> QED  BY <1>12, <1>15

\* The other steps of an RX thread.
LEMMA RxLines ==
    ASSUME LinesInv, NEW t \in Rx,
           Store(t) \/ OnSyncApplied(t) \/ \E m \in Incoming : Receive(t, m)
    PROVE  Lasting' /\ Keeping'
<1>1. Shape /\ Shape' /\ Jobs /\ t \in Threads /\ t # "ui" /\ "ui" \in Threads
  BY RxShape, Apart DEF LinesInv
<1>2. CASE Store(t)
  <2>1. /\ Go(t, "chat") /\ db' = db \cup {job[t]} /\ pc[t] = "store"
        /\ UNCHANGED <<came, job, uiq, lines, history, raced>>
    BY <1>2 DEF Store, Following, jobVars, tabVars, reqVars, histVars
  <2>2. pc'[t] = "chat" /\ \A u \in Threads : u # t => pc'[u] = pc[u]
    BY <1>1, <2>1 DEF Go, Shape
  <2>3. PICK k : k = job[t]
    OBVIOUS
  <2>4. k # None
    BY <1>1, <2>1, <2>3 DEF Jobs
  <2>5. Settled(k)'
    BY <1>1, <2>1, <2>2, <2>3, <2>4, StoredIsSettled
  <2>6. ~Settled(k)
    BY <1>1, <2>1, <2>3 DEF Settled
  <2>7. \A m \in Messages : m \in db' => m \in db \/ (~Settled(m) /\ Settled(m)')
    BY <2>1, <2>3, <2>5, <2>6
  <2>8. \A m \in Messages : Typing(m) => Typing(m)' \/ Settled(m)'
    BY <1>1, <2>1, <2>2 DEF Typing
  <2>9. OnlyNewTakenUp
    BY <2>1, <2>2
  <2> QED  BY <1>1, <2>1, <2>2, <2>7, <2>8, <2>9, QuietLines
<1>3. CASE OnSyncApplied(t)
  <2>1. /\ Go(t, "refresh")
        /\ UNCHANGED <<db, came, job, uiq, lines, history, raced>>
    BY <1>3 DEF OnSyncApplied, tableVars, tabVars, reqVars, histVars
  <2>2. pc'[t] = "refresh" /\ \A u \in Threads : u # t => pc'[u] = pc[u]
    BY <1>1, <2>1 DEF Go, Shape
  <2>3. \A m \in Messages : Typing(m) => Typing(m)' \/ Settled(m)'
    BY <1>1, <2>1, <2>2 DEF Typing
  <2>4. OnlyNewTakenUp
    BY <2>1, <2>2
  <2> QED  BY <1>1, <2>1, <2>2, <2>3, <2>4, QuietLines
<1>4. ASSUME NEW k \in Incoming, Receive(t, k) PROVE Lasting' /\ Keeping'
  <2>1. /\ Go(t, "store") /\ job' = [job EXCEPT ![t] = k] /\ came' = came \cup {k}
        /\ k \notin came
        /\ UNCHANGED <<db, uiq, lines, history, raced>>
    BY <1>4 DEF Receive, Following, tabVars, reqVars, histVars
  <2>2. pc'[t] = "store" /\ \A u \in Threads : u # t => pc'[u] = pc[u]
    BY <1>1, <2>1 DEF Go, Shape
  <2>3. \A u \in Threads : job'[u] = IF u = t THEN k ELSE job[u]
    BY <1>1, <2>1 DEF Shape
  <2>4. k \notin Stored
    BY UiAssumption
  <2>5. \A m \in Messages : Typing(m) => Typing(m)' \/ Settled(m)'
    BY <1>1, <2>2, <2>3 DEF Typing
  <2>6. OnlyNewTakenUp
    BY <2>1, <2>2, <2>3, <2>4
  <2>7. came \subseteq came' /\ (pc'["ui"] = "put history" => pc["ui"] = "put history" /\ history' = history)
    BY <1>1, <2>1, <2>2
  <2> QED  BY <1>1, <2>1, <2>5, <2>6, <2>7, QuietLines
<1> QED  BY <1>2, <1>3, <1>4

\* What the user does, and the sending, storing and pruning that follow; retention.
LEMMA UserLines ==
    ASSUME LinesInv,
           \/ SendMessage \/ LogSent \/ OnPruneDb \/ OnClose \/ Shutdown \/ RunRetention
           \/ \E c \in Channels : OnNodeActivated(c) \/ OnTabClose(c)
    PROVE  Lasting' /\ Keeping'
<1>1. Shape /\ Shape' /\ Jobs /\ "ui" \in Threads
  BY UiShape, Apart DEF LinesInv
<1>2. CASE SendMessage
  <2>1. PICK p \in {"log", "refresh", "idle"} :
          Go("ui", p) /\ (IF p = "log" THEN job' = job ELSE job' = [job EXCEPT !["ui"] = None])
    BY <1>2 DEF SendMessage
  <2>2. pc["ui"] = "send" /\ UNCHANGED <<db, came, uiq, lines, history, raced>>
    BY <1>2 DEF SendMessage, tableVars, tabVars, reqVars, histVars
  <2>3. pc'["ui"] = p /\ \A u \in Threads : u # "ui" => pc'[u] = pc[u]
    BY <1>1, <2>1 DEF Go, Shape
  <2>4. \A u \in Threads : IF u = "ui" /\ p # "log" THEN job'[u] = None ELSE job'[u] = job[u]
    BY <1>1, <2>1 DEF Shape
  <2>5. ASSUME NEW m \in Messages, Typing(m) PROVE Typing(m)' \/ Settled(m)'
    <3>1. job["ui"] = m /\ m # None
      BY <2>5, UiAssumption DEF Typing
    <3>2. CASE p = "log"
      BY <1>1, <2>3, <2>4, <3>1, <3>2 DEF Typing
    <3>3. CASE p # "log"
      <4>1. m \in came /\ \A u \in Threads : job[u] = m => u = "ui"
        BY <1>1, <3>1 DEF Jobs
      <4>2. \A u \in Threads : job'[u] # m
        BY <1>1, <2>4, <3>1, <3>3, <4>1
      <4> QED  BY <2>2, <4>1, <4>2 DEF Settled
    <3> QED  BY <3>2, <3>3
  <2>6. OnlyNewTakenUp
    BY <2>1, <2>2, <2>3, <2>4
  <2>7. pc'["ui"] # "put history"
    BY <2>1, <2>3
  <2> QED  BY <1>1, <2>2, <2>5, <2>6, <2>7, QuietLines
<1>3. CASE LogSent
  <2>1. /\ Go("ui", "refresh") /\ pc["ui"] = "log" /\ db' = db \cup {job["ui"]}
        /\ UNCHANGED <<came, job, uiq, lines, history, raced>>
    BY <1>3 DEF LogSent, jobVars, tabVars, reqVars, histVars
  <2>2. pc'["ui"] = "refresh" /\ \A u \in Threads : u # "ui" => pc'[u] = pc[u]
    BY <1>1, <2>1 DEF Go, Shape
  <2>3. PICK k : k = job["ui"]
    OBVIOUS
  <2>4. k # None
    BY <1>1, <2>1, <2>3 DEF Jobs
  <2>5. Settled(k)'
    BY <1>1, <2>1, <2>2, <2>3, <2>4, StoredIsSettled
  <2>6. ~Settled(k)
    BY <1>1, <2>1, <2>3 DEF Settled
  <2>7. \A m \in Messages : m \in db' => m \in db \/ (~Settled(m) /\ Settled(m)')
    BY <2>1, <2>3, <2>5, <2>6
  <2>8. \A m \in Messages : Typing(m) => Typing(m)' \/ Settled(m)'
    BY <2>3, <2>5 DEF Typing
  <2>9. OnlyNewTakenUp
    BY <2>1, <2>2
  <2> QED  BY <1>1, <2>1, <2>2, <2>7, <2>8, <2>9, QuietLines
<1>4. CASE OnPruneDb
  <2>1. /\ Go("ui", "refresh") /\ db' \subseteq db /\ pc["ui"] = "idle"
        /\ UNCHANGED <<came, job, uiq, lines, history, raced>>
    BY <1>4 DEF OnPruneDb, UserActs, KeptBy, jobVars, tabVars, histVars
  <2>2. pc'["ui"] = "refresh" /\ \A u \in Threads : u # "ui" => pc'[u] = pc[u]
    BY <1>1, <2>1 DEF Go, Shape
  <2>3. \A m \in Messages : Typing(m) => Typing(m)' \/ Settled(m)'
    BY <2>1 DEF Typing
  <2>4. OnlyNewTakenUp
    BY <2>1, <2>2
  <2> QED  BY <1>1, <2>1, <2>2, <2>3, <2>4, QuietLines
<1>5. CASE OnClose \/ Shutdown \/ RunRetention
  <2>1. /\ db' \subseteq db
        /\ UNCHANGED <<pc, came, job, uiq, lines, history, raced>>
    BY <1>5 DEF OnClose, Shutdown, RunRetention, tableVars, jobVars, listVars, tabVars, reqVars,
                histVars
  <2>2. \A m \in Messages : Typing(m) => Typing(m)' \/ Settled(m)'
    BY <2>1 DEF Typing
  <2>3. OnlyNewTakenUp
    BY <2>1
  <2> QED  BY <1>1, <2>1, <2>2, <2>3, QuietLines
<1>6. ASSUME NEW c \in Channels, OnNodeActivated(c) PROVE Lasting' /\ Keeping'
  <2>1. /\ Go("ui", "reload") /\ pc["ui"] = "idle"
        /\ UNCHANGED <<db, came, job, uiq, lines, history, raced>>
    BY <1>6 DEF OnNodeActivated, UserActs, tableVars, jobVars, histVars
  <2>2. pc'["ui"] = "reload" /\ \A u \in Threads : u # "ui" => pc'[u] = pc[u]
    BY <1>1, <2>1 DEF Go, Shape
  <2>3. \A m \in Messages : Typing(m) => Typing(m)' \/ Settled(m)'
    BY <2>1 DEF Typing
  <2>4. OnlyNewTakenUp
    BY <2>1, <2>2
  <2> QED  BY <1>1, <2>1, <2>2, <2>3, <2>4, QuietLines
<1>7. ASSUME NEW c \in Channels, OnTabClose(c) PROVE Lasting' /\ Keeping'
  <2>1. /\ lines' = [lines EXCEPT ![c] = {}]
        /\ UNCHANGED <<pc, db, came, job, uiq, history, raced>>
    BY <1>7 DEF OnTabClose, tableVars, jobVars, reqVars, histVars
  <2>2. \A m \in Messages : Typing(m) => Typing(m)' \/ Settled(m)'
    BY <2>1 DEF Typing
  <2>3. OnlyNewTakenUp
    BY <2>1
  <2>4. \A b \in Channels : lines'[b] \subseteq lines[b]
    BY <1>1, <2>1 DEF Shape
  <2> QED  BY <1>1, <2>1, <2>2, <2>3, <2>4, QuietLines
<1> QED  BY <1>2, <1>3, <1>4, <1>5, <1>6, <1>7

\* request_history reads the table: what the snapshot lacks of the lines shown or on
\* their way is gone from it.
LEMMA ReadLines ==
    ASSUME LinesInv, ReadHistory
    PROVE  Lasting' /\ Keeping'
<1>1. Shape /\ Shape' /\ Jobs /\ Lasting /\ Keeping /\ "ui" \in Threads
  BY UiShape, Apart DEF LinesInv
<1>2. PICK c \in Channels : history' = HistoryEvent(c)
  BY <1>1 DEF ReadHistory, Shape
<1>3. /\ pc["ui"] = "reload" /\ Go("ui", "put history")
      /\ UNCHANGED <<db, came, job, uiq, lines, raced>>
  BY DEF ReadHistory, tableVars, jobVars, tabVars, histVars
<1>4. pc'["ui"] = "put history" /\ \A u \in Threads : u # "ui" => pc'[u] = pc[u]
  BY <1>1, <1>3 DEF Go, Shape
<1>5. PICK x : x = HistoryEvent(c)
  OBVIOUS
<1>6. /\ x \in Event /\ x.kind = "history" /\ x.chan = c
      /\ x.msgs = {m \in db : Chan[m] = c} /\ Shows(x) = x.msgs
  BY <1>1, <1>5 DEF Shape, HistoryEvent, HistoryEvents, Event, Shows
<1>7. \A m \in Messages : /\ Settled(m) => Settled(m)'
                          /\ Gone(m) => Gone(m)'
                          /\ \A e : Keeps(e, m) => Keeps(e, m)'
  <2>1. OnlyNewTakenUp
    BY <1>3, <1>4
  <2> QED  BY <1>3, <2>1, Stays
<1>8. /\ \A e : Due(e)' => Due(e) \/ e = x
      /\ \A d, e : Ahead(d, e)' => Ahead(d, e) \/ (Due(d) /\ e = x)
  BY <1>2, <1>3, <1>4, <1>5 DEF Due, Ahead, Waits, Precedes, Putting
<1>9. \A m \in Messages : Settled(m) => Keeps(x, m)'
  <2> TAKE m \in Messages
  <2>1. CASE m \in db
    BY <1>6, <2>1 DEF Keeps
  <2>2. CASE m \notin db
    BY <1>7, <2>2 DEF Keeps, Gone
  <2> QED  BY <2>1, <2>2
<1>10. \A b \in Channels : \A m \in lines[b] : m \in Messages /\ Settled(m) /\ Chan[m] = b
  BY <1>1, <1>3 DEF Lasting, Typing, Shape
<1>11. Lasting'
  <2>1. \A m \in db' : Settled(m)'
    BY <1>1, <1>3, <1>7 DEF Lasting, Shape
  <2>2. ASSUME NEW e \in Event, Due(e)', NEW m \in Shows(e)
        PROVE  Settled(m)' /\ (e.kind = "history" => Chan[m] = e.chan)
    <3>1. m \in Messages
      BY Kinds
    <3>2. CASE Due(e)
      BY <1>1, <1>7, <3>1, <3>2 DEF Lasting
    <3>3. CASE e = x
      BY <1>3, <1>6, <2>1, <3>3
    <3> QED  BY <1>8, <2>2, <3>2, <3>3
  <2>3. \A b \in Channels : \A m \in lines'[b] : Chan[m] = b /\ (Settled(m)' \/ Typing(m)')
    BY <1>3, <1>7, <1>10
  <2> QED  BY <2>1, <2>2, <2>3 DEF Lasting
<1>12. ASSUME NEW e \in Event, Due(e)', NEW b \in Channels, NEW m \in lines'[b]
       PROVE  Keeps(e, m)'
  <2>1. m \in lines[b] /\ m \in Messages /\ Settled(m)
    BY <1>3, <1>10
  <2>2. CASE Due(e)
    BY <1>1, <1>7, <2>1, <2>2 DEF Keeping
  <2>3. CASE e = x
    BY <1>9, <2>1, <2>3
  <2> QED  BY <1>8, <1>12, <2>2, <2>3
<1>13. ASSUME NEW d \in Event, NEW e \in Event, Ahead(d, e)', NEW m \in Shows(d)
       PROVE  Keeps(e, m)'
  <2>1. m \in Messages
    BY Kinds
  <2>2. CASE Ahead(d, e)
    BY <1>1, <1>7, <2>1, <2>2 DEF Keeping
  <2>3. CASE Due(d) /\ e = x
    BY <1>1, <1>9, <2>1, <2>3 DEF Lasting
  <2> QED  BY <1>8, <1>13, <2>2, <2>3
<1>14. Keeping'
  BY <1>12, <1>13 DEF Keeping
<1> QED  BY <1>11, <1>14

\* request_history puts the snapshot behind all that waits.
LEMMA PutLines ==
    ASSUME LinesInv, PutHistory
    PROVE  Lasting' /\ Keeping'
<1>1. Shape /\ Shape' /\ "ui" \in Threads
  BY UiShape, Apart DEF LinesInv
<1>2. PICK p \in {"idle", "reload"} : Go("ui", p)
  BY DEF PutHistory
<1>3. /\ PutUi(history) /\ pc["ui"] = "put history"
      /\ UNCHANGED <<db, came, job, lines, raced>>
  BY DEF PutHistory, tableVars, jobVars, tabVars, histVars
<1>4. pc'["ui"] = p /\ \A u \in Threads : u # "ui" => pc'[u] = pc[u]
  BY <1>1, <1>2 DEF Go, Shape
<1>5. PICK x : x = history
  OBVIOUS
<1>6. x \in Event
  BY <1>1, <1>3, <1>5 DEF Shape, Event
<1>7. /\ \A e : Waits(e)' => Waits(e) \/ e = x
      /\ \A d, e : Precedes(d, e)' => Precedes(d, e) \/ (Waits(d) /\ e = x)
  BY <1>1, <1>3, <1>5, <1>6, PutOK
<1>8. Putting(x) /\ \A e : ~Putting(e)'
  BY <1>2, <1>3, <1>4, <1>5 DEF Putting
<1>9. /\ \A e \in Event : Due(e)' => Due(e)
      /\ \A d, e \in Event : Ahead(d, e)' => Ahead(d, e)
  BY <1>7, <1>8 DEF Due, Ahead
<1>10. \A m \in Messages : /\ Settled(m) => Settled(m)'
                           /\ \A e : Keeps(e, m) => Keeps(e, m)'
  <2>1. OnlyNewTakenUp
    BY <1>2, <1>3, <1>4
  <2> QED  BY <1>3, <2>1, Stays
<1>11. \A m \in Messages : Typing(m) => Typing(m)' \/ Settled(m)'
  BY <1>3 DEF Typing
<1> QED  BY <1>1, <1>3, <1>9, <1>10, <1>11, Plain

\* on_send shows the line at once: the snapshots that wait have raced with it.
LEMMA SendLines ==
    ASSUME LinesInv, NEW m \in Typed, OnSend(m)
    PROVE  Lasting' /\ Keeping'
<1>1. Shape /\ Shape' /\ Lasting /\ Keeping /\ "ui" \in Threads
  BY UiShape, Apart DEF LinesInv
<1>2. /\ Go("ui", "send") /\ pc["ui"] = "idle" /\ m \notin came /\ came' = came \cup {m}
      /\ job' = [job EXCEPT !["ui"] = m]
      /\ lines' = [lines EXCEPT ![Chan[m]] = lines[Chan[m]] \cup {m}]
      /\ raced' = IF \E i \in 1 .. Len(uiq) : LacksLine(uiq[i], m) THEN raced \cup {m} ELSE raced
      /\ UNCHANGED <<db, uiq>>
  BY DEF OnSend, UserActs, AppendChatLine
<1>3. pc'["ui"] = "send" /\ \A u \in Threads : u # "ui" => pc'[u] = pc[u]
  BY <1>1, <1>2 DEF Go, Shape
<1>4. \A u \in Threads : job'[u] = IF u = "ui" THEN m ELSE job[u]
  BY <1>1, <1>2 DEF Shape
<1>5. m \in Messages /\ m \notin Stored /\ Chan[m] \in Channels
  BY UiAssumption, ChannelsOK DEF Messages
<1>6. \A k \in Messages : /\ Settled(k) => Settled(k)'
                          /\ \A e : Keeps(e, k) => Keeps(e, k)'
  <2>1. OnlyNewTakenUp
    BY <1>2, <1>3, <1>4, <1>5
  <2>2. came \subseteq came' /\ raced \subseteq raced'
    BY <1>2
  <2> QED  BY <1>2, <2>1, <2>2, Stays
<1>7. \A c \in Channels : \A k \in lines'[c] : (k \in lines[c] /\ k \in Messages) \/ (k = m /\ c = Chan[m])
  BY <1>1, <1>2, <1>5 DEF Shape
<1>8. /\ \A e : Due(e)' => Waits(e)
      /\ \A d, e : Ahead(d, e)' => Ahead(d, e)
  BY <1>2, <1>3 DEF Due, Ahead, Waits, Precedes, Putting
<1>9. Lasting'
  <2>1. \A k \in db' : Settled(k)'
    BY <1>1, <1>2, <1>6 DEF Lasting, Shape
  <2>2. ASSUME NEW e \in Event, Due(e)', NEW k \in Shows(e)
        PROVE  Settled(k)' /\ (e.kind = "history" => Chan[k] = e.chan)
    <3>1. k \in Messages /\ Due(e)
      BY <1>8, <2>2, Kinds DEF Due
    <3> QED  BY <1>1, <1>6, <3>1 DEF Lasting
  <2>3. ASSUME NEW c \in Channels, NEW k \in lines'[c]
        PROVE  Chan[k] = c /\ (Settled(k)' \/ Typing(k)')
    <3>1. CASE k = m /\ c = Chan[m]
      BY <1>1, <1>3, <1>4, <3>1 DEF Typing
    <3>2. CASE k \in lines[c] /\ k \in Messages
      BY <1>1, <1>2, <1>6, <3>2 DEF Lasting, Typing
    <3> QED  BY <1>7, <3>1, <3>2
  <2> QED  BY <2>1, <2>2, <2>3 DEF Lasting
<1>10. ASSUME NEW e \in Event, Due(e)', NEW c \in Channels, NEW k \in lines'[c]
       PROVE  Keeps(e, k)'
  <2>1. CASE k = m
    <3>1. PICK i \in 1 .. Len(uiq) : uiq[i] = e
      BY <1>8, <1>10 DEF Waits
    <3>2. LacksLine(e, m) => m \in raced'
      BY <1>2, <3>1
    <3> QED  BY <2>1, <3>2 DEF Keeps, LacksLine
  <2>2. CASE k \in lines[c] /\ k \in Messages
    BY <1>1, <1>6, <1>8, <1>10, <2>2 DEF Keeping, Due
  <2> QED  BY <1>7, <2>1, <2>2
<1>11. ASSUME NEW d \in Event, NEW e \in Event, Ahead(d, e)', NEW k \in Shows(d)
       PROVE  Keeps(e, k)'
  <2>1. k \in Messages /\ Ahead(d, e)
    BY <1>8, <1>11, Kinds
  <2> QED  BY <1>1, <1>6, <2>1 DEF Keeping
<1>12. Keeping'
  BY <1>10, <1>11 DEF Keeping
<1> QED  BY <1>9, <1>12

\* on_timer renders the first event: what comes behind it keeps its lines.
LEMMA TimerLines ==
    ASSUME LinesInv, OnTimer
    PROVE  Lasting' /\ Keeping'
<1>1. Shape /\ Shape' /\ Lasting /\ Keeping
  BY TimerShape DEF LinesInv
<1>2. PICK e : e = Head(uiq)
  OBVIOUS
<1>3. /\ e \in Event /\ uiq # <<>> /\ uiq' = Tail(uiq)
      /\ pc["ui"] \in {"idle", "timer"} /\ pc'["ui"] \in {"idle", "timer"}
      /\ \A u \in Rx : pc'[u] = pc[u]
      /\ UNCHANGED <<db, came, job, history, raced>>
      /\ e.kind = "chat" => AppendChatLine(Chan[e.msg], e.msg)
      /\ e.kind = "history" => lines' = [lines EXCEPT ![e.chan] = e.msgs]
      /\ e.kind = "channels" => lines' = lines
  BY <1>1, <1>2, TimerFacts
<1>4. /\ Waits(e)
      /\ \A d : Waits(d)' => Precedes(e, d)
      /\ \A d, f : Precedes(d, f)' => Precedes(d, f)
  BY <1>1, <1>2, <1>3, TakeOK
<1>5. /\ Due(e)
      /\ \A d : Due(d)' => Ahead(e, d) /\ Due(d)
      /\ \A d, f : Ahead(d, f)' => Ahead(d, f)
  <2>1. \A d : ~Putting(d)'
    BY <1>3 DEF Putting
  <2>2. \A d : Due(d)' => Ahead(e, d)
    BY <1>4, <2>1 DEF Due, Ahead
  <2>3. \A d, f : Ahead(d, f)' => Ahead(d, f)
    BY <1>4, <2>1 DEF Ahead
  <2> QED  BY <1>4, <2>2, <2>3, AheadDue DEF Due
<1>6. \A k \in Messages : /\ Settled(k) => Settled(k)'
                          /\ \A d : Keeps(d, k) => Keeps(d, k)'
  <2>1. OnlyNewTakenUp
    BY <1>3
  <2> QED  BY <1>3, <2>1, Stays
<1>7. ASSUME NEW c \in Channels, NEW k \in lines'[c]
      PROVE  k \in Messages /\ (k \in lines[c] \/ (k \in Shows(e) /\ c = Chan[k]))
  <2>1. k \in Messages
    BY <1>1 DEF Shape
  <2>2. CASE e.kind = "chat"
    <3>1. e.msg \in Messages /\ Shows(e) = {e.msg} /\ Chan[e.msg] \in Channels
      BY <1>3, <2>2, Kinds, ChannelsOK
    <3>2. lines' = [lines EXCEPT ![Chan[e.msg]] = lines[Chan[e.msg]] \cup {e.msg}]
      BY <1>3, <2>2 DEF AppendChatLine
    <3> QED  BY <1>1, <1>7, <2>1, <3>1, <3>2 DEF Shape
  <2>3. CASE e.kind = "history"
    <3>1. e.chan \in Channels /\ Shows(e) = e.msgs
      BY <1>3, <2>3, Kinds
    <3>2. \A j \in Shows(e) : Chan[j] = e.chan
      BY <1>1, <1>3, <1>5, <2>3 DEF Lasting
    <3>3. lines'[c] = IF c = e.chan THEN e.msgs ELSE lines[c]
      BY <1>1, <1>3, <2>3, <3>1 DEF Shape
    <3> QED  BY <1>7, <2>1, <3>1, <3>2, <3>3
  <2>4. CASE e.kind = "channels"
    BY <1>3, <1>7, <2>1, <2>4
  <2> QED  BY <1>3, <2>2, <2>3, <2>4, Kinds
<1>8. Lasting'
  <2>1. \A k \in db' : Settled(k)'
    BY <1>1, <1>3, <1>6 DEF Lasting, Shape
  <2>2. ASSUME NEW d \in Event, Due(d)', NEW k \in Shows(d)
        PROVE  Settled(k)' /\ (d.kind = "history" => Chan[k] = d.chan)
    <3>1. k \in Messages /\ Due(d)
      BY <1>5, <2>2, Kinds
    <3> QED  BY <1>1, <1>6, <3>1 DEF Lasting
  <2>3. ASSUME NEW c \in Channels, NEW k \in lines'[c]
        PROVE  Chan[k] = c /\ (Settled(k)' \/ Typing(k)')
    <3>1. CASE k \in lines[c]
      BY <1>1, <1>3, <1>6, <1>7, <3>1 DEF Lasting, Typing
    <3>2. CASE k \in Shows(e) /\ c = Chan[k]
      BY <1>1, <1>3, <1>5, <1>6, <1>7, <3>2 DEF Lasting
    <3> QED  BY <1>7, <3>1, <3>2
  <2> QED  BY <2>1, <2>2, <2>3 DEF Lasting
<1>9. ASSUME NEW d \in Event, Due(d)', NEW c \in Channels, NEW k \in lines'[c]
      PROVE  Keeps(d, k)'
  <2>1. Keeps(d, k)
    BY <1>1, <1>3, <1>5, <1>7, <1>9 DEF Keeping
  <2> QED  BY <1>6, <1>7, <2>1
<1>10. ASSUME NEW d \in Event, NEW f \in Event, Ahead(d, f)', NEW k \in Shows(d)
       PROVE  Keeps(f, k)'
  <2>1. k \in Messages /\ Ahead(d, f)
    BY <1>5, <1>10, Kinds
  <2> QED  BY <1>1, <1>6, <2>1 DEF Keeping
<1>11. Keeping'
  BY <1>9, <1>10 DEF Keeping
<1> QED  BY <1>8, <1>11

\* The steps of Next, one by one.
LEMMA Steps ==
    ASSUME [Next]_vars
    PROVE  \/ \E t \in Threads : Refresh(t)
           \/ \E t \in Rx : OnChatMessage(t)
           \/ \E t \in Rx : Store(t) \/ OnSyncApplied(t) \/ \E m \in Incoming : Receive(t, m)
           \/ SendMessage \/ LogSent \/ OnPruneDb \/ OnClose \/ Shutdown \/ RunRetention
           \/ \E c \in Channels : OnNodeActivated(c) \/ OnTabClose(c)
           \/ ReadHistory
           \/ PutHistory
           \/ \E m \in Typed : OnSend(m)
           \/ OnTimer
           \/ UNCHANGED vars
  BY Apart DEF Next, RxThread, UiThread

\* Every step preserves the invariant about lines.
LEMMA LinesStep == LinesInv /\ [Next]_vars => LinesInv'
<1> SUFFICES ASSUME LinesInv, [Next]_vars PROVE LinesInv'
  OBVIOUS
<1>1. ASSUME NEW t \in Threads, Refresh(t) PROVE LinesInv'
  BY <1>1, RefreshShape, RefreshLines DEF LinesInv
<1>2. ASSUME NEW t \in Rx, OnChatMessage(t) PROVE LinesInv'
  BY <1>2, RxShape, ChatLines DEF LinesInv
<1>3. ASSUME NEW t \in Rx, Store(t) \/ OnSyncApplied(t) \/ \E m \in Incoming : Receive(t, m)
      PROVE LinesInv'
  BY <1>3, RxShape, RxLines DEF LinesInv
<1>4. CASE \/ SendMessage \/ LogSent \/ OnPruneDb \/ OnClose \/ Shutdown \/ RunRetention
           \/ \E c \in Channels : OnNodeActivated(c) \/ OnTabClose(c)
  BY <1>4, UiShape, UserLines DEF LinesInv
<1>5. CASE ReadHistory
  BY <1>5, UiShape, ReadLines DEF LinesInv
<1>6. CASE PutHistory
  BY <1>6, UiShape, PutLines DEF LinesInv
<1>7. ASSUME NEW m \in Typed, OnSend(m) PROVE LinesInv'
  BY <1>7, UiShape, SendLines DEF LinesInv
<1>8. CASE OnTimer
  BY <1>8, TimerShape, TimerLines DEF LinesInv
<1>9. CASE UNCHANGED vars
  <2>1. /\ UNCHANGED <<db, came, pc, job, synced, snap, uiq, open, lines, reload, history>>
        /\ UNCHANGED <<raced, mixed, unlisted>>
    BY <1>9 DEF vars, tableVars, jobVars, listVars, tabVars, reqVars, histVars
  <2>2. Shape' /\ Jobs'
    BY <2>1 DEF LinesInv, Shape, Jobs
  <2>3. OnlyNewTakenUp /\ \A m \in Messages : Typing(m) => Typing(m)' \/ Settled(m)'
    BY <2>1 DEF Typing
  <2>4. Lasting' /\ Keeping'
    BY <2>1, <2>2, <2>3, QuietLines
  <2> QED  BY <2>2, <2>4 DEF LinesInv
<1> QED  BY Steps, <1>1, <1>2, <1>3, <1>4, <1>5, <1>6, <1>7, <1>8, <1>9

\* It holds at the start, with the table as it was left.
LEMMA LinesInit == Init => LinesInv
<1> SUFFICES ASSUME Init PROVE LinesInv
  OBVIOUS
<1>1. Shape
  <2>1. db \in SUBSET Messages /\ came \in SUBSET Messages
    BY DEF Init, Messages
  <2>2. pc \in [Threads -> RxPcs \cup UiPcs] /\ pc["ui"] = "initial" /\ \A t \in Rx : pc[t] = "idle"
    BY Apart DEF Init, RxPcs, UiPcs
  <2>3. uiq \in Seq(Event)
    BY DEF Init
  <2>4. /\ job \in [Threads -> Messages \cup {None}] /\ synced \in SUBSET Rx
        /\ snap \in [Threads -> SUBSET Channels]
        /\ open \in SUBSET Channels /\ lines \in [Channels -> SUBSET Messages]
        /\ reload \in SUBSET Channels /\ mixed \in BOOLEAN /\ unlisted \in BOOLEAN
    BY DEF Init
  <2> QED  BY <2>1, <2>2, <2>3, <2>4 DEF Shape, RxPcs, UiPcs
<1>2. \A t \in Threads : job[t] = None /\ pc[t] \in {"initial", "idle"}
  BY DEF Init
<1>3. Jobs
  BY <1>2 DEF Jobs
<1>4. \A m \in Messages : m \in Stored => Settled(m)
  BY <1>2 DEF Settled
<1>5. (\A e : ~Due(e)) /\ (\A d, e : ~Ahead(d, e))
  <2>1. uiq = <<>> /\ Len(uiq) = 0
    BY DEF Init
  <2>2. 1 .. Len(uiq) = {}
    BY <2>1
  <2> QED  BY <1>2, <2>2, Apart DEF Due, Ahead, Waits, Precedes, Putting
<1>6. Lasting
  BY <1>1, <1>4, <1>5 DEF Lasting, Init, Messages
<1>7. Keeping
  BY <1>5 DEF Keeping
<1> QED  BY <1>1, <1>3, <1>6, <1>7 DEF LinesInv

\* The invariant about lines, for any messages, channels and RX threads.
THEOREM LinesInvariant == Spec => []LinesInv
<1>1. Init => LinesInv
  BY LinesInit
<1>2. LinesInv /\ [Next]_vars => LinesInv'
  BY LinesStep
<1> QED  BY <1>1, <1>2, PTL DEF Spec

\* Lines go when their tab is closed, or when a snapshot replaces the tab.
LEMMA LinesLost ==
    ASSUME LinesInv, [Next]_vars, NEW c \in open \cap open', NEW m \in lines[c] \ lines'[c]
    PROVE  m \notin db \/ m \in raced
<1>1. Shape /\ c \in Channels /\ Keeping /\ Lasting
  BY DEF LinesInv, Shape
<1>2. ASSUME NEW t \in Threads, Refresh(t) PROVE FALSE
  BY <1>1, <1>2, RefreshFacts
<1>3. ASSUME NEW t \in Rx, OnChatMessage(t) \/ Store(t) \/ OnSyncApplied(t) \/ \E k \in Incoming : Receive(t, k)
      PROVE  FALSE
  BY <1>3 DEF OnChatMessage, Store, OnSyncApplied, Receive, tabVars
<1>4. CASE SendMessage \/ LogSent \/ OnPruneDb \/ OnClose \/ Shutdown \/ RunRetention \/ ReadHistory \/ PutHistory
  BY <1>4 DEF SendMessage, LogSent, OnPruneDb, OnClose, Shutdown, RunRetention, ReadHistory, PutHistory, tabVars
<1>5. ASSUME NEW b \in Channels, OnNodeActivated(b) PROVE FALSE
  BY <1>5 DEF OnNodeActivated
<1>6. ASSUME NEW b \in Channels, OnTabClose(b) PROVE FALSE
  BY <1>1, <1>6 DEF OnTabClose, Shape
<1>7. ASSUME NEW k \in Typed, OnSend(k) PROVE FALSE
  <2>1. lines' = [lines EXCEPT ![Chan[k]] = lines[Chan[k]] \cup {k}]
    BY <1>7 DEF OnSend, AppendChatLine
  <2> QED  BY <1>1, <2>1 DEF Shape
<1>8. CASE OnTimer
  <2>1. PICK e : e = Head(uiq)
    OBVIOUS
  <2>2. /\ e \in Event /\ uiq # <<>> /\ uiq' = Tail(uiq)
        /\ e.kind = "chat" => AppendChatLine(Chan[e.msg], e.msg)
        /\ e.kind = "history" => lines' = [lines EXCEPT ![e.chan] = e.msgs]
        /\ e.kind = "channels" => lines' = lines
    BY <1>1, <1>8, <2>1, TimerFacts
  <2>3. Due(e)
    BY <1>1, <2>1, <2>2, TakeOK DEF Due
  <2>4. e.kind # "chat"
    <3> SUFFICES ASSUME e.kind = "chat" PROVE FALSE
      OBVIOUS
    <3>1. lines' = [lines EXCEPT ![Chan[e.msg]] = lines[Chan[e.msg]] \cup {e.msg}]
      BY <2>2 DEF AppendChatLine
    <3> QED  BY <1>1, <3>1 DEF Shape
  <2>5. e.kind = "history" /\ e.chan \in Channels
    BY <2>2, <2>4, Kinds
  <2>6. lines'[c] = IF c = e.chan THEN e.msgs ELSE lines[c]
    BY <1>1, <2>2, <2>5 DEF Shape
  <2>7. c = e.chan /\ m \notin e.msgs
    BY <2>6
  <2>8. Chan[m] = c /\ Keeps(e, m)
    BY <1>1, <2>2, <2>3 DEF Lasting, Keeping
  <2> QED  BY <2>5, <2>7, <2>8 DEF Keeps, Gone
<1>9. CASE UNCHANGED vars
  BY <1>9 DEF vars, tabVars
<1> QED  BY Steps, <1>2, <1>3, <1>4, <1>5, <1>6, <1>7, <1>8, <1>9

\* A line of an open tab vanishes only with its message, or if it raced with a snapshot:
\* request_history and the RX threads' _on_chat_message put their events in an order
\* that loses no others.
THEOREM LinesStay == Spec => LinesKept
<1>1. LinesInv /\ [Next]_vars =>
        [\A c \in open \cap open' : \A m \in lines[c] \ lines'[c] : m \notin db \/ m \in raced]_vars
  BY LinesLost
<1> QED  BY <1>1, LinesInvariant, PTL DEF Spec, LinesKept

-----------------------------------------------------------------------------
(* The list of channels.                                                   *)

\* Putting a list makes it the one the user will see, putting anything else does not
\* change which one that is.
LEMMA PutList ==
    ASSUME Shape, NEW e \in Event, PutUi(e), known' = known, NEW cs
    PROVE  /\ e.kind = "channels" /\ e.chans = cs => WillShow(cs)'
           /\ e.kind # "channels" /\ WillShow(cs) => WillShow(cs)'
<1>1. uiq \in Seq(Event) /\ uiq' = Append(uiq, e)
  BY DEF Shape, PutUi
<1>2. /\ Len(uiq) \in Nat /\ Len(uiq') = Len(uiq) + 1
      /\ \A i \in 1 .. Len(uiq) : uiq'[i] = uiq[i]
      /\ uiq'[Len(uiq) + 1] = e
  BY <1>1, AppendProperties, LenProperties
<1>3. ASSUME e.kind = "channels", e.chans = cs PROVE WillShow(cs)'
  <2>1. PICK n \in Nat : n = Len(uiq) + 1
    BY <1>2
  <2>2. IsList(n)' /\ uiq'[n] = e
    BY <1>2, <1>3, <2>1 DEF IsList
  <2>3. \A j \in Nat : IsList(j)' => j <= n
    BY <1>2, <2>1 DEF IsList
  <2> QED  BY <1>3, <2>2, <2>3 DEF WillShow
<1>4. ASSUME e.kind # "channels", WillShow(cs) PROVE WillShow(cs)'
  <2>1. \A i \in Nat : IsList(i)' <=> IsList(i)
    BY <1>2, <1>4 DEF IsList
  <2>2. \A i \in Nat : IsList(i) => uiq'[i] = uiq[i]
    BY <1>2 DEF IsList
  <2>3. CASE (\A i \in Nat : ~IsList(i)) /\ known = cs
    BY <2>1, <2>3 DEF WillShow
  <2>4. ASSUME NEW i \in Nat, IsList(i), uiq[i].chans = cs, \A j \in Nat : IsList(j) => j <= i
        PROVE  WillShow(cs)'
    BY <2>1, <2>2, <2>4 DEF WillShow
  <2> QED  BY <1>4, <2>3, <2>4 DEF WillShow
<1> QED  BY <1>3, <1>4

\* Rendering an event does not change which list the user will see.
LEMMA TakeList ==
    ASSUME Shape, OnTimer, NEW cs, WillShow(cs)
    PROVE  WillShow(cs)'
<1>1. uiq \in Seq(Event)
  BY DEF Shape
<1>2. PICK e : e = Head(uiq)
  OBVIOUS
<1>3. /\ e \in Event /\ uiq # <<>> /\ uiq' = Tail(uiq)
      /\ e.kind \in {"chat", "history"} => known' = known
      /\ e.kind = "channels" => known' = e.chans
  BY <1>2, TimerFacts
<1>4. /\ Len(uiq) \in Nat \ {0} /\ Len(uiq') = Len(uiq) - 1
      /\ e = uiq[1]
      /\ \A i \in 1 .. Len(uiq') : uiq'[i] = uiq[i + 1]
  BY <1>1, <1>2, <1>3, HeadTailProperties, LenProperties, EmptySeq
<1>5. \A i \in Nat : IsList(i)' <=> i # 0 /\ IsList(i + 1)
  BY <1>4 DEF IsList
<1>6. \A i \in Nat : i # 0 /\ IsList(i + 1) => uiq'[i] = uiq[i + 1]
  BY <1>4 DEF IsList
<1>7. IsList(1) <=> e.kind = "channels"
  BY <1>4 DEF IsList
<1>8. \A i \in Nat : IsList(i) => i # 0
  BY DEF IsList
<1>9. CASE (\A i \in Nat : ~IsList(i)) /\ known = cs
  <2>1. e.kind # "channels"
    BY <1>7, <1>9
  <2>2. known' = cs
    BY <1>3, <1>9, <2>1, Kinds
  <2>3. \A i \in Nat : ~IsList(i)'
    BY <1>5, <1>9
  <2> QED  BY <2>2, <2>3 DEF WillShow
<1>10. ASSUME NEW i \in Nat, IsList(i), uiq[i].chans = cs, \A j \in Nat : IsList(j) => j <= i
       PROVE  WillShow(cs)'
  <2>1. CASE i = 1
    <3>1. known' = cs
      BY <1>3, <1>4, <1>7, <1>10, <2>1
    <3>2. \A j \in Nat : ~IsList(j)'
      <4> SUFFICES ASSUME NEW j \in Nat, IsList(j)' PROVE FALSE
        OBVIOUS
      <4>1. j # 0 /\ IsList(j + 1) /\ j + 1 \in Nat
        BY <1>5
      <4>2. j + 1 <= 1
        BY <1>10, <2>1, <4>1
      <4> QED  BY <4>1, <4>2
    <3> QED  BY <3>1, <3>2 DEF WillShow
  <2>2. CASE i # 1
    <3>1. PICK h \in Nat : i = h + 1 /\ h # 0
      <4>1. i - 1 \in Nat /\ i - 1 # 0 /\ i = (i - 1) + 1
        BY <1>8, <1>10, <2>2
      <4> QED  BY <4>1
    <3>2. IsList(h)' /\ uiq'[h] = uiq[i]
      BY <1>5, <1>6, <1>10, <3>1
    <3>3. \A j \in Nat : IsList(j)' => j <= h
      <4> SUFFICES ASSUME NEW j \in Nat, IsList(j)' PROVE j <= h
        OBVIOUS
      <4>1. IsList(j + 1) /\ j + 1 \in Nat
        BY <1>5
      <4>2. j + 1 <= h + 1
        BY <1>10, <3>1, <4>1
      <4> QED  BY <4>2
    <3> QED  BY <1>10, <3>2, <3>3 DEF WillShow
  <2> QED  BY <2>1, <2>2
<1> QED  BY <1>9, <1>10 DEF WillShow

\* Steps outside a refresh: the table stays as it was, or a refresh follows, or rows
\* have gone by age.
LEMMA Elsewhere ==
    ASSUME ListInv, UNCHANGED <<snap, last, mixed>>,
           \A t \in Threads :
               \/ pc'[t] = pc[t]
               \/ /\ pc[t] \notin {"initial", "refresh", "set", "compare", "put list"}
                  /\ pc'[t] \notin {"set", "compare", "put list"},
           \/ unlisted' = TRUE
           \/ \E t \in Threads : Pending(t)'
           \/ /\ db' = db /\ unlisted' = unlisted
              /\ \A t \in Threads : pc[t] = "chat" => pc'[t] = "chat",
           \A cs : WillShow(cs) => WillShow(cs)'
    PROVE  Remembered' /\ Current'
<1>1. ASSUME NEW t \in Threads
      PROVE  /\ Refreshing(t)' <=> Refreshing(t)
             /\ Comparing(t)' <=> Comparing(t)
             /\ pc'[t] = "put list" <=> pc[t] = "put list"
  <2>1. \/ pc'[t] = pc[t]
        \/ /\ pc[t] \notin {"initial", "refresh", "set", "compare", "put list"}
           /\ pc'[t] \notin {"set", "compare", "put list"}
    OBVIOUS
  <2> QED  BY <2>1 DEF Refreshing, Comparing
<1>2. Remembered'
  BY <1>1 DEF ListInv, Remembered
<1>3. Current'
  <2>1. CASE unlisted' = TRUE
    BY <2>1 DEF Current
  <2>2. CASE \E t \in Threads : Pending(t)'
    BY <2>2 DEF Current
  <2>3. CASE /\ db' = db /\ unlisted' = unlisted
             /\ \A t \in Threads : pc[t] = "chat" => pc'[t] = "chat"
    <3>1. Listed' = Listed
      BY <2>3 DEF Listed
    <3>2. \A t \in Threads : Pending(t) => Pending(t)'
      BY <2>3 DEF Pending
    <3> QED  BY <1>1, <2>3, <3>1, <3>2 DEF ListInv, Current
  <2> QED  BY <2>1, <2>2, <2>3
<1> QED  BY <1>2, <1>3

\* The steps of a refresh: while no two threads are at it, the list that is read is the
\* one that is put last.
LEMMA RefreshList ==
    ASSUME ListInv, NEW t \in Threads, Refresh(t)
    PROVE  Remembered' /\ Current'
<1>1. Shape /\ Remembered /\ Current
  BY DEF ListInv, LinesInv
<1>2. /\ UNCHANGED <<db, known>>
      /\ pc[t] \in {"initial", "refresh", "set", "compare", "put list"}
      /\ \A u \in Threads : u # t => pc'[u] = pc[u] /\ snap'[u] = snap[u]
  BY <1>1, RefreshFacts
<1>3. Listed' = Listed
  BY <1>2 DEF Listed
<1>4. \A u \in Threads : u # t => /\ Refreshing(u)' <=> Refreshing(u)
                                  /\ Comparing(u)' <=> Comparing(u)
                                  /\ Pending(u)' <=> Pending(u)
  BY <1>2 DEF Refreshing, Comparing, Pending
<1>5. CASE ReadChannels(t)
  <2>1. /\ pc[t] \in {"initial", "refresh"} /\ pc'[t] \in {"set", "compare"}
        /\ snap'[t] = Listed /\ last' = last /\ uiq' = uiq
        /\ mixed' = (mixed \/ \E u \in Threads \ {t} : Refreshing(u))
    BY <1>1, <1>5 DEF ReadChannels, Go, Shape
  <2>2. \A cs : WillShow(cs)' <=> WillShow(cs)
    BY <1>2, <2>1 DEF WillShow, IsList
  <2>3. Remembered'
    <3> SUFFICES ASSUME ~mixed' PROVE
              /\ \A r, u \in Threads : Refreshing(r)' /\ Refreshing(u)' => r = u
              /\ \A u \in Threads : pc'[u] = "put list" => snap'[u] = last'
              /\ (\A u \in Threads : pc'[u] # "put list") => WillShow(last)'
      BY DEF Remembered
    <3>1. ~mixed /\ \A u \in Threads : u # t => ~Refreshing(u)
      BY <2>1
    <3>2. \A r, u \in Threads : Refreshing(r)' /\ Refreshing(u)' => r = u
      BY <1>4, <3>1
    <3>3. \A u \in Threads : pc'[u] # "put list"
      BY <1>2, <2>1, <3>1 DEF Refreshing
    <3>4. \A u \in Threads : pc[u] # "put list"
      BY <2>1, <3>1 DEF Refreshing
    <3>5. PICK cs : cs = last
      OBVIOUS
    <3>6. WillShow(cs)'
      BY <1>1, <2>2, <3>1, <3>4, <3>5 DEF Remembered
    <3>7. WillShow(last)'
      BY <2>1, <3>5, <3>6 DEF WillShow
    <3> QED  BY <3>2, <3>3, <3>7
  <2>4. Current'
    <3>1. Comparing(t)' /\ snap'[t] = Listed'
      BY <1>3, <2>1 DEF Comparing
    <3> QED  BY <3>1 DEF Current
  <2> QED  BY <2>3, <2>4
<1>6. CASE SetLastChannels(t)
  <2>1. /\ pc[t] \in {"set", "compare"} /\ pc'[t] = "put list"
        /\ snap' = snap /\ last' = snap[t] /\ UNCHANGED <<mixed, unlisted>>
    BY <1>1, <1>6 DEF SetLastChannels, Go, Shape, histVars
  <2>2. Refreshing(t) /\ Comparing(t) /\ ~Comparing(t)' /\ ~Pending(t)
    BY <2>1 DEF Refreshing, Comparing, Pending
  <2>3. Remembered'
    <3> SUFFICES ASSUME ~mixed' PROVE
              /\ \A r, u \in Threads : Refreshing(r)' /\ Refreshing(u)' => r = u
              /\ \A u \in Threads : pc'[u] = "put list" => snap'[u] = last'
              /\ (\A u \in Threads : pc'[u] # "put list") => WillShow(last)'
      BY DEF Remembered
    <3>1. \A u \in Threads : u # t => ~Refreshing(u)
      BY <1>1, <2>1, <2>2 DEF Remembered
    <3>2. \A r, u \in Threads : Refreshing(r)' /\ Refreshing(u)' => r = u
      BY <1>4, <3>1
    <3>3. \A u \in Threads : pc'[u] = "put list" => u = t
      BY <1>2, <3>1 DEF Refreshing
    <3> QED  BY <2>1, <3>2, <3>3
  <2>4. Current'
    <3> SUFFICES ASSUME ~mixed, ~unlisted PROVE
              \/ \E u \in Threads : Pending(u)'
              \/ (\A u \in Threads : ~Comparing(u)') /\ last' = Listed'
      BY <2>1 DEF Current
    <3>1. \A u \in Threads : u # t => ~Refreshing(u) /\ ~Comparing(u)
      BY <1>1, <2>2 DEF Remembered, Refreshing, Comparing
    <3>2. (\E u \in Threads : Pending(u)) \/ snap[t] = Listed
      BY <1>1, <2>2, <3>1 DEF Current
    <3> QED  BY <1>3, <1>4, <2>1, <2>2, <3>1, <3>2
  <2> QED  BY <2>3, <2>4
<1>7. CASE SameChannels(t) \/ PutChannels(t)
  <2>1. /\ pc[t] \in {"compare", "put list"} /\ pc'[t] \in {"reload", "applied", "idle"}
        /\ UNCHANGED <<last, mixed, unlisted>>
        /\ pc[t] = "compare" => snap[t] = last /\ uiq' = uiq
        /\ pc[t] = "put list" => PutUi(ChannelListEvent(snap[t]))
    BY <1>1, <1>7 DEF SameChannels, PutChannels, AfterRefresh, Go, Shape, histVars
  <2>2. Refreshing(t) /\ ~Refreshing(t)' /\ ~Comparing(t)' /\ ~Pending(t)
    BY <2>1 DEF Refreshing, Comparing, Pending
  <2>3. PICK cs : cs = last
    OBVIOUS
  <2>4. ~mixed => WillShow(cs)'
    <3> SUFFICES ASSUME ~mixed PROVE WillShow(cs)'
      OBVIOUS
    <3>1. \A u \in Threads : u # t => ~Refreshing(u)
      BY <1>1, <2>2 DEF Remembered
    <3>2. CASE pc[t] = "compare"
      <4>1. \A u \in Threads : pc[u] # "put list"
        BY <3>1, <3>2 DEF Refreshing
      <4>2. WillShow(cs)
        BY <1>1, <2>3, <4>1 DEF Remembered
      <4> QED  BY <1>2, <2>1, <3>2, <4>2 DEF WillShow, IsList
    <3>3. CASE pc[t] = "put list"
      <4>1. snap[t] = cs
        BY <1>1, <2>3, <3>3 DEF Remembered
      <4>2. PICK x : x = ChannelListEvent(snap[t])
        OBVIOUS
      <4>3. x \in Event /\ x.kind = "channels" /\ x.chans = cs
        BY <1>1, <4>1, <4>2 DEF Shape, Event, ListEvents, ChannelListEvent
      <4> QED  BY <1>1, <1>2, <2>1, <3>3, <4>2, <4>3, PutList
    <3> QED  BY <2>1, <3>2, <3>3
  <2>5. ~mixed => WillShow(last)'
    BY <2>1, <2>3, <2>4 DEF WillShow
  <2>6. Remembered'
    <3>1. \A u \in Threads : pc'[u] = "put list" => u # t /\ pc[u] = "put list"
      BY <1>2, <2>1
    <3>2. \A u \in Threads : pc'[u] = "put list" /\ ~mixed => snap'[u] = last'
      BY <1>1, <1>2, <2>1, <3>1 DEF Remembered
    <3>3. \A r, u \in Threads : ~mixed /\ Refreshing(r)' /\ Refreshing(u)' => r = u
      BY <1>1, <1>4, <2>2 DEF Remembered
    <3> QED  BY <2>1, <2>5, <3>2, <3>3 DEF Remembered
  <2>7. Current'
    <3> SUFFICES ASSUME ~mixed, ~unlisted PROVE
              \/ \E u \in Threads : Pending(u)'
              \/ (\A u \in Threads : ~Comparing(u)') /\ last' = Listed'
      BY <2>1 DEF Current
    <3>1. \A u \in Threads : u # t => ~Refreshing(u) /\ ~Comparing(u)
      BY <1>1, <2>2 DEF Remembered, Refreshing, Comparing
    <3>2. Comparing(t) => snap[t] = last
      BY <2>1 DEF Comparing
    <3>3. (\E u \in Threads : Pending(u)) \/ last = Listed
      BY <1>1, <3>1, <3>2 DEF Current
    <3> QED  BY <1>3, <1>4, <2>1, <2>2, <3>1, <3>3
  <2> QED  BY <2>6, <2>7
<1> QED  BY <1>5, <1>6, <1>7 DEF Refresh

\* The other steps of an RX thread: who stores a message refreshes the list after it.
LEMMA RxList ==
    ASSUME ListInv, NEW t \in Rx,
           Store(t) \/ OnChatMessage(t) \/ OnSyncApplied(t) \/ \E m \in Incoming : Receive(t, m)
    PROVE  Remembered' /\ Current'
<1>1. LinesInv /\ Shape /\ Jobs /\ t \in Threads
  BY Apart DEF ListInv, LinesInv
<1>2. ASSUME NEW p \in {"chat", "refresh"}, Go(t, p), UNCHANGED <<snap, last, mixed>>,
             pc[t] \in {"store", "chat", "applied"},
             \A cs : WillShow(cs) => WillShow(cs)'
      PROVE  Remembered' /\ Current'
  <2>1. pc'[t] = p /\ \A u \in Threads : u # t => pc'[u] = pc[u]
    BY <1>1, <1>2 DEF Go, Shape
  <2>2. Pending(t)'
    BY <2>1 DEF Pending
  <2>3. \A u \in Threads :
               \/ pc'[u] = pc[u]
               \/ /\ pc[u] \notin {"initial", "refresh", "set", "compare", "put list"}
                  /\ pc'[u] \notin {"set", "compare", "put list"}
    BY <1>2, <2>1
  <2>4. \E u \in Threads : Pending(u)'
    BY <1>1, <2>2
  <2> QED  BY <1>2, <2>3, <2>4, Elsewhere
<1>3. CASE Store(t)
  <2>1. Go(t, "chat") /\ pc[t] = "store" /\ UNCHANGED <<snap, last, mixed, uiq, known>>
    BY <1>3 DEF Store, Following, listVars, tabVars, histVars
  <2>2. \A cs : WillShow(cs) => WillShow(cs)'
    BY <2>1 DEF WillShow, IsList
  <2> QED  BY <1>2, <2>1, <2>2
<1>4. CASE OnChatMessage(t)
  <2>1. /\ Go(t, "refresh") /\ pc[t] = "chat" /\ UNCHANGED <<snap, last, mixed, known>>
        /\ PutUi(ChatEvent(job[t]))
    BY <1>4 DEF OnChatMessage, Following, listVars, tabVars
  <2>2. PICK x : x = ChatEvent(job[t])
    OBVIOUS
  <2>3. x \in Event /\ x.kind = "chat"
    <3>1. job[t] \in Messages
      BY <1>1, <2>1 DEF Shape, Jobs
    <3> QED  BY <2>2, <3>1 DEF Event, ChatEvents, ChatEvent
  <2>4. \A cs : WillShow(cs) => WillShow(cs)'
    BY <1>1, <2>1, <2>2, <2>3, PutList
  <2> QED  BY <1>2, <2>1, <2>4
<1>5. CASE OnSyncApplied(t)
  <2>1. Go(t, "refresh") /\ pc[t] = "applied" /\ UNCHANGED <<snap, last, mixed, uiq, known>>
    BY <1>5 DEF OnSyncApplied, listVars, tabVars, histVars
  <2>2. \A cs : WillShow(cs) => WillShow(cs)'
    BY <2>1 DEF WillShow, IsList
  <2> QED  BY <1>2, <2>1, <2>2
<1>6. ASSUME NEW m \in Incoming, Receive(t, m) PROVE Remembered' /\ Current'
  <2>1. /\ Go(t, "store") /\ pc[t] = "idle"
        /\ UNCHANGED <<db, snap, last, mixed, unlisted, uiq, known>>
    BY <1>6 DEF Receive, Following, listVars, tabVars, histVars
  <2>2. pc'[t] = "store" /\ \A u \in Threads : u # t => pc'[u] = pc[u]
    BY <1>1, <2>1 DEF Go, Shape
  <2>3. \A cs : WillShow(cs) => WillShow(cs)'
    BY <2>1 DEF WillShow, IsList
  <2>4. \A u \in Threads :
               \/ pc'[u] = pc[u]
               \/ /\ pc[u] \notin {"initial", "refresh", "set", "compare", "put list"}
                  /\ pc'[u] \notin {"set", "compare", "put list"}
    BY <2>1, <2>2
  <2>5. \A u \in Threads : pc[u] = "chat" => pc'[u] = "chat"
    BY <2>1, <2>2
  <2> QED  BY <2>1, <2>3, <2>4, <2>5, Elsewhere
<1> QED  BY <1>3, <1>4, <1>5, <1>6

\* The steps of the GUI thread outside a refresh, and retention.
LEMMA UiList ==
    ASSUME ListInv,
           \/ SendMessage \/ LogSent \/ OnPruneDb \/ OnClose \/ Shutdown \/ RunRetention
           \/ \E c \in Channels : OnNodeActivated(c) \/ OnTabClose(c)
           \/ ReadHistory \/ PutHistory \/ OnTimer
           \/ \E m \in Typed : OnSend(m)
    PROVE  Remembered' /\ Current'
<1>1. LinesInv /\ Shape /\ Jobs /\ "ui" \in Threads
  BY Apart DEF ListInv, LinesInv
<1>2. ASSUME NEW p \in {"log", "refresh", "idle", "reload", "put history", "send"}, Go("ui", p),
             pc["ui"] \in {"idle", "send", "log", "reload", "put history"},
             UNCHANGED <<snap, last, mixed>>,
             UNCHANGED <<db, unlisted>> \/ p = "refresh",
             \A cs : WillShow(cs) => WillShow(cs)'
      PROVE  Remembered' /\ Current'
  <2>1. pc'["ui"] = p /\ \A u \in Threads : u # "ui" => pc'[u] = pc[u]
    BY <1>1, <1>2 DEF Go, Shape
  <2>2. p = "refresh" => \E u \in Threads : Pending(u)'
    BY <1>1, <2>1 DEF Pending
  <2>3. \A u \in Threads :
               \/ pc'[u] = pc[u]
               \/ /\ pc[u] \notin {"initial", "refresh", "set", "compare", "put list"}
                  /\ pc'[u] \notin {"set", "compare", "put list"}
    BY <1>2, <2>1
  <2>4. \A u \in Threads : pc[u] = "chat" => pc'[u] = "chat"
    BY <1>2, <2>1
  <2> QED  BY <1>2, <2>2, <2>3, <2>4, Elsewhere
<1>3. UNCHANGED <<uiq, known>> => \A cs : WillShow(cs) => WillShow(cs)'
  BY DEF WillShow, IsList
<1>4. CASE SendMessage
  <2>1. PICK p \in {"log", "refresh", "idle"} : Go("ui", p)
    BY <1>4 DEF SendMessage
  <2>2. pc["ui"] = "send" /\ UNCHANGED <<db, snap, last, mixed, unlisted, uiq, known>>
    BY <1>4 DEF SendMessage, tableVars, listVars, tabVars, histVars
  <2> QED  BY <1>2, <1>3, <2>1, <2>2
<1>5. CASE LogSent
  <2>1. /\ Go("ui", "refresh") /\ pc["ui"] = "log"
        /\ UNCHANGED <<snap, last, mixed, uiq, known>>
    BY <1>5 DEF LogSent, listVars, tabVars, histVars
  <2> QED  BY <1>2, <1>3, <2>1
<1>6. CASE OnPruneDb
  <2>1. /\ Go("ui", "refresh") /\ pc["ui"] = "idle"
        /\ UNCHANGED <<snap, last, mixed, uiq, known>>
    BY <1>6 DEF OnPruneDb, UserActs, listVars, tabVars, histVars
  <2> QED  BY <1>2, <1>3, <2>1
<1>7. CASE OnClose \/ Shutdown \/ \E c \in Channels : OnTabClose(c)
  <2>1. UNCHANGED <<pc, db, snap, last, mixed, unlisted, uiq, known>>
    BY <1>7 DEF OnClose, Shutdown, OnTabClose, tableVars, listVars, tabVars, histVars
  <2> QED  BY <1>3, <2>1, Elsewhere
<1>8. CASE RunRetention
  <2>1. UNCHANGED <<pc, snap, last, mixed, uiq, known>> /\ unlisted' = TRUE
    BY <1>8 DEF RunRetention, listVars, tabVars
  <2> QED  BY <1>3, <2>1, Elsewhere
<1>9. ASSUME NEW c \in Channels, OnNodeActivated(c) PROVE Remembered' /\ Current'
  <2>1. /\ Go("ui", "reload") /\ pc["ui"] = "idle"
        /\ UNCHANGED <<db, snap, last, mixed, unlisted, uiq, known>>
    BY <1>9 DEF OnNodeActivated, UserActs, tableVars, listVars, histVars
  <2> QED  BY <1>2, <1>3, <2>1
<1>10. CASE ReadHistory
  <2>1. /\ Go("ui", "put history") /\ pc["ui"] = "reload"
        /\ UNCHANGED <<db, snap, last, mixed, unlisted, uiq, known>>
    BY <1>10 DEF ReadHistory, tableVars, listVars, tabVars, histVars
  <2> QED  BY <1>2, <1>3, <2>1
<1>11. CASE PutHistory
  <2>1. PICK p \in {"idle", "reload"} : Go("ui", p)
    BY <1>11 DEF PutHistory
  <2>2. /\ pc["ui"] = "put history" /\ PutUi(history)
        /\ UNCHANGED <<db, snap, last, mixed, unlisted, known>>
    BY <1>11 DEF PutHistory, tableVars, listVars, tabVars, histVars
  <2>3. PICK x : x = history
    OBVIOUS
  <2>4. x \in Event /\ x.kind = "history"
    BY <1>1, <2>2, <2>3 DEF Shape, Event, HistoryEvents
  <2>5. \A cs : WillShow(cs) => WillShow(cs)'
    BY <1>1, <2>2, <2>3, <2>4, PutList
  <2> QED  BY <1>2, <2>1, <2>2, <2>5
<1>12. CASE OnTimer
  <2>1. /\ pc["ui"] \in {"idle", "timer"} /\ pc'["ui"] \in {"idle", "timer"}
        /\ \A u \in Rx : pc'[u] = pc[u]
        /\ UNCHANGED <<db, snap, last, mixed, unlisted>>
    BY <1>1, <1>12, TimerFacts
  <2>2. \A cs : WillShow(cs) => WillShow(cs)'
    BY <1>1, <1>12, TakeList
  <2>3. \A u \in Threads :
               \/ pc'[u] = pc[u]
               \/ /\ pc[u] \notin {"initial", "refresh", "set", "compare", "put list"}
                  /\ pc'[u] \notin {"set", "compare", "put list"}
    BY <2>1
  <2>4. \A u \in Threads : pc[u] = "chat" => pc'[u] = "chat"
    BY <2>1
  <2> QED  BY <2>1, <2>2, <2>3, <2>4, Elsewhere
<1>13. ASSUME NEW m \in Typed, OnSend(m) PROVE Remembered' /\ Current'
  <2>1. /\ Go("ui", "send") /\ pc["ui"] = "idle"
        /\ UNCHANGED <<db, snap, last, mixed, unlisted, uiq, known>>
    BY <1>13 DEF OnSend, UserActs, listVars
  <2> QED  BY <1>2, <1>3, <2>1
<1> QED  BY <1>4, <1>5, <1>6, <1>7, <1>8, <1>9, <1>10, <1>11, <1>12, <1>13

\* Every step preserves the invariant about the list.
LEMMA ListStep == ListInv /\ [Next]_vars => ListInv'
<1> SUFFICES ASSUME ListInv, [Next]_vars PROVE ListInv'
  OBVIOUS
<1>1. LinesInv'
  BY LinesStep DEF ListInv
<1>2. Remembered' /\ Current'
  <2>1. ASSUME NEW t \in Threads, Refresh(t) PROVE Remembered' /\ Current'
    BY <2>1, RefreshList
  <2>2. ASSUME NEW t \in Rx,
               Store(t) \/ OnChatMessage(t) \/ OnSyncApplied(t) \/ \E m \in Incoming : Receive(t, m)
        PROVE  Remembered' /\ Current'
    BY <2>2, RxList
  <2>3. CASE \/ SendMessage \/ LogSent \/ OnPruneDb \/ OnClose \/ Shutdown \/ RunRetention
             \/ \E c \in Channels : OnNodeActivated(c) \/ OnTabClose(c)
             \/ ReadHistory \/ PutHistory \/ OnTimer
             \/ \E m \in Typed : OnSend(m)
    BY <2>3, UiList
  <2>4. CASE UNCHANGED vars
    <3>1. UNCHANGED <<pc, db, snap, last, mixed, unlisted, uiq, known>>
      BY <2>4 DEF vars, tableVars, listVars, tabVars, histVars
    <3>2. \A cs : WillShow(cs) => WillShow(cs)'
      BY <3>1 DEF WillShow, IsList
    <3> QED  BY <3>1, <3>2, Elsewhere
  <2> QED  BY Steps, <2>1, <2>2, <2>3, <2>4
<1> QED  BY <1>1, <1>2 DEF ListInv

\* At the start the constructor is about to read the list.
LEMMA ListInit == Init => ListInv
<1> SUFFICES ASSUME Init PROVE ListInv
  OBVIOUS
<1>1. LinesInv
  BY LinesInit
<1>2. /\ \A t \in Threads : pc[t] \in {"initial", "idle"}
      /\ pc["ui"] = "initial" /\ "ui" \in Threads
  BY Apart DEF Init
<1>3. Remembered
  <2>1. uiq = <<>> /\ known = {} /\ last = {}
    BY DEF Init
  <2>2. \A i \in Nat : ~IsList(i)
    BY <2>1 DEF IsList
  <2>3. WillShow(last)
    BY <2>1, <2>2 DEF WillShow
  <2> QED  BY <1>2, <2>3 DEF Remembered, Refreshing
<1>4. Current
  BY <1>2 DEF Current, Pending
<1> QED  BY <1>1, <1>3, <1>4 DEF ListInv

\* When all is quiet, the left list is the one remembered, and that is the table's.
LEMMA QuietIsCurrent == ListInv => ChannelListCurrent
<1> SUFFICES ASSUME ListInv, Quiet, ~mixed, ~unlisted PROVE known = Listed
  BY DEF ChannelListCurrent
<1>1. uiq = <<>> /\ \A t \in Threads : pc[t] = "idle"
  BY DEF Quiet
<1>2. last = Listed
  BY <1>1 DEF ListInv, Current, Pending, Comparing
<1>3. WillShow(last)
  BY <1>1 DEF ListInv, Remembered
<1>4. \A i \in Nat : ~IsList(i)
  BY <1>1 DEF IsList
<1> QED  BY <1>2, <1>3, <1>4 DEF WillShow

\* The left list agrees with the table when all is quiet, whoever refreshed it and in
\* whatever order, unless two refreshes overlapped or rows have gone by age since.
THEOREM ListIsCurrent == Spec => []ChannelListCurrent
<1>1. Init => ListInv
  BY ListInit
<1>2. ListInv /\ [Next]_vars => ListInv'
  BY ListStep
<1>3. ListInv => ChannelListCurrent
  BY QuietIsCurrent
<1> QED  BY <1>1, <1>2, <1>3, PTL DEF Spec

=============================================================================
