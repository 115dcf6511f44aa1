------------------------------- MODULE ChatUi -------------------------------
(***************************************************************************)
(* What the user sees.  The callbacks and calls of mesh_backend.py put     *)
(* events into the UI queue; GUI.py renders the queue on its timer and     *)
(* calls the backend on the GUI thread.  RX threads, one per link, run the *)
(* callbacks; the status thread prunes the table by age.                   *)
(*                                                                         *)
(* The chat table is the set of messages it holds (ChatSync has its rows), *)
(* a tab is the set of lines it shows.  Status lines, the list of nodes,   *)
(* which one thread writes, the sync requests (SyncRetry) and the plugins  *)
(* (PluginEvents) are left out.  The station is in mode "full" and knows fewer than 50 channels.   *)
(***************************************************************************)
EXTENDS Integers, Sequences, FiniteSets

CONSTANTS
    General,            \* "#general", which is never in the list of channels
    Incoming, Typed,    \* messages of other stations, and of the user
    Stored,             \* messages in the table at the start
    Chan,               \* Chan[m]: the channel of m
    Rx,                 \* the RX threads
    Keep,               \* sync_last_n_messages, as prune_db takes it
    MaxOpens,           \* tabs opened and closed
    MaxPrunes,
    None

Messages == Incoming \cup Typed \cup Stored
Channels == {General} \cup {Chan[m] : m \in Messages}
Threads  == Rx \cup {"ui"}

ASSUME UiAssumption ==
    /\ "ui" \notin Rx
    /\ None \notin Messages
    /\ Incoming \cap Typed = {} /\ (Incoming \cup Typed) \cap Stored = {}
    /\ Keep \in Nat \ {0}
    /\ MaxOpens \in Nat /\ MaxPrunes \in Nat

VARIABLES
    db,       \* the chat table
    came,     \* messages that have arrived or have been typed
    pc,       \* pc[t]: what thread t does next
    job,      \* job[t]: the message t works on, or None
    synced,   \* RX threads whose message came in the answer to a sync request
    snap,     \* snap[t]: the channels t has read from the table
    last,     \* _last_channels
    uiq,      \* _ui_queue
    open,     \* the tabs that are open, beside the one for status lines
    lines,    \* lines[c]: what the tab of c shows
    known,    \* _known_channels
    reload,   \* tabs whose history the GUI thread is to request yet
    history,  \* the HistoryEvent that it is about to put, or None
    window,   \* "open", "closed", and "down" when the backend is shut down too
    count,    \* openings and prunings so far
    raced,    \* history: lines written while a snapshot without them was under way
    mixed,    \* history: two threads have been in _refresh_channels_from_db at once
    unlisted  \* history: rows went, and the list has not been read since

tableVars == <<db, came>>
jobVars   == <<job, synced>>
listVars  == <<snap, last>>
tabVars   == <<open, lines, known>>
reqVars   == <<reload, history>>
histVars  == <<raced, mixed, unlisted>>
vars == <<tableVars, pc, jobVars, listVars, uiq, tabVars, reqVars, window,
          count, histVars>>

-----------------------------------------------------------------------------
\* list_channels, without the built-in one.
Listed == {Chan[m] : m \in db} \ {General}

Go(t, step) == pc' = [pc EXCEPT ![t] = step]
PutUi(e) == uiq' = Append(uiq, e)
ChatEvent(m) == [kind |-> "chat", msg |-> m]
HistoryEvent(c) == [kind |-> "history", chan |-> c, msgs |-> {m \in db : Chan[m] = c}]
ChannelListEvent(cs) == [kind |-> "channels", chans |-> cs]

Init ==
    /\ db = Stored /\ came = {}
    /\ pc = [t \in Threads |-> IF t = "ui" THEN "initial" ELSE "idle"]
    /\ job = [t \in Threads |-> None] /\ synced = {}
    /\ snap = [t \in Threads |-> {}]
    /\ last = {}
    /\ uiq = <<>>
    /\ open = {} /\ lines = [c \in Channels |-> {}] /\ known = {}
    /\ reload = {} /\ history = None
    /\ window = "open"
    /\ count = [opens |-> 0, prunes |-> 0]
    /\ raced = {} /\ mixed = FALSE /\ unlisted = FALSE

-----------------------------------------------------------------------------
(* _emit_initial_channels, which the constructor runs when the client      *)
(* thread is already up, and _refresh_channels_from_db: the table is read, *)
(* the list remembered, the event put, without a lock.                     *)

Refreshing(t) == pc[t] \in {"set", "compare", "put list"}

ReadChannels(t) ==
    /\ pc[t] \in {"initial", "refresh"}
    /\ snap' = [snap EXCEPT ![t] = Listed]
    /\ Go(t, IF pc[t] = "initial" THEN "set" ELSE "compare")
    /\ mixed' = (mixed \/ \E u \in Threads \ {t} : Refreshing(u))
    /\ unlisted' = FALSE
    /\ UNCHANGED <<tableVars, jobVars, last, uiq, tabVars, reqVars, window,
                   count, raced>>

\* Back to the caller: on_prune_db goes on with the open tabs, the answer of a
\* sync request ends with _on_sync_applied.
AfterRefresh(t) ==
    /\ snap' = [snap EXCEPT ![t] = {}]
    /\ job' = [job EXCEPT ![t] = None]
    /\ Go(t, CASE t = "ui" /\ reload # {} -> "reload"
              [] t \in synced             -> "applied"
              [] OTHER                    -> "idle")

SetLastChannels(t) ==
    /\ pc[t] = "set" \/ (pc[t] = "compare" /\ snap[t] # last)
    /\ last' = snap[t]
    /\ Go(t, "put list")
    /\ UNCHANGED <<tableVars, jobVars, snap, uiq, tabVars, reqVars, window,
                   count, histVars>>

SameChannels(t) ==
    /\ pc[t] = "compare"
    /\ snap[t] = last
    /\ AfterRefresh(t)
    /\ UNCHANGED <<tableVars, synced, last, uiq, tabVars, reqVars, window,
                   count, histVars>>

PutChannels(t) ==
    /\ pc[t] = "put list"
    /\ PutUi(ChannelListEvent(snap[t]))
    /\ AfterRefresh(t)
    /\ UNCHANGED <<tableVars, synced, last, tabVars, reqVars, window,
                   count, histVars>>

Refresh(t) ==
    ReadChannels(t) \/ SetLastChannels(t) \/ SameChannels(t) \/ PutChannels(t)

-----------------------------------------------------------------------------
(* RX threads: _handle_incoming_chat_message, or a record of               *)
(* _handle_sync_response (an answer of one record), with the callbacks of   *)
(* the backend.                                                            *)

\* Mutants: the callback comes before the row is stored; it does not refresh.
Following_ShowFirst(step) ==
    CASE step = "arrive" -> "chat" [] step = "chat" -> "store" [] step = "store" -> "refresh"
Following_NoRefresh(step) ==
    CASE step = "arrive" -> "store" [] step = "store" -> "chat" [] step = "chat" -> "idle"

Following(step) ==
    CASE step = "arrive" -> "store" [] step = "store" -> "chat" [] step = "chat" -> "refresh"

Receive(t, m) ==
    /\ window # "down"
    /\ pc[t] = "idle"
    /\ m \in Incoming \ came
    /\ came' = came \cup {m}
    /\ job' = [job EXCEPT ![t] = m]
    /\ synced' \in {synced, synced \cup {t}}
    /\ Go(t, Following("arrive"))
    /\ UNCHANGED <<db, listVars, uiq, tabVars, reqVars, window, count, histVars>>

Store(t) ==
    /\ pc[t] = "store"
    /\ db' = db \cup {job[t]}
    /\ Go(t, Following("store"))
    /\ UNCHANGED <<came, jobVars, listVars, uiq, tabVars, reqVars, window, count, histVars>>

\* A snapshot under way will take the line of m away again.
LacksLine(e, m) == e.kind = "history" /\ e.chan = Chan[m] /\ m \notin e.msgs

\* _on_chat_message.
OnChatMessage(t) ==
    /\ pc[t] = "chat"
    /\ PutUi(ChatEvent(job[t]))
    /\ Go(t, Following("chat"))
    /\ raced' = IF pc["ui"] = "put history" /\ LacksLine(history, job[t])
                THEN raced \cup {job[t]} ELSE raced
    /\ UNCHANGED <<tableVars, jobVars, listVars, tabVars, reqVars, window,
                   count, mixed, unlisted>>

\* _on_sync_applied.
OnSyncApplied(t) ==
    /\ pc[t] = "applied"
    /\ synced' = synced \ {t}
    /\ Go(t, "refresh")
    /\ UNCHANGED <<tableVars, job, listVars, uiq, tabVars, reqVars, window, count, histVars>>

RxThread(t) == Store(t) \/ OnChatMessage(t) \/ OnSyncApplied(t) \/ Refresh(t)

-----------------------------------------------------------------------------
(* The GUI thread: what the user does.                                     *)

UserActs == pc["ui"] = "idle" /\ window = "open"

Count(what, limit) == /\ count[what] < limit
                      /\ count' = [count EXCEPT ![what] = @ + 1]

\* on_node_activated: a tab that is created loads its history.
OnNodeActivated(c) ==
    /\ UserActs
    /\ c \in ({General} \cup known) \ open
    /\ Count("opens", MaxOpens)
    /\ open' = open \cup {c}
    /\ reload' = {c}
    /\ Go("ui", "reload")
    /\ UNCHANGED <<tableVars, jobVars, listVars, uiq, lines, known, history, window,
                   histVars>>

\* request_history: the table is read first, the event put after that.
ReadHistory ==
    /\ pc["ui"] = "reload"
    /\ \E c \in reload : /\ history' = HistoryEvent(c)
                         /\ reload' = reload \ {c}
    /\ Go("ui", "put history")
    /\ UNCHANGED <<tableVars, jobVars, listVars, uiq, tabVars, window, count,
                   histVars>>

PutHistory ==
    /\ pc["ui"] = "put history"
    /\ PutUi(history)
    /\ history' = None
    /\ Go("ui", IF reload = {} THEN "idle" ELSE "reload")
    /\ UNCHANGED <<tableVars, jobVars, listVars, tabVars, reload, window,
                   count, histVars>>

OnTabClose(c) ==
    /\ UserActs
    /\ c \in open
    /\ Count("opens", MaxOpens)
    /\ open' = open \ {c}
    /\ lines' = [lines EXCEPT ![c] = {}]
    /\ UNCHANGED <<tableVars, pc, jobVars, listVars, uiq, known, reqVars, window,
                   histVars>>

\* Mutant: a line for a tab that is not open is dropped.
AppendChatLine_NoTab(c, m) ==
    /\ lines' = IF c \in open THEN [lines EXCEPT ![c] = @ \cup {m}] ELSE lines
    /\ open' = open

\* _append_chat_line opens the tab when it is not there.
AppendChatLine(c, m) ==
    /\ open' = open \cup {c}
    /\ lines' = [lines EXCEPT ![c] = @ \cup {m}]

\* on_send, in the tab of the channel, or in the status tab, which stands for
\* #general: the line is shown before the message is sent.
OnSend(m) ==
    /\ UserActs
    /\ m \in Typed \ came
    /\ Chan[m] \in open \cup {General}
    /\ came' = came \cup {m}
    /\ job' = [job EXCEPT !["ui"] = m]
    /\ AppendChatLine(Chan[m], m)
    /\ Go("ui", "send")
    /\ UNCHANGED synced
    /\ raced' = IF \E i \in 1 .. Len(uiq) : LacksLine(uiq[i], m) THEN raced \cup {m} ELSE raced
    /\ UNCHANGED <<db, listVars, uiq, known, reqVars, window, count,
                   mixed, unlisted>>

\* send_message: sent; or the peer is unknown or the transport fails, which is
\* reported; or the DM has no destination, or the ARDOP link raises its own
\* error, and there is no refresh.
SendMessage ==
    /\ pc["ui"] = "send"
    /\ \/ /\ Go("ui", "log")
          /\ UNCHANGED job
       \/ /\ \E step \in {"refresh", "idle"} : Go("ui", step)
          /\ job' = [job EXCEPT !["ui"] = None]
    /\ UNCHANGED <<tableVars, synced, listVars, uiq, tabVars, reqVars, window, count,
                   histVars>>

LogSent ==
    /\ pc["ui"] = "log"
    /\ db' = db \cup {job["ui"]}
    /\ Go("ui", "refresh")
    /\ UNCHANGED <<came, jobVars, listVars, uiq, tabVars, reqVars, window, count, histVars>>

\* Which messages of a channel are its newest is left open.
KeptBy(keep, rows) ==
    {kept \in SUBSET rows :
        \A c \in Channels :
            LET n == Cardinality({m \in rows : Chan[m] = c})
            IN  Cardinality({m \in kept : Chan[m] = c}) = IF n < keep THEN n ELSE keep}

\* on_prune_db: prune_db, and the history of the open tabs anew.
OnPruneDb ==
    /\ UserActs
    /\ Count("prunes", MaxPrunes)
    /\ db' \in KeptBy(Keep, db)
    /\ reload' = open
    /\ Go("ui", "refresh")
    /\ UNCHANGED <<came, jobVars, listVars, uiq, tabVars, history, window, histVars>>

-----------------------------------------------------------------------------
(* on_timer: the queue is rendered until it is empty.                      *)

RenderChat(e)    == AppendChatLine(Chan[e.msg], e.msg) /\ UNCHANGED known
RenderHistory(e) == /\ open' = open \cup {e.chan}
                    /\ lines' = [lines EXCEPT ![e.chan] = e.msgs]
                    /\ UNCHANGED known
RenderChannels(e) == known' = e.chans /\ UNCHANGED <<open, lines>>

OnTimer ==
    /\ window = "open"
    /\ pc["ui"] \in {"idle", "timer"}
    /\ uiq # <<>>
    /\ LET e == Head(uiq)
       IN  CASE e.kind = "chat"     -> RenderChat(e)
             [] e.kind = "history"  -> RenderHistory(e)
             [] e.kind = "channels" -> RenderChannels(e)
    /\ uiq' = Tail(uiq)
    /\ Go("ui", IF Len(uiq) = 1 THEN "idle" ELSE "timer")
    /\ UNCHANGED <<tableVars, jobVars, listVars, reqVars, window, count,
                   histVars>>

\* on_close stops the timer and leaves the rest to a thread ...
OnClose ==
    /\ UserActs
    /\ window' = "closed"
    /\ UNCHANGED <<tableVars, pc, jobVars, listVars, uiq, tabVars, reqVars,
                   count, histVars>>

\* ... that stops client and links.
Shutdown ==
    /\ window = "closed"
    /\ window' = "down"
    /\ UNCHANGED <<tableVars, pc, jobVars, listVars, uiq, tabVars, reqVars, count, histVars>>

UiThread == \/ ReadHistory \/ PutHistory \/ SendMessage \/ LogSent \/ Refresh("ui") \/ OnTimer

-----------------------------------------------------------------------------
(* The status thread.                                                      *)

\* _maybe_run_retention_maintenance: messages go by their age, here any of
\* them, and the list of channels is not refreshed.
RunRetention ==
    /\ window # "down"
    /\ Count("prunes", MaxPrunes)
    /\ db' \in SUBSET db \ {db}
    /\ unlisted' = TRUE
    /\ UNCHANGED <<came, pc, jobVars, listVars, uiq, tabVars, reqVars, window, raced, mixed>>

-----------------------------------------------------------------------------
Next ==
    \/ \E t \in Rx : RxThread(t) \/ \E m \in Incoming : Receive(t, m)
    \/ UiThread
    \/ \E c \in Channels : OnNodeActivated(c) \/ OnTabClose(c)
    \/ \E m \in Typed : OnSend(m)
    \/ OnPruneDb \/ OnClose \/ Shutdown
    \/ RunRetention

Spec == Init /\ [][Next]_vars

\* Threads run on, and the timer of the window ticks.
Fairness == WF_vars(UiThread) /\ \A t \in Rx : WF_vars(RxThread(t))

FairSpec == Spec /\ Fairness

-----------------------------------------------------------------------------
(* Properties.                                                             *)

\* A line of an open tab does not vanish while its message is in the table,
\* although snapshots replace the whole tab and are read on another thread than
\* the one that announces messages.  The exceptions are the lines that raced
\* with a snapshot: announced between the reading and the putting of one without
\* them, or typed while one was waiting in the queue.
LinesKept ==
    [][\A c \in open \cap open' : \A m \in lines[c] \ lines'[c] : m \notin db \/ m \in raced]_vars

\* A message that arrives is shown while the window is open, whether its tab is
\* open, closed, or was never there.
EveryMessageShown ==
    \A m \in Incoming :
        (\E t \in Rx : job[t] = m /\ pc[t] = "store")
            ~> (m \in lines[Chan[m]] \/ window # "open")

\* When all is quiet the left list shows the channels of the table: of what
\* threads read and put at different times, the newest list arrives last.  This
\* fails once two threads were inside a refresh at the same time, and until the
\* next refresh after rows went by age.
Quiet == uiq = <<>> /\ \A t \in Threads : pc[t] = "idle"
ChannelListCurrent ==
    Quiet /\ window = "open" /\ ~mixed /\ ~unlisted => known = Listed
=============================================================================
