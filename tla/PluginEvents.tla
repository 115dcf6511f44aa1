---------------------------- MODULE PluginEvents ----------------------------
(***************************************************************************)
(* plugin_manager.py and what mesh_backend.py gives it: threads of the     *)
(* program emit events into a bounded queue, and one worker calls the      *)
(* plugins, in the order they were loaded, for one event after the other.  *)
(* The status thread turns changes of the links into events.               *)
(***************************************************************************)
EXTENDS Integers, Sequences, SequencesExt

CONSTANTS
    Plugins,      \* _plugins: the modules that could be loaded, in order of file name
    Handles,      \* Handles[p]: the events p has a function for, or handle_event
    QueueSize,
    Links,
    None,
    MaxEvents     \* events emitted, and changes of links

STOP == [name |-> "__stop__", no |-> 0]

ASSUME PluginAssumption ==
    /\ Plugins \in Seq(ToSet(Plugins)) /\ IsInjective(Plugins)
    /\ \A p \in ToSet(Plugins) : STOP.name \notin Handles[p]
    /\ QueueSize \in Nat \ {0}
    /\ MaxEvents \in Nat

VARIABLES
    queue,     \* _q
    running,   \* _running
    worker,    \* what the worker has in hand: an event, and the plugins to call yet
    link,      \* link[l]: connected, as the metrics of l have it
    lastLink,  \* _last_link_states
    events,    \* events and changes of links so far
    owed       \* history: owed[p], events that the queue took and p was not given yet

vars == <<queue, running, worker, link, lastLink, events, owed>>
linkVars == <<link, lastLink>>

Loaded == ToSet(Plugins)
Waiting == [event |-> None, calls |-> <<>>]

\* __init__ and start: without plugins there is no worker.
Init ==
    /\ queue = <<>>
    /\ running = (Plugins # <<>>)
    /\ worker = Waiting
    /\ link = [l \in Links |-> FALSE]
    /\ lastLink = [l \in Links |-> None]
    /\ events = 0
    /\ owed = [p \in Loaded |-> <<>>]

Wants(p, e) == e.name \in Handles[p]

\* emit: without plugins, or when the queue is full, the event is dropped.
Emit(e) ==
    IF Plugins # <<>> /\ Len(queue) < QueueSize
    THEN /\ queue' = Append(queue, e)
         /\ owed' = [p \in Loaded |-> IF Wants(p, e) THEN Append(owed[p], e) ELSE owed[p]]
    ELSE UNCHANGED <<queue, owed>>

\* _emit_plugin_event passes the fields of the event on as keyword arguments
\* of emit(name, **data).  A field called "name" collides with the parameter,
\* and the TypeError is caught and dropped.
EmitPluginEvent(name, fields) ==
    IF "name" \in fields THEN UNCHANGED <<queue, owed>>
    ELSE Emit([name |-> name, no |-> events + 1])

\* The fields of the events, from the places that emit them.
Fields ==
    [on_message_sent     |-> {"dest_node_id_hex", "channel", "nick", "text", "origin_id_hex",
                              "seqno", "created_ts"},
     on_message_received |-> {"origin_id_hex", "seqno", "channel", "nick", "text", "created_ts"},
     on_gap_detected     |-> {"text"},
     on_sync_applied     |-> {"channel", "applied_count"},
     on_prune_executed   |-> {"mode", "deleted", "keep_last_n"}]

\* Client, sync and pruning emit, each on its own threads, at any time: the
\* threads are not stopped with the plugins.
Happens(name) ==
    /\ events < MaxEvents
    /\ events' = events + 1
    /\ EmitPluginEvent(name, Fields[name])
    /\ UNCHANGED <<running, worker, linkVars>>

LinkChanges(l) ==
    /\ events < MaxEvents
    /\ events' = events + 1
    /\ link' = [link EXCEPT ![l] = ~@]
    /\ UNCHANGED <<queue, running, worker, lastLink, owed>>

\* _detect_link_state_changes: the first state is only noted.
DetectLinkState(l) ==
    /\ lastLink[l] # link[l]
    /\ lastLink' = [lastLink EXCEPT ![l] = link[l]]
    /\ IF lastLink[l] = None THEN UNCHANGED <<queue, owed>>
       ELSE EmitPluginEvent("on_link_state_change", {"name", "connected"})
    /\ UNCHANGED <<running, worker, link, events>>

-----------------------------------------------------------------------------
\* _worker: the next event.  What stop() put there is skipped.
GetEvent ==
    /\ running
    /\ worker = Waiting
    /\ queue # <<>>
    /\ queue' = Tail(queue)
    /\ worker' = IF Head(queue) = STOP THEN Waiting
                 ELSE [event |-> Head(queue), calls |-> Plugins]
    /\ UNCHANGED <<running, linkVars, events, owed>>

\* Mutant: the exception of a plugin ends the round.
AfterCall_Aborts(raised) ==
    IF Len(worker.calls) = 1 \/ raised THEN Waiting
    ELSE [worker EXCEPT !.calls = Tail(@)]

AfterCall(raised) ==
    IF Len(worker.calls) = 1 THEN Waiting
    ELSE [worker EXCEPT !.calls = Tail(@)]

\* _dispatch, one plugin: its function for the event, else its handle_event, else
\* nothing.  Whether the call returns or raises, the next plugin is called.
CallPlugin ==
    /\ worker # Waiting
    /\ LET p == Head(worker.calls)
       IN  IF Wants(p, worker.event)
           THEN /\ owed' = [owed EXCEPT ![p] = Tail(@)]
                /\ \E raised \in BOOLEAN : worker' = AfterCall(raised)
           ELSE worker' = AfterCall(FALSE) /\ UNCHANGED owed
    /\ UNCHANGED <<queue, running, linkVars, events>>

\* stop.  The worker may go on with its event after the 2 s that stop() waits.
Stop ==
    /\ running
    /\ running' = FALSE
    /\ queue' = IF Len(queue) < QueueSize THEN Append(queue, STOP) ELSE queue
    /\ UNCHANGED <<worker, linkVars, events, owed>>

Next ==
    \/ \E name \in DOMAIN Fields : Happens(name)
    \/ \E l \in Links : LinkChanges(l) \/ DetectLinkState(l)
    \/ GetEvent \/ CallPlugin \/ Stop

Spec == Init /\ [][Next]_vars

-----------------------------------------------------------------------------
\* part is what plugin p handles of the events es, in their order: its i-th
\* event is the at[i]-th of es.
Picks(p, es, part, at) ==
    /\ \A i, j \in 1 .. Len(part) : i < j => at[i] < at[j]
    /\ \A i \in 1 .. Len(part) : part[i] = es[at[i]]
    /\ \A k \in 1 .. Len(es) : Wants(p, es[k]) <=> \E i \in 1 .. Len(part) : at[i] = k
IsWantedPart(p, es, part) ==
    \E at \in [1 .. Len(part) -> 1 .. Len(es)] : Picks(p, es, part, at)

\* No plugin is passed over: of the events that the queue took, each plugin has
\* been given, in their order and once, all that it handles, but for those still
\* in the queue or in the worker's hands, however other plugins fail, threads
\* emit and the queue overflows, up to a stop and after it.
PluginsServed ==
    \A p \in Loaded :
        LET inHand == IF Contains(worker.calls, p) THEN <<worker.event>> ELSE <<>>
        IN  IsWantedPart(p, inHand \o queue, owed[p])
=============================================================================
