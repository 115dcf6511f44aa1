----------------------------- MODULE SyncRetry ------------------------------
(***************************************************************************)
(* The sync scheduler of MeshChatBackend (mesh_backend.py): explicit sync  *)
(* requests (from the GUI and from _nodes_loop), the cooldown per peer and *)
(* channel, deferred requests, and the thread of _sync_retry_loop that     *)
(* drains the deferred ones and repeats unanswered ones with backoff.      *)
(*                                                                         *)
(* A key stands for one (peer_label, channel) that the policy enables.     *)
(* Times are kept as ticks still to wait, so no bound on the clock is      *)
(* needed.  A tick is at least the loop's sleep, and neither a pass of the *)
(* loop nor a request in progress lasts longer than a tick.                *)
(***************************************************************************)
EXTENDS Integers

CONSTANTS
    Keys,          \* (peer, channel) pairs
    Channel,       \* Channel[k]: the channel of k
    Askers,        \* threads that request a sync: the GUI and _nodes_loop
    None,          \* no key
    Deferring,     \* channels whose policy says defer
    Gated,         \* do the policies say require_recent_rx_seconds > 0?
    CanFail,       \* may request_sync_last_n raise?
    MinInterval,   \* cooldown, in ticks
    BaseDelay,     \* first backoff (5 s), in ticks
    MaxDelay,      \* longest backoff (120 s), in ticks
    MaxAttempts,   \* 6 in the code
    MaxAsks,       \* bound on explicit requests
    SendCap        \* where the history variable sends stops counting

ASSUME KeyAssumption == None \notin Keys
ASSUME PolicyAssumption == Gated \in BOOLEAN /\ CanFail \in BOOLEAN
ASSUME DelayAssumption == /\ MinInterval \in Nat
                          /\ BaseDelay \in Nat
                          /\ MaxDelay \in Nat
ASSUME BoundAssumption == /\ MaxAttempts \in Nat \ {0}
                          /\ MaxAsks \in Nat
                          /\ SendCap \in Nat
                          /\ SendCap > MaxAttempts + 2

VARIABLES
    retry,     \* retry[k]: the entry of _sync_retry for k, or NoRetry
    cool,      \* cool[k]: ticks until the cooldown of _last_sync_time[k] ends
    pending,   \* keys of _pending_sync
    asking,    \* asking[t]: key thread t has cleared for sending, or None
    phase,     \* where _sync_retry_loop is
    items,     \* its snapshot of _pending_sync, still to be looked at
    held,      \* held[k]: is an object for k in its list of due objects?
    orphan,    \* orphan[k]: that object, once it has left _sync_retry
    sending,   \* key the loop has cleared for sending, or None
    asks,      \* explicit requests made
    sends      \* history: sends for k since it was last asked for

loopVars == <<phase, items, held, orphan, sending>>
vars == <<retry, cool, pending, asking, loopVars, asks, sends>>

-----------------------------------------------------------------------------
(* Entries and the backoff.                                                *)

\* No entry: like one that gave up, it is never due.
NoRetry == [attempts |-> 0, due |-> 0, gave_up |-> TRUE]

\* What _schedule_sync_retry leaves, whether the entry is new or reset.
Fresh == [attempts |-> 0, due |-> 0, gave_up |-> FALSE]

\* _compute_backoff_seconds; the jitter is less than a tick.
Backoff(a) ==
    LET base == BaseDelay * 2^a
    IN  IF base > MaxDelay THEN MaxDelay ELSE base

Exhausted_OffByOne(st) == st.attempts > MaxAttempts
Exhausted(st) == st.attempts >= MaxAttempts

\* The end of a retry, successful or not.
Attempted_NotCounted(st) == [st EXCEPT !.due = Backoff(st.attempts + 1)]
Attempted(st) ==
    [st EXCEPT !.attempts = @ + 1, !.due = Backoff(st.attempts + 1)]

\* _policy_defer
Defers(k) == Channel[k] \in Deferring

\* The link gate and the peer gate together; both read state kept elsewhere.
Gate == IF Gated THEN BOOLEAN ELSE {TRUE}

\* The outcomes of request_sync_last_n.
Outcome == IF CanFail THEN BOOLEAN ELSE {TRUE}

Count(n) == IF n < SendCap THEN n + 1 ELSE n

\* The due object the loop holds for k, and the loop's update of it.
Due(k) == IF held[k] = "orphan" THEN orphan[k] ELSE retry[k]

SetDue(k, st) ==
    IF held[k] = "orphan"
    THEN orphan' = [orphan EXCEPT ![k] = st] /\ UNCHANGED retry
    ELSE retry' = [retry EXCEPT ![k] = st] /\ UNCHANGED orphan

Release(k) == held' = [held EXCEPT ![k] = "no"]

\* A request for k has gone out: the cooldown starts.
Sent(k, n) == /\ cool'  = [cool EXCEPT ![k] = MinInterval]
              /\ sends' = [sends EXCEPT ![k] = n]

Idle == [k \in Keys |-> "no"]

Init ==
    /\ retry   = [k \in Keys |-> NoRetry]
    /\ cool    = [k \in Keys |-> 0]
    /\ pending = {}
    /\ asking  = [t \in Askers |-> None]
    /\ phase   = "sleep"
    /\ items   = {}
    /\ held    = Idle
    /\ orphan  = [k \in Keys |-> NoRetry]
    /\ sending = None
    /\ asks    = 0
    /\ sends   = [k \in Keys |-> 0]

-----------------------------------------------------------------------------
(* Explicit requests: request_sync_for_channel, and _nodes_loop for a new  *)
(* peer.  The checks and the send are two steps: nothing is locked between *)
(* them, and other threads may send for the same key.                      *)

\* Mutant: the cooldown is not looked at.
Request_NoCooldown(t, k) ==
    /\ asks < MaxAsks
    /\ asking[t] = None
    /\ asks' = asks + 1
    /\ asking' = [asking EXCEPT ![t] = k]
    /\ UNCHANGED <<pending, sends, retry, cool, loopVars>>

Request(t, k) ==
    /\ asks < MaxAsks
    /\ asking[t] = None
    /\ cool[k] = 0
    /\ asks' = asks + 1
    /\ \E open \in Gate :
         IF Defers(k)
         THEN /\ pending' = pending \cup {k}
              /\ sends' = [sends EXCEPT ![k] = 0]
              /\ UNCHANGED asking
         ELSE /\ open
              /\ asking' = [asking EXCEPT ![t] = k]
              /\ UNCHANGED <<pending, sends>>
    /\ UNCHANGED <<retry, cool, loopVars>>

RequestSend(t) ==
    LET k == asking[t] IN
    /\ k # None
    /\ asking' = [asking EXCEPT ![t] = None]
    /\ \E ok \in Outcome :
         IF ok
         THEN /\ Sent(k, 1)
              /\ retry' = [retry EXCEPT ![k] = Fresh]
         ELSE UNCHANGED <<cool, sends, retry>>
    /\ UNCHANGED <<pending, loopVars, asks>>

-----------------------------------------------------------------------------
(* _sync_retry_loop: sleep, _drain_pending_sync, collect, retry.           *)

Tick ==
    /\ phase = "sleep"
    /\ \A t \in Askers : asking[t] = None
    /\ phase' = "awake"
    /\ cool'  = [k \in Keys |-> IF cool[k] > 0 THEN cool[k] - 1 ELSE 0]
    /\ retry' = [k \in Keys |->
                   [retry[k] EXCEPT !.due = IF @ > 0 THEN @ - 1 ELSE 0]]
    /\ UNCHANGED <<pending, asking, items, held, orphan, sending, asks, sends>>

\* list(self._pending_sync.items())
DrainSnapshot ==
    /\ phase = "awake"
    /\ phase' = "drain"
    /\ items' = pending
    /\ UNCHANGED <<retry, cool, pending, asking, held, orphan, sending, asks, sends>>

DrainCheck(k) ==
    /\ phase = "drain"
    /\ sending = None
    /\ k \in items
    /\ items' = items \ {k}
    /\ \E open \in Gate :
         sending' = IF cool[k] = 0 /\ open THEN k ELSE None
    /\ UNCHANGED <<retry, cool, pending, asking, phase, held, orphan, asks, sends>>

DrainSend_NotRemoved(k) ==
    /\ phase = "drain"
    /\ sending = k
    /\ sending' = None
    /\ Sent(k, Count(sends[k]))
    /\ retry' = [retry EXCEPT ![k] = Fresh]
    /\ UNCHANGED <<pending, asking, phase, items, held, orphan, asks>>

DrainSend(k) ==
    /\ phase = "drain"
    /\ sending = k
    /\ sending' = None
    /\ \E ok \in Outcome :
         IF ok
         THEN /\ Sent(k, Count(sends[k]))
              /\ retry' = [retry EXCEPT ![k] = Fresh]
              /\ pending' = pending \ {k}
         ELSE UNCHANGED <<cool, sends, retry, pending>>
    /\ UNCHANGED <<asking, phase, items, held, orphan, asks>>

\* The list of due objects, taken under _sync_retry_lock.
Collect ==
    /\ phase = "drain"
    /\ sending = None
    /\ items = {}
    /\ phase' = "retry"
    /\ held' = [k \in Keys |->
                  IF ~retry[k].gave_up /\ retry[k].due = 0 THEN "live" ELSE "no"]
    /\ UNCHANGED <<retry, cool, pending, asking, items, orphan, sending, asks, sends>>

\* One due object: give up, wait for the cooldown, defer, or go on to send.
RetryCheck(k) ==
    LET st == Due(k) IN
    /\ phase = "retry"
    /\ sending = None
    /\ held[k] # "no"
    /\ \/ /\ Exhausted(st)
          /\ SetDue(k, [st EXCEPT !.gave_up = TRUE])
          /\ Release(k)
          /\ UNCHANGED <<pending, sending>>
       \/ /\ ~Exhausted(st)
          /\ cool[k] > 0
          /\ SetDue(k, [st EXCEPT !.due = cool[k]])
          /\ Release(k)
          /\ UNCHANGED <<pending, sending>>
       \/ /\ ~Exhausted(st)
          /\ cool[k] = 0
          /\ \E open \in Gate, factor \in {1, 2} :
               /\ open => Defers(k) /\ factor = 1
               /\ SetDue(k, [st EXCEPT !.due = factor * Backoff(st.attempts)])
          /\ pending' = IF Defers(k) THEN pending \cup {k} ELSE pending
          /\ Release(k)
          /\ UNCHANGED sending
       \/ /\ ~Exhausted(st)
          /\ cool[k] = 0
          /\ ~Defers(k)
          /\ sending' = k
          /\ UNCHANGED <<retry, orphan, held, pending>>
    /\ UNCHANGED <<cool, asking, phase, items, asks, sends>>

\* The send of a retry.  A failure counts as an attempt but starts no cooldown.
RetrySend(k) ==
    /\ phase = "retry"
    /\ sending = k
    /\ sending' = None
    /\ \E ok \in Outcome :
         IF ok THEN Sent(k, Count(sends[k])) ELSE UNCHANGED <<cool, sends>>
    /\ SetDue(k, Attempted(Due(k)))
    /\ Release(k)
    /\ UNCHANGED <<pending, asking, phase, items, asks>>

PassDone ==
    /\ phase = "retry"
    /\ held = Idle
    /\ phase' = "sleep"
    /\ orphan' = [k \in Keys |-> NoRetry]
    /\ UNCHANGED <<retry, cool, pending, asking, items, held, sending, asks, sends>>

-----------------------------------------------------------------------------
(* _on_sync_applied, on the thread of a link: an answer brought something  *)
(* new for a channel, and its entries are dropped.  An object the loop     *)
(* still lists lives on there.                                             *)

SyncApplied(c) ==
    LET gone == {k \in Keys : Channel[k] = c} IN
    /\ \E k \in gone : retry[k] # NoRetry
    /\ retry' = [k \in Keys |-> IF k \in gone THEN NoRetry ELSE retry[k]]
    /\ held' = [k \in Keys |->
                  IF k \in gone /\ held[k] = "live" THEN "orphan" ELSE held[k]]
    /\ orphan' = [k \in Keys |->
                    IF k \in gone /\ held[k] = "live" THEN retry[k] ELSE orphan[k]]
    /\ UNCHANGED <<cool, pending, asking, phase, items, sending, asks, sends>>

LoopStep ==
    \/ DrainSnapshot
    \/ Collect
    \/ PassDone
    \/ \E k \in Keys : DrainCheck(k) \/ DrainSend(k) \/ RetryCheck(k) \/ RetrySend(k)

Next ==
    \/ \E t \in Askers, k \in Keys : Request(t, k)
    \/ \E t \in Askers : RequestSend(t)
    \/ Tick
    \/ LoopStep
    \/ \E c \in {Channel[k] : k \in Keys} : SyncApplied(c)

Spec == Init /\ [][Next]_vars

\* The loop's thread runs while the backend does, requests return, and time
\* passes; nobody has to ask and no answer has to come.  The gates are open
\* time and again (OGMs keep coming in), and a deferred send does not fail for
\* ever.
Fairness ==
    /\ WF_vars(LoopStep)
    /\ WF_vars(Tick)
    /\ \A t \in Askers : WF_vars(RequestSend(t))
    /\ \A k \in Keys : /\ SF_vars(DrainCheck(k) /\ sending' = k)
                       /\ SF_vars(RetryCheck(k) /\ sending' = k)
                       /\ SF_vars(DrainSend(k) /\ cool'[k] > 0)

FairSpec == Spec /\ Fairness

-----------------------------------------------------------------------------
(* Properties.                                                             *)

Entry == [attempts : 0 .. MaxAttempts, due : Nat, gave_up : BOOLEAN]

\* Types; in particular no entry of _sync_retry counts more attempts than the
\* limit of _sync_retry_loop.
TypeOK ==
    /\ retry   \in [Keys -> Entry]
    /\ cool    \in [Keys -> Nat]
    /\ pending \subseteq Keys
    /\ asking  \in [Askers -> Keys \cup {None}]
    /\ phase   \in {"sleep", "awake", "drain", "retry"}
    /\ items   \subseteq Keys
    /\ held    \in [Keys -> {"no", "live", "orphan"}]
    /\ orphan  \in [Keys -> Entry]
    /\ sending \in Keys \cup {None}
    /\ asks    \in 0 .. MaxAsks
    /\ sends   \in [Keys -> 0 .. SendCap]

\* On a channel that does not defer, one explicit request puts at most
\* MaxAttempts + 2 sync requests on the air: itself, the retries of
\* _sync_retry_loop, and one retry of an object that was in the loop's hands
\* when an answer dropped it and a new request came.
BoundedRetries == \A k \in Keys : ~Defers(k) => sends[k] <= MaxAttempts + 2

\* The comment in _sync_retry_loop, "Stop after a bounded number of attempts
\* to avoid RF spam", and the README, "Retries use bounded exponential
\* backoff": the same bound for every channel.
AttemptsBounded == \A k \in Keys : sends[k] <= MaxAttempts + 2

\* The cooldown of min_sync_interval_seconds, as far as threads without a lock can
\* keep it: a sync request for a key that leaves inside the cooldown of another
\* was checked before that one was recorded, and so leaves within the same tick;
\* none leaves later in the cooldown.
CooldownHolds ==
    [][\A k \in Keys : sends'[k] > sends[k] \/ cool'[k] > cool[k]
                           => cool[k] \in {0, MinInterval}]_vars

\* On a channel that does not defer, an entry of _sync_retry does not stay
\* active for ever: it is dropped by an answer or gives up.
RetryEnds == \A k \in Keys : (~Defers(k) /\ ~retry[k].gave_up) ~> retry[k].gave_up

\* A deferred request leaves _pending_sync: it is sent.
DeferredSyncSent == \A k \in Keys : k \in pending ~> k \notin pending

=============================================================================
