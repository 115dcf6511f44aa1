--------------------------- MODULE SyncRetryProofs --------------------------
(***************************************************************************)
(* Proofs about the sync scheduler, for any number of peers, channels and  *)
(* requesting threads: types, the cooldown between two requests, and, on a *)
(* channel that does not defer, the bound on the requests one ask causes.  *)
(***************************************************************************)
EXTENDS SyncRetry, FiniteSetTheorems, TLAPS

\* The shape of the state.
Shape ==
    /\ retry   \in [Keys -> Entry]
    /\ cool    \in [Keys -> Nat]
    /\ asking  \in [Askers -> Keys \cup {None}]
    /\ held    \in [Keys -> {"no", "live", "orphan"}]
    /\ orphan  \in [Keys -> Entry]
    /\ sending \in Keys \cup {None}
    /\ sends   \in [Keys -> 0 .. SendCap]

\* Only channels that defer have pending requests, so the drain sends for no
\* other.
OnlyDeferred == /\ pending \subseteq {k \in Keys : Defers(k)}
                /\ items \subseteq {k \in Keys : Defers(k)}

\* A key cleared for sending is a pending one, or one of the due objects, with
\* attempts left.
Chosen ==
    sending # None =>
        \/ phase = "drain" /\ Defers(sending)
        \/ /\ phase = "retry"
           /\ held[sending] # "no"
           /\ Due(sending).attempts < MaxAttempts

\* Listed objects that are still entries have not given up.
LiveActive == \A k \in Keys : held[k] = "live" => ~retry[k].gave_up

\* How many sends the attempts of the object in charge of k account for.
Accounted(k) ==
    /\ ~retry[k].gave_up /\ held[k] # "orphan" => sends[k] <= 2 + retry[k].attempts
    /\ ~retry[k].gave_up /\ held[k] = "orphan" => sends[k] <= 1
    /\ retry[k].gave_up /\ held[k] = "orphan" => sends[k] <= 2 + orphan[k].attempts
    /\ retry[k].gave_up /\ held[k] # "orphan" => sends[k] <= 2 + MaxAttempts

RetryInv ==
    /\ Shape
    /\ OnlyDeferred
    /\ Chosen
    /\ LiveActive
    /\ \A k \in Keys : ~Defers(k) => Accounted(k)

\* A power of 2 is a natural number: it counts the subsets of an interval.
LEMMA PowerNat == \A a \in Nat : 2^a \in Nat
  <1> TAKE a \in Nat
  <1>1. IsFiniteSet(1 .. a) /\ Cardinality(1 .. a) = a
    <2>1. /\ IsFiniteSet(1 .. a)
          /\ Cardinality(1 .. a) = IF 1 > a THEN 0 ELSE a - 1 + 1
      BY FS_Interval
    <2> QED
      BY <2>1
  <1>2. IsFiniteSet(SUBSET (1 .. a)) /\ Cardinality(SUBSET (1 .. a)) = 2^a
    BY <1>1, FS_SUBSET
  <1> QED
    BY <1>2, FS_CardinalityType

\* The backoff is a number of ticks.
LEMMA BackoffNat == \A a \in Nat : Backoff(a) \in Nat
  <1>1. \A a \in Nat : BaseDelay * 2^a \in Nat
    BY PowerNat, DelayAssumption
  <1> QED
    BY <1>1, DelayAssumption DEF Backoff

\* Nothing has been sent at the start.
LEMMA RetryInit == Init => RetryInv
  BY KeyAssumption, BoundAssumption
  DEF Init, RetryInv, Shape, OnlyDeferred, Chosen, LiveActive, Accounted,
      Entry, NoRetry, Idle

\* An explicit request: the check.
LEMMA RequestKeeps ==
    ASSUME RetryInv, NEW t \in Askers, NEW k \in Keys, Request(t, k)
    PROVE  RetryInv'
  <1>1. UNCHANGED <<retry, cool, phase, items, held, orphan, sending>>
    BY DEF Request, loopVars
  <1>2. CASE /\ asking' = [asking EXCEPT ![t] = k]
             /\ UNCHANGED <<pending, sends>>
    BY <1>1, <1>2 DEF RetryInv, Shape, OnlyDeferred, Chosen, LiveActive, Accounted, Due
  <1>3. CASE /\ Defers(k)
             /\ pending' = pending \cup {k}
             /\ sends' = [sends EXCEPT ![k] = 0]
             /\ UNCHANGED asking
    BY <1>1, <1>3, BoundAssumption
    DEF RetryInv, Shape, OnlyDeferred, Chosen, LiveActive, Accounted, Due
  <1> QED
    BY <1>2, <1>3 DEF Request

\* An explicit request: the send, which starts the count afresh.
LEMMA RequestSendKeeps ==
    ASSUME RetryInv, NEW t \in Askers, RequestSend(t)
    PROVE  RetryInv'
  <1> DEFINE k == asking[t]
  <1>1. k \in Keys
    BY DEF RequestSend, RetryInv, Shape
  <1>2. /\ asking' = [asking EXCEPT ![t] = None]
        /\ UNCHANGED <<pending, phase, items, held, orphan, sending>>
    BY DEF RequestSend, loopVars
  <1>3. CASE UNCHANGED <<cool, sends, retry>>
    BY <1>2, <1>3 DEF RetryInv, Shape, OnlyDeferred, Chosen, LiveActive, Accounted, Due
  <1>4. CASE /\ cool' = [cool EXCEPT ![k] = MinInterval]
             /\ sends' = [sends EXCEPT ![k] = 1]
             /\ retry' = [retry EXCEPT ![k] = Fresh]
    <2>1. Fresh \in Entry /\ Fresh.attempts = 0 /\ Fresh.gave_up = FALSE
      BY BoundAssumption DEF Fresh, Entry
    <2>2. Shape'
      BY <1>1, <1>2, <1>4, <2>1, DelayAssumption, BoundAssumption DEF RetryInv, Shape
    <2>3. Chosen'
      BY <1>1, <1>2, <1>4, <2>1, BoundAssumption DEF RetryInv, Shape, Chosen, Due
    <2>4. LiveActive'
      BY <1>1, <1>2, <1>4, <2>1 DEF RetryInv, Shape, LiveActive
    <2>5. ASSUME NEW j \in Keys, ~Defers(j) PROVE Accounted(j)'
      BY <1>1, <1>2, <1>4, <2>1, <2>5 DEF RetryInv, Shape, Accounted
    <2> QED
      BY <1>2, <2>2, <2>3, <2>4, <2>5 DEF RetryInv, OnlyDeferred
  <1> QED
    BY <1>3, <1>4 DEF RequestSend, Sent

\* Time passes.
LEMMA TickKeeps ==
    ASSUME RetryInv, Tick
    PROVE  RetryInv'
  <1> DEFINE Down(d) == IF d > 0 THEN d - 1 ELSE 0
  <1>1. /\ UNCHANGED <<pending, asking, items, held, orphan, sending, sends>>
        /\ phase = "sleep"
        /\ cool' = [k \in Keys |-> Down(cool[k])]
        /\ retry' = [k \in Keys |-> [retry[k] EXCEPT !.due = Down(retry[k].due)]]
    BY DEF Tick
  <1>2. \A d \in Nat : Down(d) \in Nat
    OBVIOUS
  <1>3. cool' \in [Keys -> Nat]
    BY <1>1, <1>2 DEF RetryInv, Shape
  <1> HIDE DEF Down
  <1>4. ASSUME NEW k \in Keys
        PROVE  /\ retry'[k] \in Entry
               /\ retry'[k].attempts = retry[k].attempts
               /\ retry'[k].gave_up = retry[k].gave_up
    <2>1. retry[k] \in Entry
      BY DEF RetryInv, Shape
    <2>2. retry'[k] = [retry[k] EXCEPT !.due = Down(retry[k].due)]
      BY <1>1
    <2>3. Down(retry[k].due) \in Nat
      BY <1>2, <2>1 DEF Entry
    <2> QED
      BY <2>1, <2>2, <2>3 DEF Entry
  <1>5. retry' \in [Keys -> Entry]
    BY <1>1, <1>4
  <1>6. Shape'
    BY <1>1, <1>3, <1>5 DEF RetryInv, Shape
  <1>7. sending = None
    BY <1>1 DEF RetryInv, Chosen
  <1> QED
    BY <1>1, <1>4, <1>6, <1>7
    DEF RetryInv, OnlyDeferred, Chosen, LiveActive, Accounted

\* The loop takes its list of due objects, or ends its pass.
LEMMA ListKeeps ==
    ASSUME RetryInv, DrainSnapshot \/ Collect \/ PassDone
    PROVE  RetryInv'
  <1>1. CASE DrainSnapshot
    BY <1>1 DEF DrainSnapshot, RetryInv, Shape, OnlyDeferred, Chosen, LiveActive,
                Accounted, Due
  <1>2. CASE Collect
    <2>1. /\ UNCHANGED <<retry, cool, pending, asking, items, orphan, sending, sends>>
          /\ sending = None
          /\ held' = [k \in Keys |-> IF ~retry[k].gave_up /\ retry[k].due = 0
                                     THEN "live" ELSE "no"]
      BY <1>2 DEF Collect
    <2>2. Shape' /\ LiveActive'
      BY <2>1 DEF RetryInv, Shape, LiveActive
    <2>3. ASSUME NEW k \in Keys, ~Defers(k) PROVE Accounted(k)'
      BY <2>1, <2>3, BoundAssumption DEF RetryInv, Shape, Entry, Accounted
    <2> QED
      BY <2>1, <2>2, <2>3 DEF RetryInv, OnlyDeferred, Chosen
  <1>3. CASE PassDone
    <2>1. /\ UNCHANGED <<retry, cool, pending, asking, items, held, sending, sends>>
          /\ held = Idle /\ phase = "retry"
          /\ orphan' = [k \in Keys |-> NoRetry]
      BY <1>3 DEF PassDone
    <2>2. sending = None
      BY <2>1 DEF RetryInv, Shape, Chosen, Idle
    <2>3. Shape'
      BY <2>1, BoundAssumption DEF RetryInv, Shape, Entry, NoRetry
    <2>4. ASSUME NEW k \in Keys, ~Defers(k) PROVE Accounted(k)'
      BY <2>1, <2>4 DEF RetryInv, Accounted, Idle
    <2> QED
      BY <2>1, <2>2, <2>3, <2>4 DEF RetryInv, OnlyDeferred, Chosen, LiveActive
  <1> QED
    BY <1>1, <1>2, <1>3

\* The drain looks at, and sends for, channels that defer.
LEMMA DrainKeeps ==
    ASSUME RetryInv, NEW k \in Keys, DrainCheck(k) \/ DrainSend(k)
    PROVE  RetryInv'
  <1>1. CASE DrainCheck(k)
    <2>1. /\ UNCHANGED <<retry, cool, pending, asking, phase, held, orphan, sends>>
          /\ phase = "drain" /\ items' = items \ {k}
          /\ sending' \in {k, None}
          /\ Defers(k)
      BY <1>1 DEF DrainCheck, RetryInv, OnlyDeferred
    <2> QED
      BY <2>1 DEF RetryInv, Shape, OnlyDeferred, Chosen, LiveActive, Accounted
  <1>2. CASE DrainSend(k)
    <2>1. /\ UNCHANGED <<asking, phase, items, held, orphan>>
          /\ sending' = None
          /\ Defers(k)
      BY <1>2, KeyAssumption DEF DrainSend, RetryInv, Chosen
    <2>2. CASE UNCHANGED <<cool, sends, retry, pending>>
      BY <2>1, <2>2 DEF RetryInv, Shape, OnlyDeferred, Chosen, LiveActive, Accounted
    <2>3. CASE /\ Sent(k, Count(sends[k]))
               /\ retry' = [retry EXCEPT ![k] = Fresh]
               /\ pending' = pending \ {k}
      <3>1. Fresh \in Entry /\ ~Fresh.gave_up
        BY BoundAssumption DEF Fresh, Entry
      <3>2. Count(sends[k]) \in 0 .. SendCap
        BY BoundAssumption DEF RetryInv, Shape, Count
      <3>3. Shape'
        BY <2>1, <2>3, <3>1, <3>2, DelayAssumption DEF RetryInv, Shape, Sent
      <3>4. LiveActive'
        BY <2>1, <2>3, <3>1 DEF RetryInv, Shape, LiveActive
      <3>5. ASSUME NEW j \in Keys, ~Defers(j) PROVE Accounted(j)'
        <4>1. j # k
          BY <2>1, <3>5
        <4> QED
          BY <2>1, <2>3, <3>5, <4>1 DEF RetryInv, Shape, Accounted, Sent
      <3> QED
        BY <2>1, <2>3, <3>3, <3>4, <3>5 DEF RetryInv, OnlyDeferred, Chosen
    <2> QED
      BY <1>2, <2>2, <2>3 DEF DrainSend
  <1> QED
    BY <1>1, <1>2

\* An update of the due object of k by which it leaves the list.
LEMMA ReleaseKeeps ==
    ASSUME RetryInv, NEW k \in Keys, NEW st \in Entry, held[k] # "no",
           SetDue(k, st), Release(k),
           cool' \in [Keys -> Nat], sends' \in [Keys -> 0 .. SendCap],
           \A j \in Keys \ {k} : sends'[j] = sends[j],
           st.attempts <= Due(k).attempts + 1,
           sends'[k] + Due(k).attempts <= sends[k] + st.attempts,
           sending' = None,
           UNCHANGED <<asking, items>>,
           pending' \subseteq {j \in Keys : Defers(j)}
    PROVE  RetryInv'
  <1>1. held' = [held EXCEPT ![k] = "no"]
    BY DEF Release
  <1>2. CASE held[k] = "orphan"
    <2>1. orphan' = [orphan EXCEPT ![k] = st] /\ UNCHANGED retry /\ Due(k) = orphan[k]
      BY <1>2 DEF SetDue, Due
    <2>2. Shape' /\ LiveActive'
      BY <1>1, <2>1 DEF RetryInv, Shape, LiveActive
    <2>3. ASSUME NEW j \in Keys, j # k, ~Defers(j) PROVE Accounted(j)'
      BY <1>1, <2>1, <2>3 DEF RetryInv, Shape, Accounted
    <2>4. st.attempts \in 0 .. MaxAttempts /\ orphan[k].attempts \in 0 .. MaxAttempts
      BY DEF RetryInv, Shape, Entry
    <2>5. sends[k] \in Nat /\ sends'[k] \in Nat /\ MaxAttempts \in Nat
      BY BoundAssumption DEF RetryInv, Shape
    <2>6. ASSUME ~Defers(k) PROVE Accounted(k)'
      <3>0. /\ retry[k].gave_up => sends'[k] <= 2 + MaxAttempts
            /\ ~retry[k].gave_up => sends'[k] <= 2
        BY <1>2, <2>1, <2>4, <2>5, <2>6 DEF RetryInv, Accounted
      <3>1. retry'[k] = retry[k] /\ held'[k] = "no" /\ retry[k].attempts \in Nat
        BY <1>1, <2>1 DEF RetryInv, Shape, Entry
      <3> QED
        BY <2>5, <3>0, <3>1 DEF Accounted
    <2> QED
      BY <2>2, <2>3, <2>6 DEF RetryInv, OnlyDeferred, Chosen
  <1>3. CASE held[k] = "live"
    <2>1. retry' = [retry EXCEPT ![k] = st] /\ UNCHANGED orphan /\ Due(k) = retry[k]
      BY <1>3 DEF SetDue, Due
    <2>2. Shape' /\ LiveActive'
      BY <1>1, <2>1 DEF RetryInv, Shape, LiveActive
    <2>3. ASSUME NEW j \in Keys, j # k, ~Defers(j) PROVE Accounted(j)'
      BY <1>1, <2>1, <2>3 DEF RetryInv, Shape, Accounted
    <2>4. st.attempts \in 0 .. MaxAttempts /\ retry[k].attempts \in 0 .. MaxAttempts
      BY DEF RetryInv, Shape, Entry
    <2>5. sends[k] \in Nat /\ sends'[k] \in Nat /\ MaxAttempts \in Nat
      BY BoundAssumption DEF RetryInv, Shape
    <2>6. ASSUME ~Defers(k) PROVE Accounted(k)'
      <3>1. sends[k] <= 2 + retry[k].attempts
        BY <1>3, <2>6 DEF RetryInv, LiveActive, Accounted
      <3>2. sends'[k] <= 2 + st.attempts /\ sends'[k] <= 2 + MaxAttempts
        BY <2>1, <2>4, <2>5, <3>1
      <3>3. retry'[k] = st /\ held'[k] = "no"
        BY <1>1, <2>1 DEF RetryInv, Shape
      <3> QED
        BY <3>2, <3>3 DEF Accounted
    <2> QED
      BY <2>2, <2>3, <2>6 DEF RetryInv, OnlyDeferred, Chosen
  <1> QED
    BY <1>2, <1>3 DEF RetryInv, Shape

\* The due object of a listed key, and what the loop makes of it.
LEMMA DueObject ==
    ASSUME Shape, NEW k \in Keys
    PROVE  /\ Due(k) \in Entry
           /\ [Due(k) EXCEPT !.gave_up = TRUE] \in Entry
           /\ \A d \in Nat : /\ [Due(k) EXCEPT !.due = d] \in Entry
                             /\ [Due(k) EXCEPT !.due = d].attempts = Due(k).attempts
           /\ [Due(k) EXCEPT !.gave_up = TRUE].attempts = Due(k).attempts
  <1>1. Due(k) \in Entry
    BY DEF Due, Shape
  <1> QED
    BY <1>1 DEF Entry

\* One due object is looked at.
LEMMA RetryCheckKeeps ==
    ASSUME RetryInv, NEW k \in Keys, RetryCheck(k)
    PROVE  RetryInv'
  <1> DEFINE st == Due(k)
  <1>1. Shape /\ sends \in [Keys -> 0 .. SendCap] /\ cool \in [Keys -> Nat]
    BY DEF RetryInv, Shape
  <1>2. /\ st \in Entry
        /\ [st EXCEPT !.gave_up = TRUE] \in Entry
        /\ [st EXCEPT !.gave_up = TRUE].attempts = st.attempts
        /\ \A d \in Nat : /\ [st EXCEPT !.due = d] \in Entry
                          /\ [st EXCEPT !.due = d].attempts = st.attempts
    BY <1>1, DueObject
  <1>3. st.attempts \in Nat /\ sends[k] \in Nat
    BY <1>1, <1>2 DEF Entry
  <1>4. /\ phase = "retry" /\ sending = None /\ held[k] # "no"
        /\ UNCHANGED <<cool, asking, phase, items, sends>>
    BY DEF RetryCheck
  <1>5. ASSUME NEW new \in Entry, new.attempts = st.attempts, SetDue(k, new),
               Release(k), UNCHANGED sending,
               pending' \subseteq {j \in Keys : Defers(j)}
        PROVE  RetryInv'
    BY <1>1, <1>3, <1>4, <1>5, ReleaseKeeps
  <1>0. UNCHANGED pending => pending' \subseteq {j \in Keys : Defers(j)}
    BY DEF RetryInv, OnlyDeferred
  <1>6. CASE /\ SetDue(k, [st EXCEPT !.gave_up = TRUE])
             /\ Release(k)
             /\ UNCHANGED <<pending, sending>>
    BY <1>0, <1>2, <1>5, <1>6
  <1>7. CASE /\ SetDue(k, [st EXCEPT !.due = cool[k]])
             /\ Release(k)
             /\ UNCHANGED <<pending, sending>>
    BY <1>0, <1>1, <1>2, <1>5, <1>7
  <1>8. CASE /\ \E open \in Gate, factor \in {1, 2} :
                  /\ open => Defers(k) /\ factor = 1
                  /\ SetDue(k, [st EXCEPT !.due = factor * Backoff(st.attempts)])
             /\ pending' = IF Defers(k) THEN pending \cup {k} ELSE pending
             /\ Release(k)
             /\ UNCHANGED sending
    <2>1. PICK factor \in {1, 2} : SetDue(k, [st EXCEPT !.due = factor * Backoff(st.attempts)])
      BY <1>8
    <2>2. factor * Backoff(st.attempts) \in Nat
      BY <1>3, <2>1, BackoffNat
    <2>3. pending' \subseteq {j \in Keys : Defers(j)} /\ UNCHANGED sending
      BY <1>8 DEF RetryInv, OnlyDeferred
    <2> QED
      BY <1>2, <1>5, <1>8, <2>1, <2>2, <2>3
  <1>9. CASE /\ ~Exhausted(st)
             /\ sending' = k
             /\ UNCHANGED <<retry, orphan, held, pending>>
    <2>1. st.attempts < MaxAttempts
      BY <1>3, <1>9, BoundAssumption DEF Exhausted
    <2>2. Due(k)' = st
      BY <1>9 DEF Due
    <2>3. Chosen'
      BY <1>4, <1>9, <2>1, <2>2 DEF Chosen
    <2>4. Shape' /\ LiveActive' /\ OnlyDeferred'
      BY <1>4, <1>9 DEF RetryInv, Shape, LiveActive, OnlyDeferred
    <2>5. ASSUME NEW j \in Keys, ~Defers(j) PROVE Accounted(j)'
      BY <1>4, <1>9, <2>5 DEF RetryInv, Accounted
    <2> QED
      BY <2>3, <2>4, <2>5 DEF RetryInv
  <1> QED
    BY <1>6, <1>7, <1>8, <1>9 DEF RetryCheck

\* A retry is sent: one send, one attempt.
LEMMA RetrySendKeeps ==
    ASSUME RetryInv, NEW k \in Keys, RetrySend(k)
    PROVE  RetryInv'
  <1> DEFINE st == Due(k)
             new == Attempted(st)
  <1>1. Shape /\ sends \in [Keys -> 0 .. SendCap] /\ cool \in [Keys -> Nat]
    BY DEF RetryInv, Shape
  <1>2. /\ sending' = None
        /\ UNCHANGED <<pending, asking, items>>
        /\ pending' \subseteq {j \in Keys : Defers(j)}
        /\ SetDue(k, new) /\ Release(k)
    BY DEF RetrySend, RetryInv, OnlyDeferred
  <1>3. held[k] # "no" /\ st.attempts < MaxAttempts
    BY KeyAssumption DEF RetrySend, RetryInv, Chosen
  <1>4. st \in Entry /\ st.attempts \in Nat
    <2>1. st \in Entry
      BY <1>1, DueObject
    <2> QED
      BY <2>1 DEF Entry
  <1>5. new \in Entry /\ new.attempts = st.attempts + 1
    <2>1. Backoff(st.attempts + 1) \in Nat
      BY <1>4, BackoffNat
    <2>2. st.attempts + 1 \in 0 .. MaxAttempts
      BY <1>3, <1>4, BoundAssumption
    <2> QED
      BY <1>4, <2>1, <2>2 DEF Attempted, Entry
  <1>6. /\ cool' \in [Keys -> Nat]
        /\ sends' \in [Keys -> 0 .. SendCap]
        /\ \A j \in Keys \ {k} : sends'[j] = sends[j]
        /\ sends'[k] <= sends[k] + 1
    <2>1. CASE UNCHANGED <<cool, sends>>
      BY <1>1, <2>1
    <2>2. CASE Sent(k, Count(sends[k]))
      <3>1. Count(sends[k]) \in 0 .. SendCap /\ Count(sends[k]) <= sends[k] + 1
        BY <1>1, BoundAssumption DEF Count
      <3> QED
        BY <1>1, <2>2, <3>1, DelayAssumption DEF Sent
    <2> QED
      BY <2>1, <2>2 DEF RetrySend
  <1>7. sends'[k] + st.attempts <= sends[k] + new.attempts
    <2>1. sends[k] \in Nat /\ sends'[k] \in Nat
      BY <1>1, <1>6
    <2> QED
      BY <1>4, <1>5, <1>6, <2>1
  <1> HIDE DEF st, new
  <1>8. st = Due(k)
    BY DEF st
  <1> QED
    BY <1>2, <1>3, <1>4, <1>5, <1>6, <1>7, <1>8, ReleaseKeeps

\* An answer drops the entries of a channel.
LEMMA SyncAppliedKeeps ==
    ASSUME RetryInv, NEW c, SyncApplied(c)
    PROVE  RetryInv'
  <1> DEFINE gone == {k \in Keys : Channel[k] = c}
  <1>1. /\ retry' = [k \in Keys |-> IF k \in gone THEN NoRetry ELSE retry[k]]
        /\ held' = [k \in Keys |->
                      IF k \in gone /\ held[k] = "live" THEN "orphan" ELSE held[k]]
        /\ orphan' = [k \in Keys |->
                        IF k \in gone /\ held[k] = "live" THEN retry[k] ELSE orphan[k]]
        /\ UNCHANGED <<cool, pending, asking, phase, items, sending, sends>>
    BY DEF SyncApplied
  <1> HIDE DEF gone
  <1>2. NoRetry \in Entry /\ NoRetry.gave_up /\ NoRetry.attempts = 0
    BY BoundAssumption DEF NoRetry, Entry
  <1>3. Shape'
    BY <1>1, <1>2 DEF RetryInv, Shape
  <1>4. LiveActive' /\ OnlyDeferred'
    BY <1>1 DEF RetryInv, LiveActive, OnlyDeferred
  <1>5. Chosen'
    BY <1>1 DEF RetryInv, Shape, Chosen, Due
  <1>6. ASSUME NEW k \in Keys, ~Defers(k) PROVE Accounted(k)'
    <2>1. /\ sends[k] \in Nat
          /\ retry[k].attempts \in 0 .. MaxAttempts
          /\ orphan[k].attempts \in 0 .. MaxAttempts
          /\ MaxAttempts \in Nat
      BY BoundAssumption DEF RetryInv, Shape, Entry
    <2>2. CASE k \notin gone
      BY <1>1, <1>6, <2>2 DEF RetryInv, Accounted
    <2>3. CASE k \in gone /\ held[k] = "live"
      BY <1>1, <1>2, <1>6, <2>1, <2>3 DEF RetryInv, LiveActive, Accounted
    <2>4. CASE k \in gone /\ held[k] # "live"
      BY <1>1, <1>2, <1>6, <2>1, <2>4 DEF RetryInv, Accounted
    <2> QED
      BY <2>2, <2>3, <2>4
  <1> QED
    BY <1>3, <1>4, <1>5, <1>6 DEF RetryInv

\* Every step keeps the accounts.
LEMMA RetryStep == RetryInv /\ [Next]_vars => RetryInv'
  <1> SUFFICES ASSUME RetryInv, [Next]_vars
               PROVE  RetryInv'
    OBVIOUS
  <1>1. ASSUME NEW t \in Askers, NEW k \in Keys, Request(t, k) PROVE RetryInv'
    BY <1>1, RequestKeeps
  <1>2. ASSUME NEW t \in Askers, RequestSend(t) PROVE RetryInv'
    BY <1>2, RequestSendKeeps
  <1>3. CASE Tick
    BY <1>3, TickKeeps
  <1>4. CASE DrainSnapshot \/ Collect \/ PassDone
    BY <1>4, ListKeeps
  <1>5. ASSUME NEW k \in Keys, DrainCheck(k) \/ DrainSend(k) PROVE RetryInv'
    BY <1>5, DrainKeeps
  <1>6. ASSUME NEW k \in Keys, RetryCheck(k) PROVE RetryInv'
    BY <1>6, RetryCheckKeeps
  <1>7. ASSUME NEW k \in Keys, RetrySend(k) PROVE RetryInv'
    BY <1>7, RetrySendKeeps
  <1>8. ASSUME NEW c, SyncApplied(c) PROVE RetryInv'
    BY <1>8, SyncAppliedKeeps
  <1>9. CASE UNCHANGED vars
    BY <1>9 DEF vars, loopVars, RetryInv, Shape, OnlyDeferred, Chosen, LiveActive,
                Accounted, Due
  <1> QED
    BY <1>1, <1>2, <1>3, <1>4, <1>5, <1>6, <1>7, <1>8, <1>9 DEF Next, LoopStep

\* The accounts bound the sends.
LEMMA RetryInvBounds == RetryInv => BoundedRetries
  <1> SUFFICES ASSUME RetryInv, NEW k \in Keys, ~Defers(k)
               PROVE  sends[k] <= MaxAttempts + 2
    BY DEF BoundedRetries
  <1>1. /\ sends[k] \in Nat
        /\ retry[k].attempts \in 0 .. MaxAttempts
        /\ orphan[k].attempts \in 0 .. MaxAttempts
        /\ MaxAttempts \in Nat
    BY BoundAssumption DEF RetryInv, Shape, Entry
  <1> QED
    BY <1>1 DEF RetryInv, Accounted

\* On a channel whose policy does not defer, every explicit request leads to
\* at most MaxAttempts + 2 sync requests on the air, whatever the threads of
\* mesh_backend.py interleave.
THEOREM RetriesBounded == Spec => []BoundedRetries
  <1>1. Init => RetryInv
    BY RetryInit
  <1>2. RetryInv /\ [Next]_vars => RetryInv'
    BY RetryStep
  <1>3. RetryInv => BoundedRetries
    BY RetryInvBounds
  <1> QED
    BY <1>1, <1>2, <1>3, PTL DEF Spec

-----------------------------------------------------------------------------
(* Types, and the cooldown.                                                *)

\* The rest of the types: the requests made, and where the loop is.
Progress == asks \in 0 .. MaxAsks /\ phase \in {"sleep", "awake", "drain", "retry"}

\* Who has cleared a key for sending saw its cooldown over; since then no tick has passed.
Cleared(k) == sending = k \/ \E t \in Askers : asking[t] = k
Cooling == /\ cool \in [Keys -> 0 .. MinInterval]
           /\ \A k \in Keys : Cleared(k) => cool[k] \in {0, MinInterval}

TypeInv == RetryInv /\ Progress /\ Cooling

\* What a step of the scheduler does to sends and cooldown of a key.
KeepsCooldown(k) == sends'[k] > sends[k] \/ cool'[k] > cool[k] => cool[k] \in {0, MinInterval}

\* A step that sends nothing and clears at most keys whose cooldown is over.
LEMMA NothingSent ==
    ASSUME TypeInv, UNCHANGED cool,
           \A k \in Keys : sends'[k] = sends[k] \/ sends'[k] = 0,
           \A k \in Keys : Cleared(k)' => Cleared(k) \/ cool[k] = 0
    PROVE  Cooling' /\ \A k \in Keys : KeepsCooldown(k)
  <1>1. Cooling'
    BY DEF TypeInv, Cooling
  <1>2. ASSUME NEW k \in Keys PROVE KeepsCooldown(k)
    <2>1. sends[k] \in Nat /\ cool[k] \in 0 .. MinInterval
      BY DEF TypeInv, RetryInv, Shape, Cooling
    <2> QED
      BY <2>1, DelayAssumption DEF KeepsCooldown
  <1> QED
    BY <1>1, <1>2

\* A step that sends for a key it had cleared, or fails to.
LEMMA ClearedSent ==
    ASSUME TypeInv, NEW k \in Keys, Cleared(k), NEW n, Sent(k, n) \/ UNCHANGED <<cool, sends>>,
           \A j \in Keys : Cleared(j)' => Cleared(j)
    PROVE  Cooling' /\ \A j \in Keys : KeepsCooldown(j)
  <1>1. /\ cool \in [Keys -> 0 .. MinInterval] /\ sends \in [Keys -> 0 .. SendCap]
        /\ cool[k] \in {0, MinInterval}
    BY DEF TypeInv, RetryInv, Shape, Cooling
  <1>2. CASE UNCHANGED <<cool, sends>>
    BY <1>2, NothingSent
  <1>3. CASE Sent(k, n)
    <2>1. cool' = [cool EXCEPT ![k] = MinInterval] /\ sends' = [sends EXCEPT ![k] = n]
      BY <1>3 DEF Sent
    <2>2. Cooling'
      BY <1>1, <2>1, DelayAssumption DEF TypeInv, Cooling
    <2>3. ASSUME NEW j \in Keys PROVE KeepsCooldown(j)
      <3>1. CASE j = k
        BY <1>1, <3>1 DEF KeepsCooldown
      <3>2. CASE j # k
        <4>1. sends'[j] = sends[j] /\ cool'[j] = cool[j]
          BY <1>1, <2>1, <3>2
        <4>2. sends[j] \in Nat /\ cool[j] \in Nat
          BY <1>1, DelayAssumption
        <4> QED
          BY <4>1, <4>2 DEF KeepsCooldown
      <3> QED
        BY <3>1, <3>2
    <2> QED
      BY <2>2, <2>3
  <1> QED
    BY <1>2, <1>3

\* Every step keeps the types and the cooldown.
LEMMA TypeStep ==
    ASSUME TypeInv, [Next]_vars
    PROVE  TypeInv' /\ \A k \in Keys : KeepsCooldown(k)
  <1>0. /\ RetryInv' /\ RetryInv /\ Shape /\ asking \in [Askers -> Keys \cup {None}]
        /\ sends \in [Keys -> 0 .. SendCap] /\ cool \in [Keys -> 0 .. MinInterval]
    BY RetryStep DEF TypeInv, RetryInv, Shape, Cooling
  <1> SUFFICES Progress' /\ Cooling' /\ \A k \in Keys : KeepsCooldown(k)
    BY <1>0 DEF TypeInv
  <1>1. ASSUME NEW t \in Askers, NEW k \in Keys, Request(t, k)
        PROVE  Progress' /\ Cooling' /\ \A j \in Keys : KeepsCooldown(j)
    <2>1. /\ cool[k] = 0 /\ UNCHANGED <<cool, sending, phase>>
          /\ asks < MaxAsks /\ asks' = asks + 1
          /\ asking' = asking \/ asking' = [asking EXCEPT ![t] = k]
          /\ sends' = sends \/ sends' = [sends EXCEPT ![k] = 0]
      BY <1>1 DEF Request, loopVars
    <2>2. Progress'
      BY <2>1, BoundAssumption DEF TypeInv, Progress
    <2>3. \A j \in Keys : Cleared(j)' => Cleared(j) \/ cool[j] = 0
      BY <1>0, <2>1 DEF Cleared
    <2>4. \A j \in Keys : sends'[j] = sends[j] \/ sends'[j] = 0
      BY <1>0, <2>1
    <2> QED
      BY <2>1, <2>2, <2>3, <2>4, NothingSent
  <1>2. ASSUME NEW t \in Askers, RequestSend(t)
        PROVE  Progress' /\ Cooling' /\ \A j \in Keys : KeepsCooldown(j)
    <2>1. PICK k : k = asking[t]
      OBVIOUS
    <2>2. /\ k # None /\ asking' = [asking EXCEPT ![t] = None]
          /\ Sent(k, 1) \/ UNCHANGED <<cool, sends>>
          /\ UNCHANGED <<sending, phase, asks>>
      BY <1>2, <2>1 DEF RequestSend, loopVars
    <2>3. k \in Keys /\ Cleared(k)
      BY <1>0, <2>1, <2>2 DEF Cleared
    <2>4. \A j \in Keys : Cleared(j)' => Cleared(j)
      BY <1>0, <2>2, KeyAssumption DEF Cleared
    <2>5. Progress'
      BY <2>2 DEF TypeInv, Progress
    <2> QED
      BY <2>2, <2>3, <2>4, <2>5, ClearedSent
  <1>3. CASE Tick
    <2>1. /\ phase = "sleep" /\ phase' = "awake" /\ \A t \in Askers : asking[t] = None
          /\ cool' = [k \in Keys |-> IF cool[k] > 0 THEN cool[k] - 1 ELSE 0]
          /\ UNCHANGED <<asking, sending, asks, sends>>
      BY <1>3 DEF Tick
    <2>2. sending = None
      BY <1>0, <2>1 DEF RetryInv, Chosen
    <2>3. \A k \in Keys : ~Cleared(k)'
      BY <2>1, <2>2, KeyAssumption DEF Cleared
    <2>4. \A k \in Keys : cool[k] \in 0 .. MinInterval /\ sends[k] \in Nat
      BY <1>0
    <2>5. \A k \in Keys : cool'[k] \in 0 .. MinInterval /\ cool'[k] <= cool[k] /\ sends'[k] = sends[k]
      BY <2>1, <2>4, DelayAssumption
    <2>6. Cooling'
      BY <2>1, <2>3, <2>5 DEF Cooling
    <2>7. \A k \in Keys : KeepsCooldown(k)
      BY <2>4, <2>5, DelayAssumption DEF KeepsCooldown
    <2> QED
      BY <2>1, <2>6, <2>7 DEF TypeInv, Progress
  <1>4. CASE DrainSnapshot \/ Collect \/ PassDone
    <2>1. UNCHANGED <<cool, asking, sending, asks, sends>> /\ phase' \in {"sleep", "awake", "drain", "retry"}
      BY <1>4 DEF DrainSnapshot, Collect, PassDone
    <2>2. \A k \in Keys : Cleared(k)' => Cleared(k)
      BY <2>1 DEF Cleared
    <2> QED
      BY <2>1, <2>2, NothingSent DEF TypeInv, Progress
  <1>5. ASSUME NEW k \in Keys, DrainCheck(k)
        PROVE  Progress' /\ Cooling' /\ \A j \in Keys : KeepsCooldown(j)
    <2>1. /\ UNCHANGED <<cool, asking, phase, asks, sends>>
          /\ sending' = None \/ (sending' = k /\ cool[k] = 0)
      BY <1>5 DEF DrainCheck
    <2>2. \A j \in Keys : Cleared(j)' => Cleared(j) \/ cool[j] = 0
      BY <2>1, KeyAssumption DEF Cleared
    <2> QED
      BY <2>1, <2>2, NothingSent DEF TypeInv, Progress
  <1>6. ASSUME NEW k \in Keys, RetryCheck(k)
        PROVE  Progress' /\ Cooling' /\ \A j \in Keys : KeepsCooldown(j)
    <2>1. /\ UNCHANGED <<cool, asking, phase, asks, sends>>
          /\ sending' = sending \/ (sending' = k /\ cool[k] = 0)
      BY <1>6 DEF RetryCheck
    <2>2. \A j \in Keys : Cleared(j)' => Cleared(j) \/ cool[j] = 0
      BY <2>1 DEF Cleared
    <2> QED
      BY <2>1, <2>2, NothingSent DEF TypeInv, Progress
  <1>7. ASSUME NEW k \in Keys, DrainSend(k) \/ RetrySend(k)
        PROVE  Progress' /\ Cooling' /\ \A j \in Keys : KeepsCooldown(j)
    <2>1. /\ sending = k /\ sending' = None
          /\ Sent(k, Count(sends[k])) \/ UNCHANGED <<cool, sends>>
          /\ UNCHANGED <<asking, phase, asks>>
      BY <1>7 DEF DrainSend, RetrySend
    <2>2. Cleared(k) /\ \A j \in Keys : Cleared(j)' => Cleared(j)
      BY <2>1, KeyAssumption DEF Cleared
    <2> QED
      BY <2>1, <2>2, ClearedSent DEF TypeInv, Progress
  <1>8. ASSUME NEW c, SyncApplied(c)
        PROVE  Progress' /\ Cooling' /\ \A j \in Keys : KeepsCooldown(j)
    <2>1. UNCHANGED <<cool, asking, phase, sending, asks, sends>>
      BY <1>8 DEF SyncApplied
    <2>2. \A k \in Keys : Cleared(k)' => Cleared(k)
      BY <2>1 DEF Cleared
    <2> QED
      BY <2>1, <2>2, NothingSent DEF TypeInv, Progress
  <1>9. CASE UNCHANGED vars
    <2>1. UNCHANGED <<cool, asking, phase, sending, asks, sends>>
      BY <1>9 DEF vars, loopVars
    <2>2. \A k \in Keys : Cleared(k)' => Cleared(k)
      BY <2>1 DEF Cleared
    <2> QED
      BY <2>1, <2>2, NothingSent DEF TypeInv, Progress
  <1> QED
    BY <1>1, <1>2, <1>3, <1>4, <1>5, <1>6, <1>7, <1>8, <1>9 DEF Next, LoopStep

\* At the start nobody has cleared anything.
LEMMA TypeInit == Init => TypeInv
  <1> SUFFICES ASSUME Init PROVE TypeInv
    OBVIOUS
  <1>1. RetryInv
    BY RetryInit
  <1>2. Progress
    BY BoundAssumption DEF Init, Progress
  <1>3. Cooling
    BY DelayAssumption DEF Init, Cooling
  <1> QED
    BY <1>1, <1>2, <1>3 DEF TypeInv

\* The invariant of the scheduler, for any peers, channels and requesting threads.
LEMMA TypeInvariant == Spec => []TypeInv
  <1>1. TypeInv /\ [Next]_vars => TypeInv'
    BY TypeStep
  <1> QED
    BY <1>1, TypeInit, PTL DEF Spec

\* The tables of the scheduler keep their types; in particular no entry of _sync_retry
\* counts more attempts than the limit of _sync_retry_loop, and none waits for a
\* negative time, whatever power of 2 _compute_backoff_seconds takes.
THEOREM TypeCorrect == Spec => []TypeOK
  <1>1. TypeInv => TypeOK
    BY DEF TypeInv, RetryInv, Shape, OnlyDeferred, Progress, TypeOK
  <1> QED
    BY <1>1, TypeInvariant, PTL

\* A sync request leaves when the cooldown of its key is over, or within the tick in which
\* another one for the key left that was checked before: request_sync_for_channel,
\* _drain_pending_sync and _sync_retry_loop check and send without a lock.
THEOREM CooldownKept == Spec => CooldownHolds
  <1>1. TypeInv /\ [Next]_vars =>
          [\A k \in Keys : sends'[k] > sends[k] \/ cool'[k] > cool[k]
                               => cool[k] \in {0, MinInterval}]_vars
    BY TypeStep DEF KeepsCooldown
  <1> QED
    BY <1>1, TypeInvariant, PTL DEF Spec, CooldownHolds

=============================================================================
