------------------------- MODULE PluginEventsProofs -------------------------
(***************************************************************************)
(* Proof that no plugin is passed over, for any plugins, handlers, length  *)
(* of the queue, and number and order of events, exceptions and stops.     *)
(***************************************************************************)
EXTENDS PluginEvents, TLAPS

\* Events that are ever in the queue, the mark of stop() included.
Event == [name : DOMAIN Fields \cup {STOP.name}, no : Nat]

Shape ==
    /\ queue \in Seq(Event)
    /\ events \in Nat
    /\ owed \in [Loaded -> Seq(Event)]
    /\ worker \in [event : Event \cup {None}, calls : Seq(Loaded)]
    /\ running => Plugins # <<>>

\* The worker has an event in hand exactly while plugins are to be called for
\* it, and calls no plugin twice for it.
InHand ==
    /\ worker # Waiting => worker.event \in Event /\ worker.calls # <<>>
    /\ IsInjective(worker.calls)

\* What plugin p may still get.
Coming(p) == IF Contains(worker.calls, p) THEN <<worker.event>> \o queue ELSE queue

\* PluginsServed, in these words.
Served == \A p \in Loaded : IsWantedPart(p, Coming(p), owed[p])

ServedInv == Shape /\ InHand /\ Served

-----------------------------------------------------------------------------
(***************************************************************************)
(* What a plugin handles of a sequence, when the sequence grows at its end *)
(* and is taken from at its head.                                          *)
(***************************************************************************)

\* An event that p handles goes to the end of both.
LEMMA AppendWanted ==
    ASSUME NEW p, NEW S, NEW es \in Seq(S), NEW part \in Seq(S), NEW e \in S,
           IsWantedPart(p, es, part), Wants(p, e)
    PROVE  IsWantedPart(p, Append(es, e), Append(part, e))
<1> PICK at \in [1 .. Len(part) -> 1 .. Len(es)] : Picks(p, es, part, at)
  BY DEF IsWantedPart
<1>1. /\ \A i, j \in 1 .. Len(part) : i < j => at[i] < at[j]
      /\ \A i \in 1 .. Len(part) : part[i] = es[at[i]]
      /\ \A k \in 1 .. Len(es) : Wants(p, es[k]) <=> \E i \in 1 .. Len(part) : at[i] = k
  BY DEF Picks
<1> PICK fs, rest, L, M : /\ fs = Append(es, e) /\ rest = Append(part, e)
                          /\ L = Len(part) /\ M = Len(es)
  OBVIOUS
<1>2. /\ L \in Nat /\ M \in Nat /\ Len(rest) = L + 1 /\ Len(fs) = M + 1
      /\ rest[L + 1] = e /\ fs[M + 1] = e
      /\ \A i \in 1 .. L : rest[i] = part[i]
      /\ \A k \in 1 .. M : fs[k] = es[k]
  OBVIOUS
<1> DEFINE to == [i \in 1 .. L + 1 |-> IF i = L + 1 THEN M + 1 ELSE at[i]]
<1>3. /\ \A i \in 1 .. L : to[i] = at[i] /\ at[i] \in 1 .. M
      /\ to[L + 1] = M + 1
      /\ \A i \in 1 .. L + 1 : i \in 1 .. L \/ i = L + 1
      /\ \A k \in 1 .. M + 1 : k \in 1 .. M \/ k = M + 1
  <2>1. ASSUME NEW i \in 1 .. L PROVE to[i] = at[i] /\ at[i] \in 1 .. M
    <3>1. i \in 1 .. L + 1 /\ i # L + 1 BY <1>2
    <3> QED BY <3>1
  <2>2. L + 1 \in 1 .. L + 1 BY <1>2
  <2>3. to[L + 1] = M + 1 BY <2>2
  <2>4. /\ \A i \in 1 .. L + 1 : i \in 1 .. L \/ i = L + 1
        /\ \A k \in 1 .. M + 1 : k \in 1 .. M \/ k = M + 1
    BY <1>2
  <2> HIDE DEF to
  <2> QED BY <2>1, <2>3, <2>4
<1>4. to \in [1 .. L + 1 -> 1 .. M + 1]
  BY <1>2, <1>3
<1> HIDE DEF to
<1>5. ASSUME NEW i \in 1 .. L + 1, NEW j \in 1 .. L + 1, i < j PROVE to[i] < to[j]
  <2>1. i \in 1 .. L BY <1>2, <1>5
  <2>2. CASE j \in 1 .. L BY <1>1, <1>3, <1>5, <2>1, <2>2
  <2>3. CASE j = L + 1 BY <1>2, <1>3, <2>1, <2>3
  <2> QED BY <1>3, <2>2, <2>3
<1>6. ASSUME NEW i \in 1 .. L + 1 PROVE rest[i] = fs[to[i]]
  <2>1. CASE i \in 1 .. L BY <1>1, <1>2, <1>3, <2>1
  <2>2. CASE i = L + 1 BY <1>2, <1>3, <2>2
  <2> QED BY <1>3, <2>1, <2>2
<1>7. ASSUME NEW k \in 1 .. M + 1
      PROVE  Wants(p, fs[k]) <=> \E i \in 1 .. L + 1 : to[i] = k
  <2>1. CASE k \in 1 .. M
    <3>1. Wants(p, fs[k]) <=> \E i \in 1 .. L : at[i] = k BY <1>1, <1>2, <2>1
    <3>2. k # M + 1 BY <1>2, <2>1
    <3>3. \A i \in 1 .. L : i \in 1 .. L + 1 BY <1>2
    <3> QED BY <1>3, <3>1, <3>2, <3>3
  <2>2. CASE k = M + 1
    <3>1. L + 1 \in 1 .. L + 1 BY <1>2
    <3> QED BY <1>2, <1>3, <2>2, <3>1
  <2> QED BY <1>3, <2>1, <2>2
<1>8. Picks(p, fs, rest, to) BY <1>2, <1>5, <1>6, <1>7 DEF Picks
<1> QED BY <1>2, <1>4, <1>8 DEF IsWantedPart

\* An event that p does not handle changes nothing for p.
LEMMA AppendOther ==
    ASSUME NEW p, NEW S, NEW es \in Seq(S), NEW part, Len(part) \in Nat, NEW e \in S,
           IsWantedPart(p, es, part), ~Wants(p, e)
    PROVE  IsWantedPart(p, Append(es, e), part)
<1> PICK at \in [1 .. Len(part) -> 1 .. Len(es)] : Picks(p, es, part, at)
  BY DEF IsWantedPart
<1>1. /\ \A i, j \in 1 .. Len(part) : i < j => at[i] < at[j]
      /\ \A i \in 1 .. Len(part) : part[i] = es[at[i]]
      /\ \A k \in 1 .. Len(es) : Wants(p, es[k]) <=> \E i \in 1 .. Len(part) : at[i] = k
  BY DEF Picks
<1> PICK fs, M : fs = Append(es, e) /\ M = Len(es)
  OBVIOUS
<1>2. /\ M \in Nat /\ Len(fs) = M + 1 /\ fs[M + 1] = e
      /\ \A k \in 1 .. M : fs[k] = es[k]
      /\ \A k \in 1 .. M + 1 : k \in 1 .. M \/ k = M + 1
  OBVIOUS
<1>3. at \in [1 .. Len(part) -> 1 .. M + 1] BY <1>2
<1>4. \A i \in 1 .. Len(part) : part[i] = fs[at[i]] BY <1>1, <1>2
<1>5. ASSUME NEW k \in 1 .. M + 1
      PROVE  Wants(p, fs[k]) <=> \E i \in 1 .. Len(part) : at[i] = k
  <2>1. CASE k \in 1 .. M BY <1>1, <1>2, <2>1
  <2>2. CASE k = M + 1
    <3>1. \A i \in 1 .. Len(part) : at[i] # k BY <1>2, <2>2
    <3> QED BY <1>2, <2>2, <3>1
  <2> QED BY <1>2, <2>1, <2>2
<1>6. Picks(p, fs, part, at) BY <1>1, <1>2, <1>4, <1>5 DEF Picks
<1> QED BY <1>2, <1>3, <1>6 DEF IsWantedPart

\* Taking away the head that p handles takes away the head of its part.
LEMMA TailWanted ==
    ASSUME NEW p, NEW S, NEW es \in Seq(S), NEW part \in Seq(S), es # <<>>,
           IsWantedPart(p, es, part), Wants(p, es[1])
    PROVE  part # <<>> /\ IsWantedPart(p, Tail(es), Tail(part))
<1> PICK at \in [1 .. Len(part) -> 1 .. Len(es)] : Picks(p, es, part, at)
  BY DEF IsWantedPart
<1>1. /\ \A i, j \in 1 .. Len(part) : i < j => at[i] < at[j]
      /\ \A i \in 1 .. Len(part) : part[i] = es[at[i]]
      /\ \A k \in 1 .. Len(es) : Wants(p, es[k]) <=> \E i \in 1 .. Len(part) : at[i] = k
  BY DEF Picks
<1> PICK fs, rest, L, M : /\ fs = Tail(es) /\ rest = Tail(part)
                          /\ L = Len(part) /\ M = Len(es)
  OBVIOUS
<1>2. L \in Nat /\ M \in Nat /\ M >= 1 OBVIOUS
<1>3. PICK h \in 1 .. L : at[h] = 1 BY <1>1, <1>2
<1>4. L >= 1 /\ at[1] = 1
  <2>1. L >= 1 BY <1>2, <1>3
  <2>2. CASE h = 1 BY <1>3, <2>1, <2>2
  <2>3. CASE h # 1
    <3>1. 1 \in 1 .. L /\ 1 < h BY <1>2, <1>3, <2>3
    <3>2. at[1] < at[h] /\ at[1] \in 1 .. M BY <1>1, <3>1
    <3> QED BY <1>2, <1>3, <3>2
  <2> QED BY <2>1, <2>2, <2>3
<1>5. part # <<>> BY <1>4
<1>6. /\ Len(rest) = L - 1 /\ Len(fs) = M - 1
      /\ \A i \in 1 .. L - 1 : rest[i] = part[i + 1]
      /\ \A k \in 1 .. M - 1 : fs[k] = es[k + 1]
  BY <1>2, <1>5
<1> DEFINE to == [i \in 1 .. L - 1 |-> at[i + 1] - 1]
<1>7. ASSUME NEW i \in 1 .. L - 1
      PROVE  /\ i + 1 \in 1 .. L /\ 1 \in 1 .. L /\ to[i] = at[i + 1] - 1
             /\ at[i + 1] \in 1 .. M /\ to[i] \in 1 .. M - 1
  <2>1. i + 1 \in 1 .. L /\ 1 \in 1 .. L /\ 1 < i + 1 BY <1>2, <1>4
  <2>2. at[1] < at[i + 1] /\ at[i + 1] \in 1 .. M BY <1>1, <2>1
  <2> QED BY <1>2, <1>4, <2>1, <2>2
<1>8. to \in [1 .. L - 1 -> 1 .. M - 1] BY <1>7
<1> HIDE DEF to
<1>9. ASSUME NEW i \in 1 .. L - 1, NEW j \in 1 .. L - 1, i < j PROVE to[i] < to[j]
  <2>1. at[i + 1] < at[j + 1] BY <1>1, <1>2, <1>7, <1>9
  <2> QED BY <1>2, <1>7, <2>1
<1>10. ASSUME NEW i \in 1 .. L - 1 PROVE rest[i] = fs[to[i]]
  <2>1. part[i + 1] = es[at[i + 1]] BY <1>1, <1>7
  <2>2. to[i] + 1 = at[i + 1] BY <1>2, <1>7
  <2> QED BY <1>6, <1>7, <2>1, <2>2
<1>11. ASSUME NEW k \in 1 .. M - 1
       PROVE  Wants(p, fs[k]) <=> \E i \in 1 .. L - 1 : to[i] = k
  <2>1. k + 1 \in 1 .. M /\ k + 1 # 1 BY <1>2
  <2>2. Wants(p, fs[k]) <=> \E i \in 1 .. L : at[i] = k + 1 BY <1>1, <1>6, <2>1
  <2>3. ASSUME NEW i \in 1 .. L, at[i] = k + 1 PROVE \E j \in 1 .. L - 1 : to[j] = k
    <3>1. i # 1 BY <1>4, <2>1, <2>3
    <3>2. i - 1 \in 1 .. L - 1 /\ (i - 1) + 1 = i BY <1>2, <3>1
    <3>3. to[i - 1] = k BY <1>7, <2>3, <3>2
    <3> QED BY <3>2, <3>3
  <2>4. ASSUME NEW i \in 1 .. L - 1, to[i] = k PROVE \E j \in 1 .. L : at[j] = k + 1
    <3>1. at[i + 1] = k + 1 BY <1>2, <1>7, <2>4
    <3> QED BY <1>7, <3>1
  <2> QED BY <2>2, <2>3, <2>4
<1>12. Picks(p, fs, rest, to) BY <1>6, <1>9, <1>10, <1>11 DEF Picks
<1> QED BY <1>5, <1>6, <1>8, <1>12 DEF IsWantedPart

\* Taking away a head that p does not handle changes nothing for p.
LEMMA TailOther ==
    ASSUME NEW p, NEW S, NEW es \in Seq(S), NEW part, Len(part) \in Nat, es # <<>>,
           IsWantedPart(p, es, part), ~Wants(p, es[1])
    PROVE  IsWantedPart(p, Tail(es), part)
<1> PICK at \in [1 .. Len(part) -> 1 .. Len(es)] : Picks(p, es, part, at)
  BY DEF IsWantedPart
<1>1. /\ \A i, j \in 1 .. Len(part) : i < j => at[i] < at[j]
      /\ \A i \in 1 .. Len(part) : part[i] = es[at[i]]
      /\ \A k \in 1 .. Len(es) : Wants(p, es[k]) <=> \E i \in 1 .. Len(part) : at[i] = k
  BY DEF Picks
<1> PICK fs, L, M : fs = Tail(es) /\ L = Len(part) /\ M = Len(es)
  OBVIOUS
<1>2. /\ L \in Nat /\ M \in Nat /\ M >= 1 /\ Len(fs) = M - 1
      /\ \A k \in 1 .. M - 1 : fs[k] = es[k + 1]
  OBVIOUS
<1> DEFINE to == [i \in 1 .. L |-> at[i] - 1]
<1>3. ASSUME NEW i \in 1 .. L
      PROVE  to[i] = at[i] - 1 /\ at[i] \in 1 .. M /\ to[i] \in 1 .. M - 1
  <2>1. at[i] \in 1 .. M OBVIOUS
  <2>2. at[i] # 1 BY <1>1, <1>2
  <2> QED BY <1>2, <2>1, <2>2
<1>4. to \in [1 .. L -> 1 .. M - 1] BY <1>3
<1> HIDE DEF to
<1>5. ASSUME NEW i \in 1 .. L, NEW j \in 1 .. L, i < j PROVE to[i] < to[j]
  BY <1>1, <1>2, <1>3, <1>5
<1>6. ASSUME NEW i \in 1 .. L PROVE part[i] = fs[to[i]]
  <2>1. to[i] + 1 = at[i] BY <1>2, <1>3
  <2> QED BY <1>1, <1>2, <1>3, <2>1
<1>7. ASSUME NEW k \in 1 .. M - 1
      PROVE  Wants(p, fs[k]) <=> \E i \in 1 .. L : to[i] = k
  <2>1. k + 1 \in 1 .. M BY <1>2
  <2>2. Wants(p, fs[k]) <=> \E i \in 1 .. L : at[i] = k + 1 BY <1>1, <1>2, <2>1
  <2>3. \A i \in 1 .. L : at[i] = k + 1 <=> to[i] = k BY <1>2, <1>3
  <2> QED BY <2>2, <2>3
<1>8. Picks(p, fs, part, to) BY <1>2, <1>5, <1>6, <1>7 DEF Picks
<1> QED BY <1>2, <1>4, <1>8 DEF IsWantedPart

\* An event put in front of a sequence.
LEMMA InFront ==
    ASSUME NEW S, NEW q \in Seq(S), NEW e \in S
    PROVE  /\ <<e>> \o q \in Seq(S) /\ <<e>> \o q # <<>> /\ (<<e>> \o q)[1] = e
           /\ Tail(<<e>> \o q) = q
           /\ \A x \in S : Append(<<e>> \o q, x) = <<e>> \o Append(q, x)
<1>1. <<e>> \o q \in Seq(S) /\ Len(<<e>> \o q) = Len(q) + 1 /\ Len(q) \in Nat OBVIOUS
<1>2. <<e>> \o q # <<>> /\ (<<e>> \o q)[1] = e BY <1>1
<1>3. Tail(<<e>> \o q) = q BY <1>1
<1>4. \A x \in S : Append(<<e>> \o q, x) = <<e>> \o Append(q, x) BY <1>1
<1> QED BY <1>1, <1>2, <1>3, <1>4

\* A sequence is its head in front of its tail.
LEMMA HeadTail ==
    ASSUME NEW S, NEW q \in Seq(S), q # <<>>
    PROVE  /\ Head(q) \in S /\ Tail(q) \in Seq(S) /\ Head(q) = q[1]
           /\ <<Head(q)>> \o Tail(q) = q
OBVIOUS

\* Whatever is in a sequence without repetitions besides its head is in its tail.
LEMMA TailHolds ==
    ASSUME NEW S, NEW q \in Seq(S), q # <<>>, IsInjective(q)
    PROVE  /\ Tail(q) \in Seq(S) /\ IsInjective(Tail(q))
           /\ Len(q) = 1 => Tail(q) = <<>>
           /\ Len(q) # 1 => Tail(q) # <<>>
           /\ Contains(q, Head(q)) /\ ~Contains(Tail(q), Head(q))
           /\ \A x : x # Head(q) => (Contains(Tail(q), x) <=> Contains(q, x))
<1> PICK L, r : L = Len(q) /\ r = Tail(q) OBVIOUS
<1>1. /\ L \in Nat /\ L >= 1 /\ r \in Seq(S) /\ Len(r) = L - 1
      /\ \A i \in 1 .. L - 1 : r[i] = q[i + 1]
      /\ Head(q) = q[1] /\ DOMAIN q = 1 .. L /\ DOMAIN r = 1 .. L - 1
  OBVIOUS
<1>2. \A i, j \in 1 .. L : q[i] = q[j] => i = j BY <1>1 DEF IsInjective
<1>3. \A i \in 1 .. L - 1 : i + 1 \in 1 .. L /\ i + 1 # 1 BY <1>1
<1>4. IsInjective(r)
  <2> SUFFICES ASSUME NEW i \in 1 .. L - 1, NEW j \in 1 .. L - 1, r[i] = r[j] PROVE i = j
    BY <1>1 DEF IsInjective
  <2>1. i + 1 = j + 1 BY <1>1, <1>2, <1>3
  <2> QED BY <1>1, <2>1
<1>5. L = 1 => r = <<>> BY <1>1
<1>6. L # 1 => r # <<>>
  <2>1. Len(<<>>) = 0 OBVIOUS
  <2>2. L # 1 => Len(r) # 0 BY <1>1
  <2> QED BY <2>1, <2>2
<1>7. Contains(q, Head(q)) BY <1>1 DEF Contains
<1>8. ~Contains(r, Head(q)) BY <1>1, <1>2, <1>3 DEF Contains
<1>9. ASSUME NEW x, x # Head(q) PROVE Contains(r, x) <=> Contains(q, x)
  <2>1. ASSUME Contains(q, x) PROVE Contains(r, x)
    <3>1. PICK i \in 1 .. L : q[i] = x BY <2>1 DEF Contains
    <3>2. i - 1 \in 1 .. L - 1 /\ (i - 1) + 1 = i BY <1>1, <1>9, <3>1
    <3>3. r[i - 1] = x BY <1>1, <3>1, <3>2
    <3> QED BY <1>1, <3>2, <3>3 DEF Contains
  <2>2. ASSUME Contains(r, x) PROVE Contains(q, x)
    <3>1. PICK i \in 1 .. L - 1 : r[i] = x BY <1>1, <2>2 DEF Contains
    <3> QED BY <1>1, <1>3, <3>1 DEF Contains
  <2> QED BY <2>1, <2>2
<1> QED BY <1>1, <1>4, <1>5, <1>6, <1>7, <1>8, <1>9

-----------------------------------------------------------------------------
(***************************************************************************)
(* The steps.                                                              *)
(***************************************************************************)

\* Nobody is called without an event in hand.
LEMMA ComingType ==
    ASSUME ServedInv, NEW p \in Loaded
    PROVE  /\ Coming(p) \in Seq(Event)
           /\ Contains(worker.calls, p) => worker.event \in Event
<1>1. ~Contains(Waiting.calls, p) BY DEF Waiting, Contains
<1>2. Contains(worker.calls, p) => worker.event \in Event
  BY <1>1 DEF ServedInv, InHand
<1>3. CASE Contains(worker.calls, p)
  BY <1>2, <1>3, InFront DEF Coming, ServedInv, Shape
<1>4. CASE ~Contains(worker.calls, p)
  BY <1>4 DEF Coming, ServedInv, Shape
<1> QED BY <1>2, <1>3, <1>4

\* At the end of the queue an event comes after all that is coming.
LEMMA ComingAppend ==
    ASSUME ServedInv, NEW e \in Event, queue' = Append(queue, e), worker' = worker,
           NEW p \in Loaded
    PROVE  Coming(p)' = Append(Coming(p), e)
<1>1. CASE Contains(worker.calls, p)
  <2>1. worker.event \in Event BY <1>1, ComingType
  <2> PICK x : x = worker.event OBVIOUS
  <2>2. Append(<<x>> \o queue, e) = <<x>> \o Append(queue, e)
    <3>1. queue \in Seq(Event) /\ x \in Event BY <2>1 DEF ServedInv, Shape
    <3> HIDE DEF Event
    <3> QED BY <3>1, InFront
  <2> QED BY <1>1, <2>2 DEF Coming
<1>2. CASE ~Contains(worker.calls, p)
  BY <1>2 DEF Coming
<1> QED BY <1>1, <1>2

\* emit: what the queue takes is owed to the plugins that handle it.
LEMMA EmitServed ==
    ASSUME ServedInv, NEW e \in Event, Emit(e), worker' = worker, running' = running,
           events' \in Nat
    PROVE  ServedInv'
<1>1. CASE Plugins # <<>> /\ Len(queue) < QueueSize
  <2>1. /\ queue' = Append(queue, e)
        /\ owed' = [p \in Loaded |-> IF Wants(p, e) THEN Append(owed[p], e) ELSE owed[p]]
    BY <1>1 DEF Emit
  <2>2. \A p \in Loaded : owed[p] \in Seq(Event) /\ Len(owed[p]) \in Nat
    BY DEF ServedInv, Shape
  <2>3. Shape'
    <3>1. queue' \in Seq(Event) BY <2>1 DEF ServedInv, Shape
    <3>2. owed' \in [Loaded -> Seq(Event)] BY <2>1, <2>2
    <3> QED BY <3>1, <3>2 DEF ServedInv, Shape
  <2>4. InHand' BY DEF ServedInv, InHand
  <2>5. ASSUME NEW p \in Loaded PROVE IsWantedPart(p, Coming(p), owed[p])'
    <3> PICK es, part : es = Coming(p) /\ part = owed[p] OBVIOUS
    <3>1. /\ es \in Seq(Event) /\ part \in Seq(Event) /\ Len(part) \in Nat
          /\ IsWantedPart(p, es, part)
      BY <2>2, ComingType DEF ServedInv, Served
    <3>2. Coming(p)' = Append(es, e) BY <2>1, ComingAppend
    <3>3. CASE Wants(p, e)
      <4>1. owed'[p] = Append(part, e) BY <2>1, <3>3
      <4>2. IsWantedPart(p, Append(es, e), Append(part, e)) BY <3>1, <3>3, AppendWanted
      <4> QED BY <3>2, <4>1, <4>2
    <3>4. CASE ~Wants(p, e)
      <4>1. owed'[p] = part BY <2>1, <3>4
      <4>2. IsWantedPart(p, Append(es, e), part) BY <3>1, <3>4, AppendOther
      <4> QED BY <3>2, <4>1, <4>2
    <3> QED BY <3>3, <3>4
  <2> QED BY <2>3, <2>4, <2>5 DEF ServedInv, Served
<1>2. CASE ~(Plugins # <<>> /\ Len(queue) < QueueSize)
  BY <1>2 DEF Emit, ServedInv, Shape, InHand, Served, Coming
<1> QED BY <1>1, <1>2

\* A step that leaves the queue, the worker and what is owed alone.
LEMMA ServedFrame ==
    ASSUME ServedInv, queue' = queue, worker' = worker, owed' = owed,
           running' => running, events' \in Nat
    PROVE  ServedInv'
BY DEF ServedInv, Shape, InHand, Served, Coming

\* What stop() puts into the queue is nobody's event.
LEMMA StopServed ==
    ASSUME ServedInv, Stop PROVE ServedInv'
<1>1. CASE Len(queue) < QueueSize
  <2>1. queue' = Append(queue, STOP) /\ worker' = worker /\ owed' = owed /\ events' = events
    BY <1>1 DEF Stop
  <2>2. STOP \in Event BY DEF STOP, Event
  <2>3. Shape' BY <2>1, <2>2 DEF Stop, ServedInv, Shape
  <2>4. InHand' BY <2>1 DEF ServedInv, InHand
  <2>5. ASSUME NEW p \in Loaded PROVE IsWantedPart(p, Coming(p), owed[p])'
    <3> PICK es, part : es = Coming(p) /\ part = owed[p] OBVIOUS
    <3>1. es \in Seq(Event) /\ Len(part) \in Nat /\ IsWantedPart(p, es, part)
      BY ComingType DEF ServedInv, Served, Shape
    <3>2. Coming(p)' = Append(es, STOP) BY <2>1, <2>2, ComingAppend
    <3>3. ~Wants(p, STOP) BY PluginAssumption DEF PluginAssumption, Wants, Loaded
    <3>4. IsWantedPart(p, Append(es, STOP), part) BY <2>2, <3>1, <3>3, AppendOther
    <3> QED BY <2>1, <3>2, <3>4
  <2> QED BY <2>3, <2>4, <2>5 DEF ServedInv, Served
<1>2. CASE ~(Len(queue) < QueueSize)
  BY <1>2, ServedFrame DEF Stop, ServedInv, Shape
<1> QED BY <1>1, <1>2

\* _worker takes the next event for all plugins, or skips what stop() put there.
LEMMA GetServed ==
    ASSUME ServedInv, GetEvent PROVE ServedInv'
<1>1. /\ queue \in Seq(Event) /\ queue # <<>> /\ Plugins # <<>> /\ worker = Waiting
      /\ queue' = Tail(queue) /\ owed' = owed /\ events' = events /\ running' = running
  BY DEF GetEvent, ServedInv, Shape
<1>2. /\ Head(queue) \in Event /\ Tail(queue) \in Seq(Event) /\ Head(queue) = queue[1]
      /\ <<Head(queue)>> \o Tail(queue) = queue
  BY <1>1, HeadTail
<1>3. ASSUME NEW p \in Loaded
      PROVE  Coming(p) = queue /\ IsWantedPart(p, queue, owed[p]) /\ Len(owed[p]) \in Nat
  <2>1. Coming(p) = queue BY <1>1 DEF Coming, Waiting, Contains
  <2> QED BY <2>1 DEF ServedInv, Served, Shape
<1>4. CASE Head(queue) = STOP
  <2>1. worker' = Waiting BY <1>4 DEF GetEvent
  <2>2. Shape' BY <1>1, <1>2, <2>1 DEF ServedInv, Shape
  <2>3. InHand' BY <1>1, <2>1 DEF ServedInv, InHand
  <2>4. ASSUME NEW p \in Loaded PROVE IsWantedPart(p, Coming(p), owed[p])'
    <3>1. Coming(p)' = Tail(queue) BY <1>1, <2>1 DEF Coming, Waiting, Contains
    <3>2. ~Wants(p, queue[1])
      BY <1>2, <1>4, PluginAssumption DEF PluginAssumption, Wants, Loaded
    <3>3. IsWantedPart(p, Tail(queue), owed[p]) BY <1>1, <1>3, <3>2, TailOther
    <3> QED BY <1>1, <3>1, <3>3
  <2> QED BY <2>2, <2>3, <2>4 DEF ServedInv, Served
<1>5. CASE Head(queue) # STOP
  <2>1. worker' = [event |-> Head(queue), calls |-> Plugins] BY <1>5 DEF GetEvent
  <2>2. worker'.event = Head(queue) /\ worker'.calls = Plugins BY <2>1
  <2>3. Plugins \in Seq(Loaded) /\ IsInjective(Plugins)
    BY PluginAssumption DEF PluginAssumption, Loaded
  <2>4. Shape' BY <1>1, <1>2, <2>1, <2>3 DEF ServedInv, Shape
  <2>5. InHand' BY <1>1, <1>2, <2>2, <2>3 DEF InHand
  <2>6. ASSUME NEW p \in Loaded PROVE IsWantedPart(p, Coming(p), owed[p])'
    <3>1. Contains(Plugins, p) BY <2>3 DEF Loaded, ToSet, Contains
    <3>2. Coming(p)' = queue BY <1>1, <1>2, <2>2, <3>1 DEF Coming
    <3> QED BY <1>1, <1>3, <3>2
  <2> QED BY <2>4, <2>5, <2>6 DEF ServedInv, Served
<1> QED BY <1>4, <1>5

\* _dispatch: the next plugin is given the event if it handles it, and the
\* others still have it to come.
LEMMA CallServed ==
    ASSUME ServedInv, CallPlugin PROVE ServedInv'
<1> PICK p, e, calls : p = Head(worker.calls) /\ e = worker.event /\ calls = worker.calls
  OBVIOUS
<1>1. /\ calls \in Seq(Loaded) /\ calls # <<>> /\ IsInjective(calls) /\ e \in Event
      /\ queue \in Seq(Event) /\ owed \in [Loaded -> Seq(Event)]
      /\ queue' = queue /\ events' = events /\ running' = running
  BY DEF CallPlugin, ServedInv, InHand, Shape
<1>2. p \in Loaded BY <1>1
<1>3. /\ Tail(calls) \in Seq(Loaded) /\ IsInjective(Tail(calls))
      /\ Len(calls) = 1 => Tail(calls) = <<>>
      /\ Len(calls) # 1 => Tail(calls) # <<>>
      /\ Contains(calls, p) /\ ~Contains(Tail(calls), p)
      /\ \A x : x # p => (Contains(Tail(calls), x) <=> Contains(calls, x))
  BY <1>1, TailHolds
<1>4. /\ worker' \in [event : Event \cup {None}, calls : Seq(Loaded)]
      /\ worker'.calls = Tail(calls)
      /\ worker'.event = e \/ worker' = Waiting
      /\ worker' # Waiting => worker'.event = e /\ worker'.calls # <<>>
  <2>1. PICK raised \in BOOLEAN : worker' = AfterCall(raised) BY DEF CallPlugin
  <2>2. CASE Len(calls) = 1
    BY <1>3, <2>1, <2>2 DEF AfterCall, Waiting
  <2>3. CASE Len(calls) # 1
    <3>1. worker' = [worker EXCEPT !.calls = Tail(calls)] BY <2>1, <2>3 DEF AfterCall
    <3>2. worker' = [event |-> e, calls |-> Tail(calls)]
      BY <3>1 DEF ServedInv, Shape
    <3> QED BY <1>1, <1>3, <2>3, <3>2
  <2> QED BY <2>2, <2>3
<1>5. /\ \A q \in Loaded : q # p => owed'[q] = owed[q]
      /\ owed'[p] = IF Wants(p, e) THEN Tail(owed[p]) ELSE owed[p]
      /\ Wants(p, e) => owed' = [owed EXCEPT ![p] = Tail(@)]
      /\ ~Wants(p, e) => owed' = owed
  BY <1>1, <1>2 DEF CallPlugin
<1>6. Coming(p) = <<e>> \o queue /\ IsWantedPart(p, <<e>> \o queue, owed[p])
  <2>1. Coming(p) = <<e>> \o queue BY <1>3 DEF Coming
  <2> QED BY <1>2, <2>1 DEF ServedInv, Served
<1>7. /\ <<e>> \o queue \in Seq(Event) /\ <<e>> \o queue # <<>> /\ (<<e>> \o queue)[1] = e
      /\ Tail(<<e>> \o queue) = queue
  BY <1>1, InFront
<1>8. owed[p] \in Seq(Event) /\ Len(owed[p]) \in Nat BY <1>1, <1>2
<1>9. Wants(p, e) => owed[p] # <<>> /\ IsWantedPart(p, queue, Tail(owed[p]))
  <2> PICK es : es = <<e>> \o queue OBVIOUS
  <2> QED BY <1>6, <1>7, <1>8, TailWanted
<1>10. ~Wants(p, e) => IsWantedPart(p, queue, owed[p])
  <2> PICK es : es = <<e>> \o queue OBVIOUS
  <2> QED BY <1>6, <1>7, <1>8, TailOther
<1>11. owed' \in [Loaded -> Seq(Event)]
  <2>1. CASE Wants(p, e)
    <3>1. Tail(owed[p]) \in Seq(Event) BY <1>8, <1>9, <2>1
    <3> QED BY <1>1, <1>5, <2>1, <3>1
  <2>2. CASE ~Wants(p, e) BY <1>1, <1>5, <2>2
  <2> QED BY <2>1, <2>2
<1>12. Shape' BY <1>1, <1>4, <1>11 DEF ServedInv, Shape
<1>13. InHand' BY <1>1, <1>3, <1>4 DEF InHand
<1>14. ASSUME NEW q \in Loaded PROVE IsWantedPart(q, Coming(q), owed[q])'
  <2>1. CASE q = p
    <3>1. Coming(q)' = queue BY <1>1, <1>3, <1>4, <2>1 DEF Coming
    <3>2. IsWantedPart(p, queue, owed'[p]) BY <1>5, <1>9, <1>10
    <3> QED BY <2>1, <3>1, <3>2
  <2>2. CASE q # p
    <3>1. Contains(worker'.calls, q) <=> Contains(calls, q) BY <1>3, <1>4, <2>2
    <3>2. ~Contains(Waiting.calls, q) BY DEF Waiting, Contains
    <3>3. Contains(calls, q) => worker'.event = e BY <1>4, <3>1, <3>2
    <3>4. Coming(q)' = Coming(q) BY <1>1, <3>1, <3>3 DEF Coming
    <3>5. IsWantedPart(q, Coming(q), owed[q]) BY DEF ServedInv, Served
    <3> QED BY <1>5, <2>2, <3>4, <3>5
  <2> QED BY <2>1, <2>2
<1> QED BY <1>12, <1>13, <1>14 DEF ServedInv, Served

\* Every step keeps the plugins served.
LEMMA NextServed == ServedInv /\ [Next]_vars => ServedInv'
<1> SUFFICES ASSUME ServedInv, [Next]_vars PROVE ServedInv' OBVIOUS
<1>1. ASSUME NEW name \in DOMAIN Fields, Happens(name) PROVE ServedInv'
  <2>1. events' \in Nat /\ worker' = worker /\ running' = running
    BY <1>1 DEF Happens, ServedInv, Shape
  <2>2. CASE "name" \in Fields[name]
    BY <1>1, <2>1, <2>2, ServedFrame DEF Happens, EmitPluginEvent
  <2>3. CASE "name" \notin Fields[name]
    <3>1. [name |-> name, no |-> events + 1] \in Event
      BY DEF Event, ServedInv, Shape
    <3>2. Emit([name |-> name, no |-> events + 1])
      BY <1>1, <2>3 DEF Happens, EmitPluginEvent
    <3> QED BY <2>1, <3>1, <3>2, EmitServed
  <2> QED BY <2>2, <2>3
<1>2. ASSUME NEW l \in Links, LinkChanges(l) PROVE ServedInv'
  <2>1. events' \in Nat BY <1>2 DEF LinkChanges, ServedInv, Shape
  <2> QED BY <1>2, <2>1, ServedFrame DEF LinkChanges
<1>3. ASSUME NEW l \in Links, DetectLinkState(l) PROVE ServedInv'
  <2>1. queue' = queue /\ owed' = owed
    BY <1>3 DEF DetectLinkState, EmitPluginEvent
  <2> QED BY <1>3, <2>1, ServedFrame DEF DetectLinkState, ServedInv, Shape
<1>4. CASE GetEvent BY <1>4, GetServed
<1>5. CASE CallPlugin BY <1>5, CallServed
<1>6. CASE Stop BY <1>6, StopServed
<1>7. CASE UNCHANGED vars BY <1>7, ServedFrame DEF vars, ServedInv, Shape
<1> QED BY <1>1, <1>2, <1>3, <1>4, <1>5, <1>6, <1>7 DEF Next

\* At the start nothing was emitted and nothing is owed.
LEMMA InitServed == Init => ServedInv
<1> SUFFICES ASSUME Init PROVE ServedInv OBVIOUS
<1>1. Shape
  <2>1. Waiting \in [event : Event \cup {None}, calls : Seq(Loaded)] BY DEF Waiting
  <2>2. queue \in Seq(Event) /\ events \in Nat BY DEF Init
  <2>3. owed \in [Loaded -> Seq(Event)] BY DEF Init
  <2> QED BY <2>1, <2>2, <2>3 DEF Init, Shape
<1>2. InHand BY DEF Init, InHand, Waiting, IsInjective
<1>3. ASSUME NEW p \in Loaded PROVE IsWantedPart(p, Coming(p), owed[p])
  <2>1. Coming(p) = <<>> /\ owed[p] = <<>> BY DEF Init, Coming, Waiting, Contains
  <2>2. Len(<<>>) = 0 /\ 1 .. 0 = {} OBVIOUS
  <2>3. PICK at : at \in [1 .. 0 -> 1 .. 0]
    <3>1. [i \in 1 .. 0 |-> 0] \in [1 .. 0 -> 1 .. 0] BY <2>2
    <3> QED BY <3>1
  <2>4. Picks(p, <<>>, <<>>, at) BY <2>2 DEF Picks
  <2> QED BY <2>1, <2>2, <2>3, <2>4 DEF IsWantedPart
<1> QED BY <1>1, <1>2, <1>3 DEF ServedInv, Served

\* The property says what the invariant says.
LEMMA ServedIsServed == ServedInv => PluginsServed
<1> SUFFICES ASSUME ServedInv, NEW p \in Loaded
             PROVE  IsWantedPart(p, (IF Contains(worker.calls, p) THEN <<worker.event>>
                                     ELSE <<>>) \o queue, owed[p])
  BY DEF PluginsServed
<1>1. <<>> \o queue = queue BY DEF ServedInv, Shape
<1>2. (IF Contains(worker.calls, p) THEN <<worker.event>> ELSE <<>>) \o queue = Coming(p)
  BY <1>1 DEF Coming
<1> QED BY <1>2 DEF ServedInv, Served

\* No plugin is passed over (emit, _worker, _dispatch and stop together): for any
\* plugins and any length of the queue, a plugin gets every event the queue took
\* and that it handles, once and in order, whatever plugins raise in between.
THEOREM NobodyPassedOver == Spec => []PluginsServed
<1>1. Init => ServedInv BY InitServed
<1>2. ServedInv /\ [Next]_vars => ServedInv' BY NextServed
<1>3. ServedInv => PluginsServed BY ServedIsServed
<1> QED BY <1>1, <1>2, <1>3, PTL DEF Spec
=============================================================================
