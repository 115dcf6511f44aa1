--------------------------- MODULE ChatSyncProofs ---------------------------
(***************************************************************************)
(* Proofs about the chat tables, for any number of stations, receive       *)
(* threads, messages, requests and restarts: rows are messages as their    *)
(* authors wrote them, no row is ever rewritten, everything keeps its      *)
(* type, and last-N sync leaves no holes.                                  *)
(***************************************************************************)
EXTENDS ChatSync, FiniteSetTheorems, TLAPS

-----------------------------------------------------------------------------
(* Rows are messages that were written.                                    *)

Shape ==
    /\ DOMAIN store = Stations
    /\ DOMAIN writing = Stations
    /\ DOMAIN rx = Stations
    /\ \A n \in Stations : DOMAIN rx[n] = Threads
    /\ \A p \in net : p.type = "request" => p.mode \in {"seqno", "range", "since_ts"}

\* A message is the record of its five fields.
WrittenAreMessages == \A m \in written : Message(m) = m

\* What a station has still to log was written.
LoggedWasWritten == \A n \in Stations : writing[n] # None => writing[n] \in written

\* So were the messages on their way, and the records of the answers, which say
\* everything but the channel ...
SentWasWritten ==
    \A p \in net : /\ p.type = "message" => p.body \in written
                   /\ p.type = "response" => \A r \in p.records : Applied(p, r) \in written

\* ... and those a receive thread has still to look at.
TodoWasWritten ==
    \A n \in Stations, t \in Threads :
        rx[n][t] # None => \A r \in rx[n][t].todo : Applied(rx[n][t], r) \in written

WrittenInv ==
    /\ Shape
    /\ StoredWasWritten
    /\ WrittenAreMessages
    /\ LoggedWasWritten
    /\ SentWasWritten
    /\ TodoWasWritten

\* Storing a message makes no row of anything else.
LEMMA AddMessageRows ==
  ASSUME NEW n \in Stations, NEW m, DOMAIN store = Stations, AddMessage(n, m)
  PROVE  /\ DOMAIN store' = Stations
         /\ \A k \in Stations : \A r \in store'[k] :
              r \in store[k] \/ (k = n /\ r = Row(m, lastId[n] + 1)
                                       /\ ~Has(store[n], m.origin, m.seqno))
         /\ \A k \in Stations : store[k] \subseteq store'[k]
  BY DEF AddMessage, tableVars

\* Pruning only deletes.
LEMMA PruneDeletes ==
  ASSUME NEW n \in Stations, DOMAIN store = Stations, Prune(n)
  PROVE  /\ DOMAIN store' = Stations
         /\ \A k \in Stations : store'[k] \subseteq store[k]
  <1>1. \A rows, k : PruneKeepLastN(rows, k) \subseteq rows
    BY DEF PruneKeepLastN, GetLastNMessages, LastOf, OfChannel
  <1>2. \A rows, cutoff : PruneOlder(rows, cutoff) \subseteq rows
    BY DEF PruneOlder
  <1>3. PICK rows : rows \subseteq store[n] /\ store' = [store EXCEPT ![n] = rows]
    <2>1. CASE PruneDb(n)
      BY <2>1, <1>1 DEF PruneDb
    <2>2. CASE RunRetention(n)
      BY <2>2, <1>2 DEF RunRetention
    <2> QED
      BY <2>1, <2>2 DEF Prune
  <1> QED
    BY <1>3

\* A row says what its message said.
LEMMA RowMessage == \A m, id : Message(Row(m, id)) = Message(m)
  BY DEF Message, Row

\* The rows that answer a request are of its channel.
LEMMA AnswerRows ==
  ASSUME NEW n, NEW p, p.mode \in {"seqno", "range", "since_ts"},
         NEW r \in Answer(n, p)
  PROVE  r \in store[n] /\ r.channel = p.channel
  BY DEF Answer, GetMessagesSince, GetMessagesForRange, WindowFor, GetLastNMessages,
         FirstOf, LastOf, OfChannel

\* Storing a written message keeps rows written.
LEMMA AddKeepsWritten ==
  ASSUME NEW n \in Stations, NEW m \in written, WrittenInv, AddMessage(n, m),
         written' = written
  PROVE  DOMAIN store' = Stations /\ StoredWasWritten'
  <1>1. Message(Row(m, lastId[n] + 1)) \in written
    BY RowMessage DEF WrittenInv, WrittenAreMessages
  <1> QED
    BY <1>1, AddMessageRows DEF WrittenInv, Shape, StoredWasWritten

\* The tables are empty at the start.
LEMMA InitWritten == Init => WrittenInv
  BY DEF Init, WrittenInv, Shape, StoredWasWritten, WrittenAreMessages, LoggedWasWritten,
         SentWasWritten, TodoWasWritten
\* Steps that leave the tables alone and neither take up nor send anything keep
\* the invariant.
LEMMA WrittenStutter ==
  ASSUME WrittenInv, store' = store, writing' = writing, rx' = rx,
         net' \subseteq net, written' = written
  PROVE  WrittenInv'
  BY DEF WrittenInv, Shape, StoredWasWritten, WrittenAreMessages, LoggedWasWritten,
         SentWasWritten, TodoWasWritten

\* Working on a list leaves no record on it that was not there.
LEMMA ContinueTodo ==
  ASSUME WrittenInv, NEW n \in Stations, NEW t \in Threads, NEW todo, NEW absent,
         rx[n][t] # None, todo \subseteq rx[n][t].todo, Continue(n, t, todo, absent),
         written' = written
  PROVE  /\ DOMAIN rx' = Stations
         /\ \A k \in Stations : DOMAIN rx'[k] = Threads
         /\ TodoWasWritten'
  <1>1. /\ DOMAIN rx' = Stations
        /\ \A k \in Stations : DOMAIN rx'[k] = Threads
        /\ \A k \in Stations, u \in Threads :
             rx'[k][u] = IF k = n /\ u = t
                         THEN IF todo = {} THEN None ELSE Work(rx[n][t], todo, absent)
                         ELSE rx[k][u]
    BY DEF Continue, WrittenInv, Shape
  <1>2. \A r : Applied(Work(rx[n][t], todo, absent), r) = Applied(rx[n][t], r)
    BY DEF Applied, Work
  <1>3. Work(rx[n][t], todo, absent).todo = todo
    BY DEF Work
  <1> QED
    BY <1>1, <1>2, <1>3 DEF WrittenInv, TodoWasWritten

\* Every step keeps rows and everything that may become a row written.
LEMMA NextWritten == WrittenInv /\ [Next]_vars => WrittenInv'
  <1> SUFFICES ASSUME WrittenInv, [Next]_vars PROVE WrittenInv'
    OBVIOUS
  <1>1. ASSUME NEW n \in Stations, NEW d, NEW c, SendMessage(n, d, c) PROVE WrittenInv'
    <2>1. PICK q : LET m == [origin |-> n, seqno |-> q, channel |-> c,
                             text |-> Cardinality(written) + 1, created |-> now]
                   IN /\ net' = net \cup {[type |-> "message", to |-> d, body |-> m]}
                      /\ writing' = [writing EXCEPT ![n] = m]
                      /\ written' = written \cup {m}
      BY <1>1 DEF SendMessage
    <2> DEFINE m == [origin |-> n, seqno |-> q, channel |-> c,
                     text |-> Cardinality(written) + 1, created |-> now]
    <2>2. Message(m) = m
      BY DEF Message
    <2>3. /\ net' = net \cup {[type |-> "message", to |-> d, body |-> m]}
          /\ writing' = [writing EXCEPT ![n] = m]
          /\ written' = written \cup {m}
      BY <2>1
    <2> HIDE DEF m
    <2>4. store' = store /\ rx' = rx
      BY <1>1 DEF SendMessage, tableVars
    <2>5. WrittenAreMessages' /\ LoggedWasWritten'
      BY <2>2, <2>3 DEF WrittenInv, Shape, WrittenAreMessages, LoggedWasWritten
    <2>6. SentWasWritten'
      BY <2>3 DEF WrittenInv, SentWasWritten
    <2>7. Shape' /\ StoredWasWritten' /\ TodoWasWritten'
      BY <2>3, <2>4 DEF WrittenInv, Shape, StoredWasWritten, TodoWasWritten
    <2> QED
      BY <2>5, <2>6, <2>7 DEF WrittenInv
  <1>2. ASSUME NEW a \in Asks, Ask(a[1], a[2], a[3], a[4]) PROVE WrittenInv'
    <2>1. PICK arg : net' = net \cup {Request(a[1], a[2], a[3], a[4], arg)}
      BY <1>2 DEF Ask
    <2>2. a[4] \in {"seqno", "range", "since_ts"}
      BY AskAssumption
    <2>3. /\ Request(a[1], a[2], a[3], a[4], arg).type = "request"
          /\ Request(a[1], a[2], a[3], a[4], arg).mode = a[4]
      BY DEF Request
    <2>4. store' = store /\ rx' = rx /\ writing' = writing /\ written' = written
      BY <1>2 DEF Ask, tableVars
    <2> QED
      BY <2>1, <2>2, <2>3, <2>4
         DEF WrittenInv, Shape, StoredWasWritten, WrittenAreMessages, LoggedWasWritten,
             SentWasWritten, TodoWasWritten
  <1>3. ASSUME NEW n \in Stations, LogSent(n) PROVE WrittenInv'
    <2>1. writing[n] \in written /\ written' = written /\ net' = net /\ rx' = rx
      BY <1>3 DEF LogSent, WrittenInv, LoggedWasWritten
    <2>2. DOMAIN store' = Stations /\ StoredWasWritten'
      BY <1>3, <2>1, AddKeepsWritten DEF LogSent
    <2>3. DOMAIN writing' = Stations /\ LoggedWasWritten'
      BY <1>3, <2>1 DEF LogSent, WrittenInv, Shape, LoggedWasWritten
    <2> QED
      BY <2>1, <2>2, <2>3 DEF WrittenInv, Shape, WrittenAreMessages, SentWasWritten, TodoWasWritten
  <1>4. ASSUME NEW n \in Stations, Prune(n) PROVE WrittenInv'
    <2>1. /\ DOMAIN store' = Stations
          /\ \A k \in Stations : store'[k] \subseteq store[k]
      BY <1>4, PruneDeletes DEF WrittenInv, Shape
    <2>2. writing' = writing /\ rx' = rx /\ net' = net /\ written' = written
      BY <1>4 DEF Prune
    <2> QED
      BY <2>1, <2>2 DEF WrittenInv, Shape, StoredWasWritten, WrittenAreMessages, LoggedWasWritten,
                        SentWasWritten, TodoWasWritten
  <1>5. ASSUME NEW n \in Stations, Restart(n) PROVE WrittenInv'
    BY <1>5 DEF Restart, tableVars, WrittenInv, Shape, StoredWasWritten, WrittenAreMessages,
                LoggedWasWritten, SentWasWritten, TodoWasWritten
  <1>6. ASSUME NEW n \in Stations, NEW t \in Threads, NEW p \in net, HandleMessage(n, t, p)
        PROVE  WrittenInv'
    <2>1. /\ p.body \in written /\ written' = written
          /\ net' \subseteq net /\ rx' = rx /\ writing' = writing
      BY <1>6 DEF HandleMessage, Taken, WrittenInv, SentWasWritten
    <2>2. DOMAIN store' = Stations /\ StoredWasWritten'
      BY <1>6, <2>1, AddKeepsWritten DEF HandleMessage
    <2> QED
      BY <2>1, <2>2 DEF WrittenInv, Shape, WrittenAreMessages, LoggedWasWritten, SentWasWritten,
                        TodoWasWritten
  <1>7. ASSUME NEW n \in Stations, NEW t \in Threads, NEW p \in net, HandleSyncRequest(n, t, p)
        PROVE  WrittenInv'
    <2> DEFINE records == {Record(r) : r \in Answer(n, p)}
               reply == [type |-> "response", to |-> p.from, channel |-> p.channel,
                         mode |-> p.mode, records |-> records]
    <2>1. net' \subseteq net \cup {reply}
      BY <1>7 DEF HandleSyncRequest, Taken
    <2>2. store' = store /\ writing' = writing /\ rx' = rx /\ written' = written
      BY <1>7 DEF HandleSyncRequest, tableVars
    <2>3. reply.type = "response" /\ reply.channel = p.channel /\ reply.records = records
      OBVIOUS
    <2>4. ASSUME NEW x \in records PROVE Applied(reply, x) \in written
      <3>1. PICK r \in Answer(n, p) : x = Record(r)
        OBVIOUS
      <3>2. r \in store[n] /\ r.channel = p.channel
        BY <1>7, AnswerRows DEF HandleSyncRequest, WrittenInv, Shape
      <3>3. Applied(reply, x) = Message(r)
        BY <3>1, <3>2, <2>3 DEF Applied, Record, Message
      <3> QED
        BY <3>2, <3>3 DEF WrittenInv, StoredWasWritten
    <2> HIDE DEF reply, records
    <2>5. SentWasWritten'
      BY <2>1, <2>2, <2>3, <2>4 DEF WrittenInv, SentWasWritten
    <2>6. Shape'
      BY <2>1, <2>2, <2>3 DEF WrittenInv, Shape
    <2> QED
      BY <2>2, <2>5, <2>6 DEF WrittenInv, StoredWasWritten, WrittenAreMessages, LoggedWasWritten,
                              TodoWasWritten
  <1>8. ASSUME NEW n \in Stations, NEW t \in Threads, NEW p \in net, HandleSyncResponse(n, t, p)
        PROVE  WrittenInv'
    <2>1. /\ net' \subseteq net /\ store' = store /\ writing' = writing /\ written' = written
          /\ \A r \in p.records : Applied(p, r) \in written
      BY <1>8 DEF HandleSyncResponse, Taken, tableVars, WrittenInv, SentWasWritten
    <2>2. /\ DOMAIN rx' = Stations
          /\ \A k \in Stations : DOMAIN rx'[k] = Threads
          /\ \A k \in Stations, u \in Threads :
               rx'[k][u] = IF k = n /\ u = t
                           THEN IF p.records = {} THEN None ELSE Work(p, p.records, FALSE)
                           ELSE rx[k][u]
      BY <1>8 DEF HandleSyncResponse, WrittenInv, Shape
    <2>3. /\ \A r : Applied(Work(p, p.records, FALSE), r) = Applied(p, r)
          /\ Work(p, p.records, FALSE).todo = p.records
      BY DEF Applied, Work
    <2>4. ASSUME NEW k \in Stations, NEW u \in Threads, rx'[k][u] # None,
                 NEW r \in rx'[k][u].todo
          PROVE  Applied(rx'[k][u], r) \in written
      <3>1. CASE k = n /\ u = t
        <4>1. rx'[k][u] = Work(p, p.records, FALSE)
          BY <3>1, <2>2, <2>4
        <4> QED
          BY <4>1, <2>1, <2>3, <2>4
      <3>2. CASE ~(k = n /\ u = t)
        BY <3>2, <2>2, <2>4 DEF WrittenInv, TodoWasWritten
      <3> QED
        BY <3>1, <3>2
    <2>5. TodoWasWritten'
      BY <2>1, <2>4 DEF TodoWasWritten, Applied
    <2> QED
      BY <2>1, <2>2, <2>5 DEF WrittenInv, Shape, StoredWasWritten, WrittenAreMessages,
                              LoggedWasWritten, SentWasWritten
  <1>9. ASSUME NEW n \in Stations, NEW t \in Threads, CheckRecord(n, t) PROVE WrittenInv'
    <2>1. /\ store' = store /\ writing' = writing /\ net' = net /\ written' = written
          /\ rx[n][t] # None
      BY <1>9 DEF CheckRecord, tableVars
    <2>2. PICK todo, absent : todo \subseteq rx[n][t].todo /\ Continue(n, t, todo, absent)
      BY <1>9 DEF CheckRecord
    <2>3. /\ DOMAIN rx' = Stations
          /\ \A k \in Stations : DOMAIN rx'[k] = Threads
          /\ TodoWasWritten'
      BY <2>1, <2>2, ContinueTodo
    <2> QED
      BY <2>1, <2>3 DEF WrittenInv, Shape, StoredWasWritten, WrittenAreMessages,
                        LoggedWasWritten, SentWasWritten
  <1>10. ASSUME NEW n \in Stations, NEW t \in Threads, AddRecord(n, t) PROVE WrittenInv'
    <2>1. /\ writing' = writing /\ net' = net /\ written' = written /\ rx[n][t] # None
      BY <1>10 DEF AddRecord
    <2>2. PICK r \in rx[n][t].todo : /\ AddMessage(n, Applied(rx[n][t], r))
                                     /\ Continue(n, t, rx[n][t].todo \ {r}, FALSE)
      BY <1>10 DEF AddRecord
    <2>3. Applied(rx[n][t], r) \in written
      BY <2>1 DEF WrittenInv, TodoWasWritten
    <2>4. DOMAIN store' = Stations /\ StoredWasWritten'
      BY <2>1, <2>2, <2>3, AddKeepsWritten
    <2>5. /\ DOMAIN rx' = Stations
          /\ \A k \in Stations : DOMAIN rx'[k] = Threads
          /\ TodoWasWritten'
      BY <2>1, <2>2, ContinueTodo
    <2> QED
      BY <2>1, <2>4, <2>5 DEF WrittenInv, Shape, WrittenAreMessages, LoggedWasWritten,
                              SentWasWritten
  <1>11. ASSUME NEW p \in net, Lose(p) PROVE WrittenInv'
    BY <1>11, WrittenStutter DEF Lose, tableVars
  <1>12. CASE Tick
    BY <1>12, WrittenStutter DEF Tick, tableVars
  <1>13. CASE UNCHANGED vars
    BY <1>13, WrittenStutter DEF vars
  <1>14. ASSUME NEW w \in Writes PROVE w[1] \in Stations
    BY AskAssumption
  <1> QED
    BY <1>1, <1>2, <1>3, <1>4, <1>5, <1>6, <1>7, <1>8, <1>9, <1>10, <1>11, <1>12, <1>13, <1>14
       DEF Next, RxStep, OnMeshAppData

\* Whatever a station's table holds, received from the author or through the
\* answers of other stations, is a message as its author wrote it.
THEOREM RowsWereWritten == Spec => []StoredWasWritten
  <1>1. Init => WrittenInv
    BY InitWritten
  <1>2. WrittenInv /\ [Next]_vars => WrittenInv'
    BY NextWritten
  <1>3. WrittenInv => StoredWasWritten
    BY DEF WrittenInv
  <1> QED
    BY <1>1, <1>2, <1>3, PTL DEF Spec

-----------------------------------------------------------------------------
(* No row is rewritten.                                                    *)

\* The unique constraint on (origin_id, seqno).
UniqueRows ==
    /\ DOMAIN store = Stations
    /\ \A n \in Stations : \A r, s \in store[n] :
         r.origin = s.origin /\ r.seqno = s.seqno => r = s

RowsKept ==
    \A n \in Stations : \A r \in store[n], s \in store'[n] :
        r.origin = s.origin /\ r.seqno = s.seqno => r = s

\* INSERT OR IGNORE adds a row only under a key that is free.
LEMMA AddKeepsRows ==
  ASSUME UniqueRows, NEW n \in Stations, NEW m, AddMessage(n, m)
  PROVE  UniqueRows' /\ RowsKept
  <1>1. /\ DOMAIN store' = Stations
        /\ \A k \in Stations : \A r \in store'[k] :
             r \in store[k] \/ (k = n /\ r = Row(m, lastId[n] + 1)
                                      /\ ~Has(store[n], m.origin, m.seqno))
    BY AddMessageRows DEF UniqueRows
  <1>2. /\ Row(m, lastId[n] + 1).origin = m.origin
        /\ Row(m, lastId[n] + 1).seqno = m.seqno
    BY DEF Row
  <1> QED
    BY <1>1, <1>2 DEF UniqueRows, RowsKept, Has

\* Every step keeps the rows it leaves in the table as they are.
LEMMA NextKeepsRows == UniqueRows /\ [Next]_vars => UniqueRows' /\ RowsKept
  <1> SUFFICES ASSUME UniqueRows, [Next]_vars PROVE UniqueRows' /\ RowsKept
    OBVIOUS
  <1>1. CASE store' = store
    BY <1>1 DEF UniqueRows, RowsKept
  <1>2. ASSUME NEW n \in Stations, Prune(n) PROVE UniqueRows' /\ RowsKept
    <2>1. /\ DOMAIN store' = Stations
          /\ \A k \in Stations : store'[k] \subseteq store[k]
      BY <1>2, PruneDeletes DEF UniqueRows
    <2> QED
      BY <2>1 DEF UniqueRows, RowsKept
  <1>3. ASSUME NEW n \in Stations, LogSent(n) PROVE UniqueRows' /\ RowsKept
    BY <1>3, AddKeepsRows DEF LogSent
  <1>4. ASSUME NEW n \in Stations, NEW t \in Threads, NEW p \in net, HandleMessage(n, t, p)
        PROVE  UniqueRows' /\ RowsKept
    BY <1>4, AddKeepsRows DEF HandleMessage
  <1>5. ASSUME NEW n \in Stations, NEW t \in Threads, AddRecord(n, t)
        PROVE  UniqueRows' /\ RowsKept
    BY <1>5, AddKeepsRows DEF AddRecord
  <1>6. \A n, d, c : SendMessage(n, d, c) => store' = store
    BY DEF SendMessage, tableVars
  <1>7. \A n, d, c, mode : Ask(n, d, c, mode) => store' = store
    BY DEF Ask, tableVars
  <1>8. \A n, t, p : HandleSyncRequest(n, t, p) \/ HandleSyncResponse(n, t, p)
                       => store' = store
    BY DEF HandleSyncRequest, HandleSyncResponse, tableVars
  <1>9. \A n, t : CheckRecord(n, t) => store' = store
    BY DEF CheckRecord, tableVars
  <1>10. \A n : Restart(n) => store' = store
    BY DEF Restart, tableVars
  <1>11. (\E p \in net : Lose(p)) \/ Tick \/ UNCHANGED vars => store' = store
    BY DEF Lose, Tick, tableVars, vars
  <1> QED
    BY <1>1, <1>2, <1>3, <1>4, <1>5, <1>6, <1>7, <1>8, <1>9, <1>10, <1>11
       DEF Next, RxStep, OnMeshAppData

\* The history of a station is never rewritten: while there is a row for an
\* origin and a number it is the same row, whatever arrives under that number.
THEOREM HistoryKept == Spec => HistoryNotRewritten
  <1>1. Init => UniqueRows
    BY DEF Init, UniqueRows
  <1>2. UniqueRows /\ [Next]_vars => UniqueRows' /\ RowsKept
    BY NextKeepsRows
  <1>3. RowsKept => [\A n \in Stations : \A r \in store[n], s \in store'[n] :
                       r.origin = s.origin /\ r.seqno = s.seqno => r = s]_vars
    BY DEF RowsKept
  <1> QED
    BY <1>1, <1>2, <1>3, PTL DEF Spec, HistoryNotRewritten

-----------------------------------------------------------------------------
(* Types.                                                                  *)

\* A set of numbers with a bound has a maximum.
LEMMA MaxIsMember ==
  ASSUME NEW b \in Nat, NEW S \in SUBSET (0 .. b), S # {}
  PROVE  Max(S) \in S
  <1> DEFINE Above(x) == {y \in S : y >= x}
             F == {Above(x) : x \in S}
             R == StrictSubsetOrdering(S)
             FS == FiniteSubsetsOf(S)
  <1>1. IsFiniteSet(S)
    BY FS_BoundedSetOfNaturals
  <1>2. F \subseteq FS
    <2>1. \A x \in S : Above(x) \in SUBSET S
      OBVIOUS
    <2>2. \A T \in SUBSET S : IsFiniteSet(T)
      BY <1>1, FS_Subset
    <2> QED
      BY <2>1, <2>2 DEF FiniteSubsetsOf
  <1>3. F # {}
    OBVIOUS
  <1>4. IsWellFoundedOn(R, FS)
    BY FS_StrictSubsetOrderingWellFounded
  <1>5. PICK A \in F : \A B \in F : ~(<<B, A>> \in R)
    <2> HIDE DEF F, R, FS
    <2> QED
      BY <1>2, <1>3, <1>4, WFMin
  <1>6. PICK x \in S : A = Above(x)
    OBVIOUS
  <1>7. \A y \in S : x >= y
    <2> SUFFICES ASSUME NEW y \in S, ~(x >= y) PROVE FALSE
      OBVIOUS
    <2>1. x \in Int /\ y \in Int /\ y > x
      OBVIOUS
    <2>2. Above(y) \subseteq Above(x)
      <3>1. ASSUME NEW z \in S, z >= y PROVE z >= x
        <4>1. z \in Int
          OBVIOUS
        <4> QED
          BY <4>1, <3>1, <2>1
      <3> QED
        BY <3>1
    <2>3. x \in Above(x) /\ x \notin Above(y)
      BY <2>1
    <2>4. <<Above(y), Above(x)>> \in R
      BY <2>2, <2>3 DEF StrictSubsetOrdering
    <2> QED
      BY <2>4, <1>5, <1>6
  <1> QED
    BY <1>7 DEF Max

Numbers == /\ now \in 0 .. MaxTime
           /\ counter \in [Stations -> 0 .. MaxSeq]
           /\ lastId \in [Stations -> Nat]

\* The messages written are numbered by their texts.
History == written \subseteq Msg /\ IsFiniteSet(written)

\* AUTOINCREMENT: no row has an id that is still to be given.
Ids == \A n \in Stations : \A r \in store[n] : r.id \in 1 .. lastId[n]

\* A thread with a list has a record to look at.
Lists ==
    \A n \in Stations, t \in Threads :
        rx[n][t] # None => /\ IsAnswer(rx[n][t])
                           /\ rx[n][t].todo \subseteq Rec /\ rx[n][t].todo # {}
                           /\ rx[n][t].absent \in BOOLEAN

IsPacket(p) == IF p.type = "response"
               THEN IsAnswer(p) /\ p.to \in Stations /\ p.records \subseteq Rec
               ELSE p \in Packet

Packets == \A p \in net : IsPacket(p)

TableInv == /\ WrittenInv
            /\ UniqueRows
            /\ Numbers
            /\ History
            /\ Ids
            /\ Lists
            /\ Packets

\* The parts give the type invariant.
LEMMA TableTypes == TableInv => TypeOK
  BY DEF TableInv, WrittenInv, UniqueRows, Numbers, History, Ids, Lists, Packets, IsPacket,
         LoggedWasWritten, StoredWasWritten, TypeOK

\* The columns of a row.
LEMMA RowTypes ==
  ASSUME TableInv, NEW n \in Stations, NEW r \in store[n]
  PROVE  /\ r.origin \in Stations /\ r.seqno \in 1 .. MaxSeq /\ r.channel \in Channels
         /\ r.text \in 1 .. MaxMsgs /\ r.created \in 0 .. MaxTime
         /\ r.id \in Nat \ {0}
  <1>1. Message(r) \in Msg
    BY DEF TableInv, WrittenInv, StoredWasWritten, History
  <1>2. /\ Message(r).origin = r.origin /\ Message(r).seqno = r.seqno
        /\ Message(r).channel = r.channel /\ Message(r).text = r.text
        /\ Message(r).created = r.created
    BY DEF Message
  <1>3. r.id \in 1 .. lastId[n] /\ lastId[n] \in Nat
    BY DEF TableInv, Ids, Numbers
  <1> QED
    BY <1>1, <1>2, <1>3 DEF Msg

\* get_inventory_last_n: for every origin a number that a message can have, or 0.
LEMMA InventoryType ==
  ASSUME TableInv, NEW n \in Stations, NEW c
  PROVE  Inventory(n, c) \in [Stations -> 0 .. MaxSeq]
  <1> SUFFICES ASSUME NEW o \in Stations
               PROVE  Max({0} \cup {r.seqno : r \in {s \in GetLastNMessages(store[n], c, LastN[n]) :
                                                       s.origin = o}}) \in 0 .. MaxSeq
    BY DEF Inventory
  <1> DEFINE T == {s \in GetLastNMessages(store[n], c, LastN[n]) : s.origin = o}
             S == {0} \cup {r.seqno : r \in T}
  <1>1. T \subseteq store[n]
    BY DEF GetLastNMessages, LastOf, OfChannel
  <1>2. \A r \in store[n] : r.seqno \in 1 .. MaxSeq
    BY RowTypes
  <1>3. S \in SUBSET (0 .. MaxSeq) /\ S # {} /\ MaxSeq \in Nat
    BY <1>1, <1>2, BoundAssumption DEF BoundAssumption
  <1> HIDE DEF S
  <1>4. Max(S) \in S
    BY <1>3, MaxIsMember
  <1> QED
    BY <1>3, <1>4 DEF S

\* INSERT OR IGNORE takes the next id.
LEMMA AddIds ==
  ASSUME TableInv, NEW n \in Stations, NEW m, AddMessage(n, m)
  PROVE  lastId' \in [Stations -> Nat] /\ Ids'
  <1>1. CASE Has(store[n], m.origin, m.seqno)
    BY <1>1 DEF AddMessage, tableVars, TableInv, Numbers, Ids
  <1>2. CASE ~Has(store[n], m.origin, m.seqno)
    <2>1. lastId' = [lastId EXCEPT ![n] = @ + 1] /\ lastId \in [Stations -> Nat]
      BY <1>2 DEF AddMessage, TableInv, Numbers
    <2>2. /\ \A k \in Stations : lastId[k] \in Nat /\ lastId'[k] \in Nat
                                  /\ lastId'[k] = IF k = n THEN lastId[n] + 1 ELSE lastId[k]
          /\ lastId' \in [Stations -> Nat]
      BY <2>1
    <2>3. Row(m, lastId[n] + 1).id = lastId[n] + 1
      BY DEF Row
    <2>4. ASSUME NEW k \in Stations, NEW r \in store'[k] PROVE r.id \in 1 .. lastId'[k]
      <3>1. r \in store[k] \/ (k = n /\ r = Row(m, lastId[n] + 1))
        BY AddMessageRows DEF TableInv, UniqueRows
      <3>2. CASE r \in store[k]
        <4>1. r.id \in 1 .. lastId[k]
          BY <3>2 DEF TableInv, Ids
        <4> QED
          BY <4>1, <2>2
      <3>3. CASE k = n /\ r = Row(m, lastId[n] + 1)
        BY <3>3, <2>2, <2>3
      <3> QED
        BY <3>1, <3>2, <3>3
    <2> QED
      BY <2>2, <2>4 DEF Ids
  <1> QED
    BY <1>1, <1>2

\* Going on with a list leaves a list with a record on it, or none.
LEMMA ContinueLists ==
  ASSUME TableInv, NEW n \in Stations, NEW t \in Threads, NEW todo, NEW absent \in BOOLEAN,
         rx[n][t] # None, todo \subseteq rx[n][t].todo, Continue(n, t, todo, absent)
  PROVE  Lists'
  <1>1. \A k \in Stations, u \in Threads :
          rx'[k][u] = IF k = n /\ u = t
                      THEN IF todo = {} THEN None ELSE Work(rx[n][t], todo, absent)
                      ELSE rx[k][u]
    BY DEF Continue, TableInv, WrittenInv, Shape
  <1> PICK w : w = Work(rx[n][t], todo, absent)
    OBVIOUS
  <1>2. /\ w.channel = rx[n][t].channel /\ w.mode = rx[n][t].mode
        /\ w.todo = todo /\ w.absent = absent
    BY DEF Work
  <1>3. IsAnswer(rx[n][t]) /\ rx[n][t].todo \subseteq Rec
    BY DEF TableInv, Lists
  <1>4. IsAnswer(w) /\ w.todo \subseteq Rec /\ w.absent \in BOOLEAN
    BY <1>2, <1>3 DEF IsAnswer
  <1>5. ASSUME NEW k \in Stations, NEW u \in Threads, rx'[k][u] # None
        PROVE  /\ IsAnswer(rx'[k][u])
               /\ rx'[k][u].todo \subseteq Rec /\ rx'[k][u].todo # {}
               /\ rx'[k][u].absent \in BOOLEAN
    <2>1. CASE k = n /\ u = t
      <3>1. todo # {} /\ rx'[k][u] = w
        BY <1>1, <1>5, <2>1
      <3> QED
        BY <1>2, <1>4, <3>1
    <2>2. CASE ~(k = n /\ u = t)
      <3>1. rx'[k][u] = rx[k][u]
        BY <1>1, <2>2
      <3> QED
        BY <1>5, <3>1 DEF TableInv, Lists
    <2> QED
      BY <2>1, <2>2
  <1> QED
    BY <1>5 DEF Lists, IsAnswer

\* A step that adds to the packets under way only packets, and leaves the clock,
\* the counters, the tables, the lists and the history alone.
LEMMA TypeFrame ==
  ASSUME TableInv, WrittenInv', now' = now, counter' = counter, store' = store,
         lastId' = lastId, rx' = rx, written' = written,
         \A p \in net' : p \in net \/ IsPacket(p)
  PROVE  TableInv'
  <1>1. UniqueRows' /\ Numbers' /\ History' /\ Ids'
    BY DEF TableInv, UniqueRows, Numbers, History, Ids
  <1>2. Lists'
    BY DEF TableInv, Lists, IsAnswer
  <1>3. Packets'
    BY DEF TableInv, Packets, IsPacket, IsAnswer
  <1> QED
    BY <1>1, <1>2, <1>3 DEF TableInv

\* Tables, counters and packets are empty at the start.
LEMMA InitTypes == Init => TableInv
  <1> SUFFICES ASSUME Init PROVE TableInv
    OBVIOUS
  <1>1. WrittenInv
    BY InitWritten
  <1>2. UniqueRows /\ Ids /\ Lists /\ Packets
    BY DEF Init, UniqueRows, Ids, Lists, Packets
  <1>3. Numbers
    BY BoundAssumption DEF BoundAssumption, Init, Numbers
  <1>4. History
    BY FS_EmptySet DEF Init, History
  <1> QED
    BY <1>1, <1>2, <1>3, <1>4 DEF TableInv

\* send_message_to_node writes a message, under a number that is not used up.
LEMMA SendTypes ==
  ASSUME TableInv, WrittenInv', NEW n \in Stations, NEW d \in Stations, NEW c \in Channels,
         SendMessage(n, d, c)
  PROVE  TableInv'
  <1>1. PICK q \in counter[n] + 1 .. MaxSeq :
          LET m == [origin |-> n, seqno |-> q, channel |-> c,
                    text |-> Cardinality(written) + 1, created |-> now]
          IN  /\ counter' = [counter EXCEPT ![n] = q]
              /\ net' = net \cup {[type |-> "message", to |-> d, body |-> m]}
              /\ written' = written \cup {m}
    BY DEF SendMessage
  <1> PICK m : m = [origin |-> n, seqno |-> q, channel |-> c,
                    text |-> Cardinality(written) + 1, created |-> now]
    OBVIOUS
  <1> PICK p : p = [type |-> "message", to |-> d, body |-> m]
    OBVIOUS
  <1>2. /\ counter' = [counter EXCEPT ![n] = q]
        /\ net' = net \cup {p}
        /\ written' = written \cup {m}
    BY <1>1
  <1>3. q \in 1 .. MaxSeq
    BY BoundAssumption DEF BoundAssumption, TableInv, Numbers
  <1>4. Cardinality(written) + 1 \in 1 .. MaxMsgs
    <2>1. Cardinality(written) \in Nat
      BY FS_CardinalityType DEF TableInv, History
    <2> QED
      BY <2>1, BoundAssumption DEF BoundAssumption, SendMessage
  <1>5. now \in 0 .. MaxTime
    BY DEF TableInv, Numbers
  <1>6. m \in Msg
    BY <1>3, <1>4, <1>5 DEF Msg
  <1>7. p \in Packet /\ p.type = "message"
    BY <1>6 DEF Packet
  <1>8. now' = now /\ store' = store /\ lastId' = lastId /\ rx' = rx
    BY DEF SendMessage, tableVars
  <1>9. Numbers'
    BY <1>2, <1>3, <1>8 DEF TableInv, Numbers
  <1>10. History'
    BY <1>2, <1>6, FS_AddElement DEF TableInv, History
  <1>11. UniqueRows' /\ Ids'
    BY <1>8 DEF TableInv, UniqueRows, Ids
  <1>12. Lists'
    BY <1>8 DEF TableInv, Lists, IsAnswer
  <1>13. Packets'
    BY <1>2, <1>7 DEF TableInv, Packets, IsPacket, IsAnswer
  <1> QED
    BY <1>9, <1>10, <1>11, <1>12, <1>13 DEF TableInv

\* A request carries the inventory, the gap or a time.
LEMMA AskTypes ==
  ASSUME TableInv, WrittenInv', NEW n \in Stations, NEW d \in Stations, NEW c \in Channels,
         NEW mode \in {"seqno", "range", "since_ts"}, Ask(n, d, c, mode)
  PROVE  TableInv'
  <1>1. PICK arg : /\ net' = net \cup {Request(n, d, c, mode, arg)}
                   /\ mode = "seqno" => arg = Inventory(n, c)
                   /\ mode = "range" => arg = Gap
                   /\ mode = "since_ts" => arg \in -1 .. now
    BY DEF Ask
  <1> PICK p : p = Request(n, d, c, mode, arg)
    OBVIOUS
  <1>2. LastN[n] \in Nat \ {0}
    BY LimitAssumption DEF LimitAssumption
  <1>3. p.type = "request"
    BY DEF Request
  <1>4. p \in Packet
    <2>1. CASE mode = "seqno"
      <3>1. arg \in [Stations -> 0 .. MaxSeq]
        BY <1>1, <2>1, InventoryType
      <3> QED
        BY <1>2, <2>1, <3>1 DEF Request, Packet
    <2>2. CASE mode = "range"
      BY <1>1, <1>2, <2>2 DEF Request, Packet
    <2>3. CASE mode = "since_ts"
      <3>1. arg \in -1 .. MaxTime
        BY <1>1, <2>3, BoundAssumption DEF BoundAssumption, TableInv, Numbers
      <3> QED
        BY <1>2, <2>3, <3>1 DEF Request, Packet
    <2> QED
      BY <2>1, <2>2, <2>3
  <1>5. IsPacket(p)
    BY <1>3, <1>4 DEF IsPacket
  <1> QED
    BY <1>1, <1>5, TypeFrame DEF Ask, tableVars

\* An answer goes to a station and carries records of the table.
LEMMA AnswerTypes ==
  ASSUME TableInv, WrittenInv', NEW n \in Stations, NEW t \in Threads, NEW p \in net,
         HandleSyncRequest(n, t, p)
  PROVE  TableInv'
  <1> PICK records : records = {Record(r) : r \in Answer(n, p)}
    OBVIOUS
  <1> PICK reply : reply = [type |-> "response", to |-> p.from, channel |-> p.channel,
                            mode |-> p.mode, records |-> records]
    OBVIOUS
  <1>1. net' \subseteq net \cup {reply}
    BY DEF HandleSyncRequest, Taken
  <1>2. p.type = "request"
    BY DEF HandleSyncRequest
  <1>3. p \in Packet
    BY <1>2 DEF TableInv, Packets, IsPacket
  <1>4. /\ p.from \in Stations /\ p.channel \in Channels
        /\ p.mode \in {"seqno", "range", "since_ts"}
    BY <1>2, <1>3 DEF Packet
  <1>5. ASSUME NEW r \in Answer(n, p) PROVE Record(r) \in Rec
    <2>1. r \in store[n]
      BY <1>4, AnswerRows
    <2> QED
      BY <2>1, RowTypes DEF Record, Rec
  <1>6. IsPacket(reply)
    BY <1>4, <1>5 DEF IsPacket, IsAnswer
  <1> QED
    BY <1>1, <1>6, TypeFrame DEF HandleSyncRequest, tableVars

\* Every step keeps the types.
LEMMA NextTypes == TableInv /\ [Next]_vars => TableInv'
  <1> SUFFICES ASSUME TableInv, [Next]_vars PROVE TableInv'
    OBVIOUS
  <1>1. WrittenInv' /\ UniqueRows'
    BY NextWritten, NextKeepsRows DEF TableInv
  <1>2. ASSUME NEW w \in Writes, SendMessage(w[1], w[2], w[3]) PROVE TableInv'
    <2>1. w[1] \in Stations /\ w[2] \in Stations /\ w[3] \in Channels
      BY AskAssumption DEF AskAssumption
    <2> QED
      BY <1>1, <1>2, <2>1, SendTypes
  <1>3. ASSUME NEW a \in Asks, Ask(a[1], a[2], a[3], a[4]) PROVE TableInv'
    <2>1. /\ a[1] \in Stations /\ a[2] \in Stations /\ a[3] \in Channels
          /\ a[4] \in {"seqno", "range", "since_ts"}
      BY AskAssumption DEF AskAssumption
    <2> QED
      BY <1>1, <1>3, <2>1, AskTypes
  <1>4. ASSUME NEW n \in Stations, LogSent(n) PROVE TableInv'
    <2>1. lastId' \in [Stations -> Nat] /\ Ids'
      BY <1>4, AddIds DEF LogSent
    <2>2. /\ now' = now /\ counter' = counter /\ rx' = rx /\ net' = net /\ written' = written
      BY <1>4 DEF LogSent
    <2> QED
      BY <1>1, <2>1, <2>2 DEF TableInv, Numbers, History, Lists, IsAnswer, Packets, IsPacket
  <1>5. ASSUME NEW n \in Stations, Prune(n) PROVE TableInv'
    <2>1. \A k \in Stations : store'[k] \subseteq store[k]
      BY <1>5, PruneDeletes DEF TableInv, UniqueRows
    <2>2. /\ now' = now /\ counter' = counter /\ rx' = rx /\ net' = net /\ written' = written
          /\ lastId' = lastId
      BY <1>5 DEF Prune
    <2>3. Ids'
      BY <2>1, <2>2 DEF TableInv, Ids
    <2> QED
      BY <1>1, <2>2, <2>3 DEF TableInv, Numbers, History, Lists, IsAnswer, Packets, IsPacket
  <1>6. ASSUME NEW n \in Stations, Restart(n) PROVE TableInv'
    <2>1. /\ now' = now /\ net' = net /\ written' = written
          /\ lastId' = lastId /\ store' = store
      BY <1>6 DEF Restart, tableVars
    <2>2. Numbers'
      BY <1>6, <2>1, BoundAssumption DEF BoundAssumption, Restart, TableInv, Numbers
    <2>3. Lists'
      <3>1. \A k \in Stations, u \in Threads : rx'[k][u] = IF k = n THEN None ELSE rx[k][u]
        BY <1>6 DEF Restart, TableInv, WrittenInv, Shape
      <3> QED
        BY <3>1 DEF TableInv, Lists, IsAnswer
    <2> QED
      BY <1>1, <2>1, <2>2, <2>3 DEF TableInv, History, Ids, Packets, IsPacket, IsAnswer
  <1>7. ASSUME NEW n \in Stations, NEW t \in Threads, NEW p \in net, HandleMessage(n, t, p)
        PROVE  TableInv'
    <2>1. lastId' \in [Stations -> Nat] /\ Ids'
      BY <1>7, AddIds DEF HandleMessage
    <2>2. /\ now' = now /\ counter' = counter /\ rx' = rx /\ written' = written
          /\ net' \subseteq net
      BY <1>7 DEF HandleMessage, Taken
    <2> QED
      BY <1>1, <2>1, <2>2 DEF TableInv, Numbers, History, Lists, IsAnswer, Packets, IsPacket
  <1>8. ASSUME NEW n \in Stations, NEW t \in Threads, NEW p \in net, HandleSyncRequest(n, t, p)
        PROVE  TableInv'
    BY <1>1, <1>8, AnswerTypes
  <1>9. ASSUME NEW n \in Stations, NEW t \in Threads, NEW p \in net, HandleSyncResponse(n, t, p)
        PROVE  TableInv'
    <2>1. /\ now' = now /\ counter' = counter /\ written' = written /\ net' \subseteq net
          /\ lastId' = lastId /\ store' = store
      BY <1>9 DEF HandleSyncResponse, Taken, tableVars
    <2>2. IsAnswer(p) /\ p.records \subseteq Rec
      BY <1>9 DEF HandleSyncResponse, TableInv, Packets, IsPacket
    <2> PICK w : w = Work(p, p.records, FALSE)
      OBVIOUS
    <2>3. \A k \in Stations, u \in Threads :
            rx'[k][u] = IF k = n /\ u = t
                        THEN IF p.records = {} THEN None ELSE w
                        ELSE rx[k][u]
      BY <1>9 DEF HandleSyncResponse, TableInv, WrittenInv, Shape
    <2>4. IsAnswer(w) /\ w.todo = p.records /\ w.absent = FALSE
      BY <2>2 DEF Work, IsAnswer
    <2>5. Lists'
      BY <2>2, <2>3, <2>4 DEF TableInv, Lists, IsAnswer
    <2> QED
      BY <1>1, <2>1, <2>5 DEF TableInv, Numbers, History, Ids, Packets, IsPacket, IsAnswer
  <1>10. ASSUME NEW n \in Stations, NEW t \in Threads, CheckRecord(n, t) PROVE TableInv'
    <2>1. /\ now' = now /\ counter' = counter /\ written' = written /\ net' = net
          /\ lastId' = lastId /\ store' = store /\ rx[n][t] # None
      BY <1>10 DEF CheckRecord, tableVars
    <2>2. PICK todo : \E absent \in BOOLEAN :
            todo \subseteq rx[n][t].todo /\ Continue(n, t, todo, absent)
      BY <1>10 DEF CheckRecord
    <2>3. Lists'
      BY <2>1, <2>2, ContinueLists
    <2> QED
      BY <1>1, <2>1, <2>3 DEF TableInv, Numbers, History, Ids, Packets, IsPacket, IsAnswer
  <1>11. ASSUME NEW n \in Stations, NEW t \in Threads, AddRecord(n, t) PROVE TableInv'
    <2>1. /\ now' = now /\ counter' = counter /\ written' = written /\ net' = net
          /\ rx[n][t] # None
      BY <1>11 DEF AddRecord
    <2>2. PICK r \in rx[n][t].todo : /\ AddMessage(n, Applied(rx[n][t], r))
                                     /\ Continue(n, t, rx[n][t].todo \ {r}, FALSE)
      BY <1>11 DEF AddRecord
    <2>3. Lists'
      BY <2>1, <2>2, ContinueLists
    <2>4. lastId' \in [Stations -> Nat] /\ Ids'
      BY <2>2, AddIds
    <2> QED
      BY <1>1, <2>1, <2>3, <2>4 DEF TableInv, Numbers, History, Packets, IsPacket, IsAnswer
  <1>12. ASSUME NEW p \in net, Lose(p) PROVE TableInv'
    BY <1>1, <1>12, TypeFrame DEF Lose, tableVars
  <1>13. CASE Tick
    <2>1. Numbers'
      BY <1>13, BoundAssumption DEF BoundAssumption, Tick, tableVars, TableInv, Numbers
    <2> QED
      BY <1>1, <1>13, <2>1 DEF Tick, tableVars, TableInv, History, Ids, Lists, Packets,
                               IsPacket, IsAnswer
  <1>14. CASE UNCHANGED vars
    BY <1>1, <1>14, TypeFrame DEF vars
  <1> QED
    BY <1>2, <1>3, <1>4, <1>5, <1>6, <1>7, <1>8, <1>9, <1>10, <1>11, <1>12, <1>13, <1>14
       DEF Next, RxStep, OnMeshAppData

\* Type correctness of the chat tables and their traffic: rows, requests,
\* inventories and answers keep their types, the table stays unique on
\* (origin_id, seqno), no row has an id that is still to be given, and a receive
\* thread that has a list always has a record to go on with.
THEOREM TypeCorrect == Spec => []TypeOK
  <1>1. Init => TableInv
    BY InitTypes
  <1>2. TableInv /\ [Next]_vars => TableInv'
    BY NextTypes
  <1>3. TableInv => TypeOK
    BY TableTypes
  <1> QED
    BY <1>1, <1>2, <1>3, PTL DEF Spec

-----------------------------------------------------------------------------
(* No holes.                                                               *)

\* What NoHoles rests on, for a station n that hears d by last-N sync alone:
\* windows as long as the history, no pruning at either, and an author that does
\* not start again.
Undisturbed(n, d) == /\ LastN[n] >= MaxMsgs /\ LastN[d] >= MaxMsgs
                     /\ MaxPrunes[n] = 0 /\ MaxPrunes[d] = 0
                     /\ MaxBoots[d] <= 1
LongWindows == \A a \in Asks : OnlyBySync(a[1], a[2], a[3]) => Undisturbed(a[1], a[2])

\* The history fits the windows; counters of processes and prunings; what a
\* station logs and sends is its own and goes where it may write to.
Bounds ==
    /\ Cardinality(written) <= MaxMsgs
    /\ boots \in [Stations -> Nat \ {0}] /\ prunes \in [Stations -> Nat]
    /\ \A n \in Stations : writing[n] # None => writing[n].origin = n
    /\ \A p \in net : p.type = "message" => <<p.body.origin, p.to, p.body.channel>> \in Writes

\* The messages of an author that does not start again have ascending numbers,
\* times and, in its own table, ids; only the last may not be logged yet.
Author(d) ==
    /\ \A m \in written : m.origin = d =>
         /\ m.seqno <= counter[d] /\ m.created <= now
         /\ Has(store[d], d, m.seqno) \/ writing[d] = m
         /\ writing[d] # None => m.seqno <= writing[d].seqno
    /\ \A m, k \in written : m.origin = d /\ k.origin = d =>
         /\ m.seqno = k.seqno => m = k
         /\ m.seqno < k.seqno => m.created <= k.created
    /\ \A r, s \in store[d] :
         r.origin = d /\ s.origin = d /\ r.seqno < s.seqno => r.id < s.id

\* Every message of d on c below q is in the table, or among the records R.
Complete(W, rows, d, c, q, R) ==
    \A m \in W : m.origin = d /\ m.channel = c /\ m.seqno < q =>
        Has(rows, d, m.seqno) \/ \E r \in R : r.origin = d /\ r.seqno = m.seqno

\* A list is worked through in the order of the numbers of d, and lacks nothing
\* that the table lacks.
Sound(W, rows, d, c, R) ==
    /\ \A r, s \in R : r.origin = d /\ s.origin = d /\ r.seqno < s.seqno =>
         Before("seqno", r, s)
    /\ \A s \in R : s.origin = d => Complete(W, rows, d, c, s.seqno, R)

\* What n has asked for, what is on its way to it, what its threads work on and
\* what it has.
Asking(p, n, d, c) == /\ p.to = d /\ p.mode = "seqno" /\ p.last_n = LastN[n]
                      /\ p.arg[d] <= counter[d]
                      /\ Complete(written, store[n], d, c, p.arg[d] + 1, {})
Hearer(n, d, c) ==
    /\ \A p \in net : p.type = "request" /\ p.from = n /\ p.channel = c => Asking(p, n, d, c)
    /\ \A p \in net : p.type = "response" /\ p.to = n /\ p.channel = c =>
         p.mode = "seqno" /\ Sound(written, store[n], d, c, p.records)
    /\ \A t \in Threads : rx[n][t] # None /\ rx[n][t].channel = c =>
         rx[n][t].mode = "seqno" /\ Sound(written, store[n], d, c, rx[n][t].todo)
    /\ \A s \in store[n] : s.channel = c /\ s.origin = d =>
         Complete(written, store[n], d, c, s.seqno, {})

Hears(n, d, c) == n # d /\ OnlyBySync(n, d, c)

HoleInv == /\ Bounds
           /\ \A a \in Asks : Hears(a[1], a[2], a[3]) =>
                Author(a[2]) /\ Hearer(a[1], a[2], a[3])

-----------------------------------------------------------------------------
\* The table holds no more rows than messages were written.
LEMMA RowsFit ==
  ASSUME TableInv, NEW n \in Stations
  PROVE  /\ IsFiniteSet(store[n]) /\ Cardinality(store[n]) \in Nat
         /\ Cardinality(store[n]) <= Cardinality(written)
  <1> DEFINE f == [r \in store[n] |-> Message(r)]
  <1>1. \A r \in store[n] : Message(r) \in written
    BY DEF TableInv, WrittenInv, StoredWasWritten
  <1>2. \A r, s \in store[n] : Message(r) = Message(s) => r = s
    <2> SUFFICES ASSUME NEW r \in store[n], NEW s \in store[n], Message(r) = Message(s)
                 PROVE  r = s
      OBVIOUS
    <2>1. r.origin = s.origin /\ r.seqno = s.seqno
      BY DEF Message
    <2> QED
      BY <2>1 DEF TableInv, UniqueRows
  <1>3. f \in Injection(store[n], written)
    BY <1>1, <1>2 DEF Injection, IsInjective
  <1>4. IsFiniteSet(written)
    BY DEF TableInv, History
  <1> HIDE DEF f
  <1> QED
    BY <1>3, <1>4, FS_Injection, FS_CardinalityType

\* The order of a window on rows and records.
Sortable(R) == \A r \in R : r.created \in Nat /\ r.id \in Nat
LEMMA WindowOrder ==
  ASSUME NEW R, Sortable(R)
  PROVE  /\ \A r \in R : ~Before("seqno", r, r)
         /\ \A r, s, u \in R : Before("seqno", r, s) /\ Before("seqno", s, u) =>
              Before("seqno", r, u)
  BY DEF Before, Sortable

\* A window that is long enough shows all rows of the channel.
LEMMA WholeWindow ==
  ASSUME TableInv, Bounds, NEW n \in Stations, NEW c, NEW k \in Nat, k >= MaxMsgs
  PROVE  GetLastNMessages(store[n], c, k) = OfChannel(store[n], c)
  <1> DEFINE rows == OfChannel(store[n], c)
  <1>1. rows \in SUBSET store[n]
    BY DEF OfChannel
  <1>2. Sortable(rows)
    BY <1>1, RowTypes, BoundAssumption DEF BoundAssumption, Sortable
  <1>3. IsFiniteSet(rows) /\ Cardinality(rows) \in Nat /\ Cardinality(rows) <= MaxMsgs
    <2>1. /\ IsFiniteSet(store[n]) /\ Cardinality(store[n]) \in Nat
          /\ Cardinality(store[n]) <= Cardinality(written)
      BY RowsFit
    <2>2. Cardinality(written) \in Nat /\ Cardinality(written) <= MaxMsgs /\ MaxMsgs \in Nat
      BY FS_CardinalityType, BoundAssumption DEF TableInv, History, Bounds, BoundAssumption
    <2>3. IsFiniteSet(rows) /\ Cardinality(rows) <= Cardinality(store[n])
      BY <1>1, <2>1, FS_Subset
    <2>4. Cardinality(rows) \in Nat
      BY <2>3, FS_CardinalityType
    <2> HIDE DEF rows
    <2> QED
      BY <2>1, <2>2, <2>3, <2>4
  <1> HIDE DEF rows
  <1>4. ASSUME NEW r \in rows
        PROVE  Cardinality({s \in rows : Before("seqno", r, s)}) < k
    <2> DEFINE T == {s \in rows : Before("seqno", r, s)}
    <2>1. T \in SUBSET (rows \ {r})
      BY <1>2, WindowOrder
    <2>2. IsFiniteSet(rows \ {r}) /\ Cardinality(rows \ {r}) = Cardinality(rows) - 1
      BY <1>3, FS_RemoveElement
    <2> HIDE DEF T
    <2>3. IsFiniteSet(T) /\ Cardinality(T) <= Cardinality(rows) - 1
      BY <2>1, <2>2, FS_Subset
    <2>4. Cardinality(T) \in Nat
      BY <2>3, FS_CardinalityType
    <2>5. MaxMsgs \in Nat
      BY BoundAssumption DEF BoundAssumption
    <2>6. Cardinality(T) < k
      BY <1>3, <2>3, <2>4, <2>5
    <2> QED
      BY <2>6 DEF T
  <1>5. LastOf(rows, "seqno", k) = rows
    BY <1>4 DEF LastOf
  <1> QED
    BY <1>5 DEF GetLastNMessages, rows

\* LIMIT k leaves out no row that is before one it takes.
LEMMA FirstOfDown ==
  ASSUME NEW R, Sortable(R), IsFiniteSet(R), NEW k \in Nat,
         NEW s \in FirstOf(R, "seqno", k), NEW r \in R, Before("seqno", r, s)
  PROVE  r \in FirstOf(R, "seqno", k)
  <1> DEFINE A == {x \in R : Before("seqno", x, r)}
             B == {x \in R : Before("seqno", x, s)}
  <1>1. s \in R /\ Cardinality(B) < k
    BY DEF FirstOf
  <1>2. A \in SUBSET B /\ B \in SUBSET R
    BY <1>1, WindowOrder
  <1>3. IsFiniteSet(B)
    BY <1>2, FS_Subset
  <1> HIDE DEF A, B
  <1>4. Cardinality(A) <= Cardinality(B) /\ IsFiniteSet(A)
    BY <1>2, <1>3, FS_Subset
  <1>5. Cardinality(A) \in Nat /\ Cardinality(B) \in Nat
    BY <1>3, <1>4, FS_CardinalityType
  <1>6. Cardinality(A) < k
    BY <1>1, <1>4, <1>5
  <1> QED
    BY <1>6 DEF A, FirstOf

\* Lists stay sound while the table grows and d writes nothing below them.
LEMMA CompleteKept ==
  ASSUME NEW W, NEW W2, NEW rows, NEW rows2, rows \subseteq rows2, NEW d, NEW c, NEW q, NEW R,
         Complete(W, rows, d, c, q, R),
         \A m \in W2 : m \in W \/ m.origin # d \/ ~(m.seqno < q)
  PROVE  Complete(W2, rows2, d, c, q, R)
  BY DEF Complete, Has

LEMMA SoundKept ==
  ASSUME NEW W, NEW W2, NEW rows, NEW rows2, rows \subseteq rows2, NEW d, NEW c, NEW R,
         Sound(W, rows, d, c, R),
         \A m \in W2 : m \in W \/ m.origin # d
                              \/ \A s \in R : s.origin = d => ~(m.seqno < s.seqno)
  PROVE  Sound(W2, rows2, d, c, R)
  <1>1. ASSUME NEW s \in R, s.origin = d PROVE Complete(W2, rows2, d, c, s.seqno, R)
    <2>1. Complete(W, rows, d, c, s.seqno, R)
      BY <1>1 DEF Sound
    <2> QED
      BY <1>1, <2>1, CompleteKept
  <1> QED
    BY <1>1 DEF Sound

-----------------------------------------------------------------------------
\* Steps that write nothing and send no message keep Bounds.
LEMMA BoundsFrame ==
  ASSUME Bounds, written' = written, boots' = boots, prunes' = prunes, writing' = writing,
         \A p \in net' : p.type = "message" => p \in net
  PROVE  Bounds'
  BY DEF Bounds

LEMMA NextBounds == TableInv /\ Bounds /\ [Next]_vars => Bounds'
  <1> SUFFICES ASSUME TableInv, Bounds, [Next]_vars PROVE Bounds'
    OBVIOUS
  <1> USE DEF tableVars
  <1>1. ASSUME NEW w \in Writes, SendMessage(w[1], w[2], w[3]) PROVE Bounds'
    <2>1. w = <<w[1], w[2], w[3]>> /\ w[1] \in Stations
      BY AskAssumption DEF AskAssumption
    <2> PICK n, d, c : n = w[1] /\ d = w[2] /\ c = w[3]
      OBVIOUS
    <2>2. PICK m : /\ m.origin = n /\ m.channel = c
                   /\ net' = net \cup {[type |-> "message", to |-> d, body |-> m]}
                   /\ writing' = [writing EXCEPT ![n] = m]
                   /\ written' = written \cup {m}
      BY <1>1 DEF SendMessage
    <2>3. /\ boots' = boots /\ prunes' = prunes /\ Cardinality(written) < MaxMsgs
      BY <1>1 DEF SendMessage
    <2>4. Cardinality(written') <= MaxMsgs
      <3>1. IsFiniteSet(written) /\ Cardinality(written) \in Nat /\ MaxMsgs \in Nat
        BY FS_CardinalityType, BoundAssumption DEF TableInv, History, BoundAssumption
      <3>2. /\ IsFiniteSet(written \cup {m})
            /\ Cardinality(written \cup {m})
                 = IF m \in written THEN Cardinality(written) ELSE Cardinality(written) + 1
        BY <3>1, FS_AddElement
      <3> QED
        BY <2>2, <2>3, <3>1, <3>2
    <2>5. \A k \in Stations : writing'[k] # None => writing'[k].origin = k
      BY <2>2 DEF Bounds, TableInv, WrittenInv, Shape
    <2>6. \A p \in net' : p.type = "message" => <<p.body.origin, p.to, p.body.channel>> \in Writes
      BY <2>1, <2>2 DEF Bounds
    <2> QED
      BY <2>3, <2>4, <2>5, <2>6 DEF Bounds
  <1>2. ASSUME NEW a \in Asks, Ask(a[1], a[2], a[3], a[4]) PROVE Bounds'
    <2>1. \A p \in net' : p.type = "message" => p \in net
      BY <1>2 DEF Ask, Request
    <2> QED
      BY <1>2, <2>1, BoundsFrame DEF Ask
  <1>3. ASSUME NEW n \in Stations, LogSent(n) PROVE Bounds'
    BY <1>3 DEF LogSent, Bounds, TableInv, WrittenInv, Shape
  <1>4. ASSUME NEW n \in Stations, Prune(n) PROVE Bounds'
    <2>1. prunes' \in [Stations -> Nat]
      BY <1>4 DEF Prune, Bounds
    <2> QED
      BY <1>4, <2>1 DEF Prune, Bounds
  <1>5. ASSUME NEW n \in Stations, Restart(n) PROVE Bounds'
    <2>1. boots' \in [Stations -> Nat \ {0}]
      BY <1>5 DEF Restart, Bounds
    <2> QED
      BY <1>5, <2>1 DEF Restart, Bounds, TableInv, WrittenInv, Shape
  <1>6. ASSUME NEW n \in Stations, NEW t \in Threads, NEW p \in net, HandleMessage(n, t, p)
        PROVE  Bounds'
    BY <1>6, BoundsFrame DEF HandleMessage, Taken
  <1>7. ASSUME NEW n \in Stations, NEW t \in Threads, NEW p \in net, HandleSyncRequest(n, t, p)
        PROVE  Bounds'
    <2>1. \A x \in net' : x.type = "message" => x \in net
      BY <1>7 DEF HandleSyncRequest, Taken
    <2> QED
      BY <1>7, <2>1, BoundsFrame DEF HandleSyncRequest
  <1>8. ASSUME NEW n \in Stations, NEW t \in Threads, NEW p \in net, HandleSyncResponse(n, t, p)
        PROVE  Bounds'
    BY <1>8, BoundsFrame DEF HandleSyncResponse, Taken
  <1>9. ASSUME NEW n \in Stations, NEW t \in Threads, CheckRecord(n, t) PROVE Bounds'
    BY <1>9, BoundsFrame DEF CheckRecord
  <1>10. ASSUME NEW n \in Stations, NEW t \in Threads, AddRecord(n, t) PROVE Bounds'
    BY <1>10, BoundsFrame DEF AddRecord
  <1>11. ASSUME NEW p \in net, Lose(p) PROVE Bounds'
    BY <1>11, BoundsFrame DEF Lose
  <1>12. CASE Tick
    BY <1>12, BoundsFrame DEF Tick
  <1>13. CASE UNCHANGED vars
    BY <1>13, BoundsFrame DEF vars
  <1> QED
    BY <1>1, <1>2, <1>3, <1>4, <1>5, <1>6, <1>7, <1>8, <1>9, <1>10, <1>11, <1>12, <1>13
       DEF Next, RxStep, OnMeshAppData

\* None is no message.
LEMMA MessageIsNotNone == \A m \in Msg : m # None
  BY NoneAssumption DEF NoneAssumption, Msg

\* Whatever a station stores, in whichever step, and whether it also finishes
\* logging its own message: an author's rows stay in the order it wrote them.
LEMMA AuthorAdds ==
  ASSUME TableInv, Bounds, NEW d \in Stations, Author(d), NEW n \in Stations, NEW m \in written,
         AddMessage(n, m), written' = written, counter' = counter, now' = now,
         writing'[d] = writing[d] \/ (n = d /\ m = writing[d] /\ writing'[d] = None)
  PROVE  Author(d)'
  <1>1. /\ \A r \in store'[d] :
             r \in store[d] \/ (d = n /\ r = Row(m, lastId[n] + 1)
                                      /\ ~Has(store[n], m.origin, m.seqno))
        /\ store[d] \subseteq store'[d]
    BY AddMessageRows DEF TableInv, UniqueRows
  <1>2. \A id : /\ Row(m, id).origin = m.origin /\ Row(m, id).seqno = m.seqno
                /\ Row(m, id).id = id
    BY DEF Row
  <1>3. \A q : Has(store[d], d, q) => Has(store'[d], d, q)
    BY <1>1 DEF Has
  <1>4. n = d => Has(store'[d], m.origin, m.seqno)
    BY <1>2 DEF AddMessage, Has, tableVars, TableInv, UniqueRows
  <1>5. ASSUME NEW k \in written, k.origin = d
        PROVE  /\ Has(store'[d], d, k.seqno) \/ writing'[d] = k
               /\ writing'[d] # None => k.seqno <= writing'[d].seqno
    <2>1. /\ Has(store[d], d, k.seqno) \/ writing[d] = k
          /\ writing[d] # None => k.seqno <= writing[d].seqno
      BY <1>5 DEF Author
    <2> QED
      BY <1>3, <1>4, <1>5, <2>1
  <1>6. ASSUME NEW r \in store'[d], NEW s \in store'[d], r.origin = d, s.origin = d,
               r.seqno < s.seqno
        PROVE  r.id < s.id
    <2>1. /\ \A x \in store[d] : x.id \in 1 .. lastId[d] /\ x.seqno \in Nat
          /\ lastId[d] \in Nat
      BY RowTypes DEF TableInv, Ids, Numbers
    <2>2. CASE r \in store[d] /\ s \in store[d]
      BY <1>6, <2>2 DEF Author
    <2>3. CASE s \notin store[d]
      <3>1. s.id = lastId[d] + 1
        BY <1>1, <1>2, <2>3
      <3>2. r \in store[d]
        <4> SUFFICES ASSUME r \notin store[d] PROVE FALSE
          OBVIOUS
        <4>1. r.seqno = m.seqno /\ s.seqno = m.seqno /\ m.seqno \in Nat
          BY <1>1, <1>2, <2>3 DEF TableInv, History, Msg
        <4> QED
          BY <1>6, <4>1
      <3> QED
        BY <2>1, <3>1, <3>2
    <2>4. CASE r \notin store[d] /\ s \in store[d]
      <3>1. n = d /\ r.seqno = m.seqno /\ m.origin = d /\ ~Has(store[d], d, m.seqno)
        BY <1>1, <1>2, <1>6, <2>4
      <3>2. writing[d] = m /\ writing[d] # None
        <4>1. writing[d] = m
          BY <3>1 DEF Author
        <4>2. m # None
          BY MessageIsNotNone DEF TableInv, History
        <4> QED
          BY <4>1, <4>2
      <3>3. Message(s) \in written /\ Message(s).origin = d /\ Message(s).seqno = s.seqno
        BY <1>6, <2>4 DEF TableInv, WrittenInv, StoredWasWritten, Message
      <3>4. s.seqno <= m.seqno
        BY <3>2, <3>3 DEF Author
      <3>5. s.seqno \in Nat /\ m.seqno \in Nat
        BY <2>1, <2>4 DEF TableInv, History, Msg
      <3> QED
        BY <1>6, <3>1, <3>4, <3>5
    <2> QED
      BY <2>2, <2>3, <2>4
  <1> QED
    BY <1>5, <1>6 DEF Author

\* A message gets the next number and the present time.
LEMMA AuthorSends ==
  ASSUME TableInv, NEW d \in Stations, Author(d), NEW n \in Stations, NEW x, NEW c,
         SendMessage(n, x, c), TableInv'
  PROVE  Author(d)'
  <1>1. PICK q, m :
          /\ q \in counter[n] + 1 .. MaxSeq
          /\ m = [origin |-> n, seqno |-> q, channel |-> c,
                  text |-> Cardinality(written) + 1, created |-> now]
          /\ counter' = [counter EXCEPT ![n] = q]
          /\ writing' = [writing EXCEPT ![n] = m]
          /\ written' = written \cup {m}
    BY DEF SendMessage
  <1>2. store' = store /\ now' = now /\ writing[n] = None
    BY DEF SendMessage, tableVars
  <1>3. m.origin = n /\ m.seqno = q /\ m.created = now
    BY <1>1
  <1>4. /\ now \in Nat /\ counter[n] \in Nat /\ q \in Nat /\ q > counter[n]
        /\ counter'[n] = q /\ counter[d] \in Nat
        /\ \A k \in written : k.seqno \in Nat /\ k.created \in Nat
    BY <1>1, BoundAssumption DEF TableInv, Numbers, History, Msg, BoundAssumption
  <1>5. \A k \in Stations : k # n => counter'[k] = counter[k] /\ writing'[k] = writing[k]
    BY <1>1 DEF TableInv, Numbers, WrittenInv, Shape
  <1>6. writing'[n] = m
    BY <1>1 DEF TableInv, WrittenInv, Shape
  <1>7. CASE n = d
    <2>1. ASSUME NEW k \in written, k.origin = d
          PROVE  /\ k.seqno < q /\ k.created <= now /\ Has(store[d], d, k.seqno)
      <3>1. writing[d] = None /\ k # None
        BY <1>2, <1>7, MessageIsNotNone DEF TableInv, History
      <3> QED
        BY <1>4, <1>7, <2>1, <3>1 DEF Author
    <2>2. ASSUME NEW k \in written', k.origin = d
          PROVE  /\ k.seqno <= counter'[d] /\ k.created <= now'
                 /\ Has(store'[d], d, k.seqno) \/ writing'[d] = k
                 /\ k.seqno <= writing'[d].seqno
      <3>1. CASE k = m
        BY <1>2, <1>3, <1>4, <1>6, <1>7, <3>1
      <3>2. CASE k \in written
        <4>1. /\ k.seqno < q /\ k.created <= now /\ Has(store[d], d, k.seqno)
              /\ k.seqno \in Nat
          BY <2>1, <2>2, <3>2, <1>4
        <4> QED
          BY <1>2, <1>3, <1>4, <1>6, <1>7, <4>1
      <3> QED
        BY <1>1, <3>1, <3>2
    <2>3. ASSUME NEW k \in written', NEW l \in written', k.origin = d, l.origin = d
          PROVE  /\ k.seqno = l.seqno => k = l
                 /\ k.seqno < l.seqno => k.created <= l.created
      <3>1. CASE k \in written /\ l \in written
        BY <2>3, <3>1 DEF Author
      <3>2. CASE k = m /\ l = m
        BY <1>3, <1>4, <3>2
      <3>3. CASE k = m /\ l \in written
        BY <1>3, <1>4, <2>1, <2>3, <3>3
      <3>4. CASE k \in written /\ l = m
        BY <1>3, <1>4, <2>1, <2>3, <3>4
      <3> QED
        BY <1>1, <3>1, <3>2, <3>3, <3>4
    <2> QED
      BY <1>2, <2>2, <2>3 DEF Author
  <1>8. CASE n # d
    <2>1. \A k \in written' : k.origin = d => k \in written
      BY <1>1, <1>3, <1>8
    <2> QED
      BY <1>2, <1>5, <1>8, <2>1 DEF Author
  <1> QED
    BY <1>7, <1>8

\* Steps that neither write nor store.
LEMMA AuthorFrame ==
  ASSUME TableInv, NEW d \in Stations, Author(d), store'[d] = store[d],
         counter'[d] = counter[d], writing'[d] = writing[d], written' = written,
         now' \in Nat, now <= now'
  PROVE  Author(d)'
  <1>1. now \in Nat /\ \A m \in written : m.created \in Nat
    BY BoundAssumption DEF TableInv, Numbers, History, Msg, BoundAssumption
  <1> QED
    BY <1>1 DEF Author

\* An author that does not prune and does not start again.
LEMMA NextAuthor ==
  ASSUME TableInv, TableInv', Bounds, NEW d \in Stations, Author(d), [Next]_vars,
         MaxPrunes[d] = 0, MaxBoots[d] <= 1
  PROVE  Author(d)'
  <1> USE DEF tableVars
  <1>0. now \in Nat /\ now' \in Nat
    BY BoundAssumption DEF TableInv, Numbers, BoundAssumption
  <1>1. ASSUME NEW w \in Writes, SendMessage(w[1], w[2], w[3]) PROVE Author(d)'
    <2>1. w[1] \in Stations
      BY AskAssumption DEF AskAssumption
    <2> QED
      BY <1>1, <2>1, AuthorSends
  <1>2. ASSUME NEW a \in Asks, Ask(a[1], a[2], a[3], a[4]) PROVE Author(d)'
    BY <1>0, <1>2, AuthorFrame DEF Ask
  <1>3. ASSUME NEW n \in Stations, LogSent(n) PROVE Author(d)'
    <2>1. writing[n] \in written
      BY <1>3 DEF LogSent, TableInv, WrittenInv, LoggedWasWritten
    <2>2. writing'[d] = IF n = d THEN None ELSE writing[d]
      BY <1>3 DEF LogSent, TableInv, WrittenInv, Shape
    <2>3. written' = written /\ counter' = counter /\ now' = now /\ AddMessage(n, writing[n])
      BY <1>3 DEF LogSent
    <2> PICK m \in written : m = writing[n]
      BY <2>1
    <2>4. writing'[d] = writing[d] \/ (n = d /\ m = writing[d] /\ writing'[d] = None)
      BY <2>2
    <2> QED
      BY <2>3, <2>4, AuthorAdds
  <1>4. ASSUME NEW n \in Stations, Prune(n) PROVE Author(d)'
    <2>1. n # d
      BY <1>4 DEF Prune, Bounds
    <2>2. store'[d] = store[d]
      BY <1>4, <2>1 DEF Prune, PruneDb, RunRetention, TableInv, UniqueRows
    <2> QED
      BY <1>0, <1>4, <2>2, AuthorFrame DEF Prune
  <1>5. ASSUME NEW n \in Stations, Restart(n) PROVE Author(d)'
    <2>1. n # d
      <3>1. boots[d] \in Nat \ {0} /\ MaxBoots[d] \in Nat
        BY BoundAssumption DEF Bounds, BoundAssumption
      <3> QED
        BY <1>5, <3>1 DEF Restart
    <2>2. counter'[d] = counter[d] /\ writing'[d] = writing[d]
      BY <1>5, <2>1 DEF Restart, TableInv, Numbers, WrittenInv, Shape
    <2> QED
      BY <1>0, <1>5, <2>2, AuthorFrame DEF Restart
  <1>6. ASSUME NEW n \in Stations, NEW t \in Threads, NEW p \in net, HandleMessage(n, t, p)
        PROVE  Author(d)'
    <2>1. p.body \in written
      BY <1>6 DEF HandleMessage, TableInv, WrittenInv, SentWasWritten
    <2> QED
      BY <1>6, <2>1, AuthorAdds DEF HandleMessage
  <1>7. ASSUME NEW n \in Stations, NEW t \in Threads, NEW p \in net, HandleSyncRequest(n, t, p)
        PROVE  Author(d)'
    BY <1>0, <1>7, AuthorFrame DEF HandleSyncRequest
  <1>8. ASSUME NEW n \in Stations, NEW t \in Threads, NEW p \in net, HandleSyncResponse(n, t, p)
        PROVE  Author(d)'
    BY <1>0, <1>8, AuthorFrame DEF HandleSyncResponse
  <1>9. ASSUME NEW n \in Stations, NEW t \in Threads, CheckRecord(n, t) PROVE Author(d)'
    BY <1>0, <1>9, AuthorFrame DEF CheckRecord
  <1>10. ASSUME NEW n \in Stations, NEW t \in Threads, AddRecord(n, t) PROVE Author(d)'
    <2>1. PICK r \in rx[n][t].todo : AddMessage(n, Applied(rx[n][t], r))
      BY <1>10 DEF AddRecord
    <2>2. Applied(rx[n][t], r) \in written
      BY <1>10 DEF AddRecord, TableInv, WrittenInv, TodoWasWritten
    <2>3. /\ written' = written /\ counter' = counter /\ now' = now /\ writing' = writing
      BY <1>10 DEF AddRecord
    <2> PICK m \in written : m = Applied(rx[n][t], r)
      BY <2>2
    <2> QED
      BY <2>1, <2>3, AuthorAdds
  <1>11. ASSUME NEW p \in net, Lose(p) PROVE Author(d)'
    BY <1>0, <1>11, AuthorFrame DEF Lose
  <1>12. CASE Tick
    BY <1>0, <1>12, AuthorFrame DEF Tick
  <1>13. CASE UNCHANGED vars
    BY <1>0, <1>13, AuthorFrame DEF vars
  <1> QED
    BY <1>1, <1>2, <1>3, <1>4, <1>5, <1>6, <1>7, <1>8, <1>9, <1>10, <1>11, <1>12, <1>13
       DEF Next, RxStep, OnMeshAppData

-----------------------------------------------------------------------------
\* Steps after which everything for n is as before, or as it has to be.
LEMMA HearerFrame ==
  ASSUME NEW n \in Stations, NEW d \in Stations, NEW c, Hearer(n, d, c),
         written' = written, counter'[d] = counter[d], store[n] \subseteq store'[n],
         \A p \in net' : p.type = "request" /\ p.from = n /\ p.channel = c =>
             p \in net \/ Asking(p, n, d, c)',
         \A p \in net' : p.type = "response" /\ p.to = n /\ p.channel = c =>
             p \in net \/ (p.mode = "seqno" /\ Sound(written', store'[n], d, c, p.records)),
         \A t \in Threads : rx'[n][t] # None /\ rx'[n][t].channel = c =>
             rx'[n][t] = rx[n][t] \/
               (rx'[n][t].mode = "seqno" /\ Sound(written', store'[n], d, c, rx'[n][t].todo)),
         \A s \in store'[n] : s.channel = c /\ s.origin = d =>
             s \in store[n] \/ Complete(written', store'[n], d, c, s.seqno, {})
  PROVE  Hearer(n, d, c)'
  <1> PICK rows, rows2 : rows = store[n] /\ rows2 = store'[n]
    OBVIOUS
  <1>1. ASSUME NEW p \in net', p.type = "request", p.from = n, p.channel = c, p \in net
        PROVE  Asking(p, n, d, c)'
    <2>1. Complete(written, rows, d, c, p.arg[d] + 1, {})
      BY <1>1 DEF Hearer, Asking
    <2>2. Complete(written', rows2, d, c, p.arg[d] + 1, {})
      BY <2>1 DEF Complete, Has
    <2> QED
      BY <1>1, <2>2 DEF Hearer, Asking
  <1>2. ASSUME NEW p \in net', p.type = "response", p.to = n, p.channel = c, p \in net
        PROVE  p.mode = "seqno" /\ Sound(written', store'[n], d, c, p.records)
    <2>1. p.mode = "seqno" /\ Sound(written, rows, d, c, p.records)
      BY <1>2 DEF Hearer
    <2>2. Sound(written', rows2, d, c, p.records)
      BY <2>1, SoundKept
    <2> QED
      BY <2>1, <2>2
  <1>3. ASSUME NEW t \in Threads, rx'[n][t] # None, rx'[n][t].channel = c, rx'[n][t] = rx[n][t]
        PROVE  rx'[n][t].mode = "seqno" /\ Sound(written', store'[n], d, c, rx'[n][t].todo)
    <2> PICK w : w = rx[n][t]
      OBVIOUS
    <2>1. w.mode = "seqno" /\ Sound(written, rows, d, c, w.todo)
      BY <1>3 DEF Hearer
    <2>2. Sound(written', rows2, d, c, w.todo)
      BY <2>1, SoundKept
    <2> QED
      BY <1>3, <2>1, <2>2
  <1>4. ASSUME NEW s \in store'[n], s.channel = c, s.origin = d, s \in store[n]
        PROVE  Complete(written', store'[n], d, c, s.seqno, {})
    <2>1. Complete(written, rows, d, c, s.seqno, {})
      BY <1>4 DEF Hearer
    <2>2. Complete(written', rows2, d, c, s.seqno, {})
      BY <2>1 DEF Complete, Has
    <2> QED
      BY <2>2
  <1> QED
    BY <1>1, <1>2, <1>3, <1>4 DEF Hearer

\* The inventory of a request: what is at or below its number is there.
LEMMA InventoryComplete ==
  ASSUME TableInv, Bounds, NEW n \in Stations, NEW d \in Stations, NEW c, Hearer(n, d, c),
         Author(d), LastN[n] >= MaxMsgs
  PROVE  /\ Inventory(n, c)[d] <= counter[d]
         /\ Complete(written, store[n], d, c, Inventory(n, c)[d] + 1, {})
  <1> DEFINE T == {s \in OfChannel(store[n], c) : s.origin = d}
             S == {0} \cup {r.seqno : r \in T}
             q == Max(S)
  <1>1. GetLastNMessages(store[n], c, LastN[n]) = OfChannel(store[n], c)
    BY WholeWindow, LimitAssumption DEF LimitAssumption
  <1>2. Inventory(n, c)[d] = q
    BY <1>1 DEF Inventory
  <1>3. \A r \in T : r \in store[n] /\ r.channel = c /\ r.origin = d
    BY DEF OfChannel
  <1>4. \A r \in store[n] : r.seqno \in 1 .. MaxSeq
    BY RowTypes
  <1>5. S \in SUBSET (0 .. MaxSeq) /\ S # {} /\ MaxSeq \in Nat
    BY <1>3, <1>4, BoundAssumption DEF BoundAssumption
  <1> HIDE DEF T
  <1>6. q \in S
    <2> HIDE DEF S
    <2> QED
      BY <1>5, MaxIsMember
  <1>7. counter[d] \in Nat /\ q \in Nat
    BY <1>5, <1>6, BoundAssumption DEF TableInv, Numbers, BoundAssumption
  <1>8. \A m \in written : m.seqno \in Nat \ {0}
    BY DEF TableInv, History, Msg
  <1> HIDE DEF q
  <1>9. CASE q = 0
    <2>1. Complete(written, store[n], d, c, q + 1, {})
      BY <1>8, <1>9 DEF Complete
    <2> QED
      BY <1>2, <1>7, <1>9, <2>1
  <1>10. ASSUME NEW r \in T, q = r.seqno
         PROVE  q <= counter[d] /\ Complete(written, store[n], d, c, q + 1, {})
    <2>1. r \in store[n] /\ r.channel = c /\ r.origin = d
      BY <1>3
    <2>2. Complete(written, store[n], d, c, q, {})
      BY <1>10, <2>1 DEF Hearer
    <2>3. Has(store[n], d, q)
      BY <1>10, <2>1 DEF Has
    <2>4. Complete(written, store[n], d, c, q + 1, {})
      BY <1>7, <1>8, <2>2, <2>3 DEF Complete
    <2>5. Message(r) \in written /\ Message(r).origin = d /\ Message(r).seqno = q
      BY <1>10, <2>1 DEF TableInv, WrittenInv, StoredWasWritten, Message
    <2> QED
      BY <2>4, <2>5 DEF Author
  <1> QED
    BY <1>2, <1>6, <1>9, <1>10 DEF S

\* The author's answer holds every message that n lacks, from the first one on.
LEMMA AnswerSound ==
  ASSUME TableInv, Bounds, NEW n \in Stations, NEW d \in Stations, NEW c \in Channels,
         Author(d), Undisturbed(n, d),
         NEW p, Asking(p, n, d, c), p.channel = c, p.arg[d] \in Nat
  PROVE  Sound(written, store[n], d, c, {Record(r) : r \in Answer(d, p)})
  <1> DEFINE rows == OfChannel(store[d], c)
             fresh == {r \in rows : r.seqno > p.arg[r.origin]}
             ans == FirstOf(fresh, "seqno", MaxSend)
             recs == {Record(r) : r \in ans}
  <1>1. WindowFor(d, p) = rows
    <2>1. Min({p.last_n, LastN[d]}) \in Nat /\ Min({p.last_n, LastN[d]}) >= MaxMsgs
      <3>1. p.last_n \in Nat /\ LastN[d] \in Nat /\ p.last_n >= MaxMsgs /\ LastN[d] >= MaxMsgs
        BY LimitAssumption DEF LimitAssumption, Asking, Undisturbed
      <3>2. Min({p.last_n, LastN[d]}) \in {p.last_n, LastN[d]}
        BY <3>1 DEF Min
      <3> QED
        BY <3>1, <3>2
    <2> QED
      BY <2>1, WholeWindow DEF WindowFor
  <1>2. Answer(d, p) = ans
    BY <1>1 DEF Answer, Asking
  <1>3. /\ fresh \in SUBSET store[d] /\ IsFiniteSet(fresh) /\ ans \subseteq fresh
        /\ \A r \in fresh : r.channel = c
    <2>1. fresh \in SUBSET store[d] /\ \A r \in fresh : r.channel = c
      BY DEF OfChannel
    <2> QED
      BY <2>1, RowsFit, FS_Subset DEF FirstOf
  <1>4. Sortable(fresh)
    BY <1>3, RowTypes, BoundAssumption DEF BoundAssumption, Sortable
  <1>5. ASSUME NEW r \in store[d], NEW s \in store[d], r.origin = d, s.origin = d,
               r.seqno < s.seqno
        PROVE  Before("seqno", r, s) /\ Before("seqno", Record(r), Record(s))
    <2>1. r.id < s.id
      BY <1>5 DEF Author
    <2>2. r.created <= s.created
      <3>1. /\ Message(r) \in written /\ Message(s) \in written
            /\ Message(r).origin = d /\ Message(r).seqno = r.seqno
            /\ Message(s).origin = d /\ Message(s).seqno = s.seqno
            /\ Message(r).created = r.created /\ Message(s).created = s.created
        BY <1>5 DEF TableInv, WrittenInv, StoredWasWritten, Message
      <3> PICK m, k : m = Message(r) /\ k = Message(s)
        OBVIOUS
      <3> QED
        BY <1>5, <3>1 DEF Author
    <2>3. r.created \in Nat /\ s.created \in Nat
      BY RowTypes, BoundAssumption DEF BoundAssumption
    <2>4. /\ Record(r).created = r.created /\ Record(s).created = s.created
          /\ Record(r).id = r.id /\ Record(s).id = s.id
      BY DEF Record
    <2> QED
      BY <2>1, <2>2, <2>3, <2>4 DEF Before
  <1>6. \A r : Record(r).origin = r.origin /\ Record(r).seqno = r.seqno
    BY DEF Record
  <1> HIDE DEF fresh, ans
  <1>7. ASSUME NEW x \in recs, NEW y \in recs, x.origin = d, y.origin = d, x.seqno < y.seqno
        PROVE  Before("seqno", x, y)
    <2>1. PICK r \in ans, s \in ans : x = Record(r) /\ y = Record(s)
      OBVIOUS
    <2> QED
      BY <1>3, <1>5, <1>6, <1>7, <2>1
  <1>8. ASSUME NEW y \in recs, y.origin = d, NEW m \in written, m.origin = d, m.channel = c,
               m.seqno < y.seqno
        PROVE  Has(store[n], d, m.seqno) \/ \E x \in recs : x.origin = d /\ x.seqno = m.seqno
    <2>1. PICK s \in ans : y = Record(s)
      OBVIOUS
    <2>2. s \in store[d] /\ s.channel = c /\ s.origin = d /\ s.seqno = y.seqno
      BY <1>3, <1>6, <1>8, <2>1
    <2>3. m.seqno \in Nat /\ s.seqno \in Nat
      BY <2>2, RowTypes DEF TableInv, History, Msg
    <2>4. CASE m.seqno <= p.arg[d]
      <3>1. m.seqno < p.arg[d] + 1
        BY <2>3, <2>4
      <3> QED
        BY <1>8, <3>1 DEF Asking, Complete
    <2>5. CASE ~(m.seqno <= p.arg[d])
      <3>1. Has(store[d], d, m.seqno)
        <4>1. Message(s) \in written /\ Message(s).origin = d /\ Message(s).seqno = s.seqno
          BY <2>2 DEF TableInv, WrittenInv, StoredWasWritten, Message
        <4>2. m # None
          BY MessageIsNotNone DEF TableInv, History
        <4>3. writing[d] # m
          BY <1>8, <2>2, <2>3, <4>1, <4>2 DEF Author
        <4> QED
          BY <1>8, <4>3 DEF Author
      <3>2. PICK r \in store[d] : r.origin = d /\ r.seqno = m.seqno
        BY <3>1 DEF Has
      <3>3. r.channel = c
        <4>1. Message(r) \in written /\ Message(r).origin = d /\ Message(r).seqno = m.seqno
              /\ Message(r).channel = r.channel
          BY <3>2 DEF TableInv, WrittenInv, StoredWasWritten, Message
        <4>2. Message(r) = m
          BY <1>8, <4>1 DEF Author
        <4> QED
          BY <1>8, <4>1, <4>2
      <3>4. r \in fresh
        BY <2>3, <2>5, <3>2, <3>3 DEF fresh, OfChannel
      <3>5. Before("seqno", r, s)
        BY <1>5, <1>8, <2>2, <3>2
      <3>6. r \in ans
        <4>1. MaxSend \in Nat
          BY LimitAssumption DEF LimitAssumption
        <4> QED
          BY <1>3, <1>4, <3>4, <3>5, <4>1, FirstOfDown DEF ans
      <3>7. Record(r) \in recs
        BY <3>6
      <3> QED
        BY <1>6, <3>2, <3>7
    <2> QED
      BY <2>4, <2>5
  <1>9. Sound(written, store[n], d, c, recs)
    <2> HIDE DEF recs
    <2>1. \A y \in recs : y.origin = d => Complete(written, store[n], d, c, y.seqno, recs)
      BY <1>8 DEF Complete
    <2> QED
      BY <1>7, <2>1 DEF Sound
  <1> QED
    BY <1>2, <1>9

\* A new message of d is above everything that n has, has asked for or is sent.
LEMMA HearerSend ==
  ASSUME TableInv, NEW n \in Stations, NEW d \in Stations, NEW c, Hearer(n, d, c), Author(d),
         NEW y \in Stations, NEW x, NEW e, SendMessage(y, x, e)
  PROVE  Hearer(n, d, c)'
  <1>1. PICK q, m :
          /\ q \in counter[y] + 1 .. MaxSeq
          /\ m.origin = y /\ m.seqno = q
          /\ counter' = [counter EXCEPT ![y] = q]
          /\ net' = net \cup {[type |-> "message", to |-> x, body |-> m]}
          /\ written' = written \cup {m}
    BY DEF SendMessage
  <1>2. store' = store /\ rx' = rx
    BY DEF SendMessage, tableVars
  <1>3. /\ counter[d] \in Nat /\ counter'[d] \in Nat /\ counter[d] <= counter'[d]
        /\ q \in Nat /\ (y = d => counter[d] < q)
    BY <1>1, BoundAssumption DEF TableInv, Numbers, BoundAssumption
  <1>4. \A k \in written' : k \in written \/ k.origin # d \/ counter[d] < k.seqno
    BY <1>1, <1>3
  <1>5. \A k \in written' : k \in written \/ k.seqno = q
    BY <1>1
  <1>6. \A p \in net' : p.type # "message" => p \in net
    BY <1>1
  <1>7. \A k \in written : k.origin = d => k.seqno <= counter[d] /\ k.seqno \in Nat
    BY DEF Author, TableInv, History, Msg
  <1> PICK W2, rows : W2 = written' /\ rows = store[n]
    OBVIOUS
  <1>8. ASSUME NEW s, s \in Nat, s <= counter[d] + 1, NEW R, Complete(written, rows, d, c, s, R)
        PROVE  Complete(W2, rows, d, c, s, R)
    <2>1. \A k \in W2 : k \in written \/ k.origin # d \/ ~(k.seqno < s)
      BY <1>3, <1>4, <1>5, <1>8
    <2> QED
      BY <1>8, <2>1, CompleteKept
  <1>9. ASSUME NEW R, \A s \in R : s.origin = d => s.seqno \in Nat /\ s.seqno <= counter[d],
               Sound(written, rows, d, c, R)
        PROVE  Sound(W2, rows, d, c, R)
    <2>1. \A k \in W2 : k \in written \/ k.origin # d
                                      \/ \A s \in R : s.origin = d => ~(k.seqno < s.seqno)
      BY <1>3, <1>4, <1>5, <1>9
    <2> QED
      BY <1>9, <2>1, SoundKept
  <1>10. ASSUME NEW p \in net', p.type = "request", p.from = n, p.channel = c
         PROVE  Asking(p, n, d, c)'
    <2>1. p \in net
      BY <1>6, <1>10
    <2>2. Asking(p, n, d, c)
      BY <1>10, <2>1 DEF Hearer
    <2>3. p.arg[d] \in Nat
      <3>1. p \in Packet
        BY <1>10, <2>1 DEF TableInv, Packets, IsPacket
      <3>2. p.arg \in [Stations -> 0 .. MaxSeq]
        BY <1>10, <2>2, <3>1 DEF Packet, Asking
      <3> QED
        BY <3>2, BoundAssumption DEF BoundAssumption
    <2>4. Complete(W2, rows, d, c, p.arg[d] + 1, {})
      <3>1. p.arg[d] + 1 \in Nat /\ p.arg[d] + 1 <= counter[d] + 1
        BY <1>3, <2>2, <2>3 DEF Asking
      <3>2. Complete(written, rows, d, c, p.arg[d] + 1, {})
        BY <2>2 DEF Asking
      <3> QED
        BY <1>8, <3>1, <3>2
    <2> QED
      BY <1>2, <1>3, <2>2, <2>3, <2>4 DEF Asking
  <1>11. ASSUME NEW p \in net', p.type = "response", p.to = n, p.channel = c
         PROVE  p.mode = "seqno" /\ Sound(written', store'[n], d, c, p.records)
    <2>1. p \in net
      BY <1>6, <1>11
    <2>2. p.mode = "seqno" /\ Sound(written, rows, d, c, p.records)
      BY <1>11, <2>1 DEF Hearer
    <2>3. \A s \in p.records : s.origin = d => s.seqno \in Nat /\ s.seqno <= counter[d]
      <3>1. \A s \in p.records : Applied(p, s) \in written
        BY <1>11, <2>1 DEF TableInv, WrittenInv, SentWasWritten
      <3>2. \A s : Applied(p, s).origin = s.origin /\ Applied(p, s).seqno = s.seqno
        BY DEF Applied
      <3> QED
        BY <1>7, <3>1, <3>2
    <2> QED
      BY <1>2, <1>9, <2>2, <2>3
  <1>12. ASSUME NEW t \in Threads, rx'[n][t] # None, rx'[n][t].channel = c
         PROVE  rx'[n][t].mode = "seqno" /\ Sound(written', store'[n], d, c, rx'[n][t].todo)
    <2> PICK w : w = rx[n][t]
      OBVIOUS
    <2>1. w.mode = "seqno" /\ Sound(written, rows, d, c, w.todo)
      BY <1>2, <1>12 DEF Hearer
    <2>2. \A s \in w.todo : s.origin = d => s.seqno \in Nat /\ s.seqno <= counter[d]
      <3>1. \A s \in w.todo : Applied(w, s) \in written
        BY <1>2, <1>12 DEF TableInv, WrittenInv, TodoWasWritten
      <3>2. \A s : Applied(w, s).origin = s.origin /\ Applied(w, s).seqno = s.seqno
        BY DEF Applied
      <3> QED
        BY <1>7, <3>1, <3>2
    <2>3. Sound(W2, rows, d, c, w.todo)
      BY <1>9, <2>1, <2>2
    <2> QED
      BY <1>2, <2>1, <2>3
  <1>13. ASSUME NEW s \in store'[n], s.channel = c, s.origin = d
         PROVE  Complete(written', store'[n], d, c, s.seqno, {})
    <2>1. Complete(written, rows, d, c, s.seqno, {})
      BY <1>2, <1>13 DEF Hearer
    <2>2. Message(s) \in written /\ Message(s).origin = d /\ Message(s).seqno = s.seqno
      BY <1>2, <1>13 DEF TableInv, WrittenInv, StoredWasWritten, Message
    <2>3. s.seqno \in Nat /\ s.seqno <= counter[d] + 1
      BY <1>3, <1>7, <2>2
    <2> QED
      BY <1>2, <1>8, <2>1, <2>3
  <1> QED
    BY <1>10, <1>11, <1>12, <1>13 DEF Hearer

\* Steps that store a message which is not one of d on c, or which lacks nothing
\* before it.
LEMMA HearerStore ==
  ASSUME TableInv, NEW n \in Stations, NEW d \in Stations, NEW c, Hearer(n, d, c),
         NEW y \in Stations, NEW m \in written, AddMessage(y, m),
         written' = written, counter' = counter, net' \subseteq net,
         y = n => m.origin # d \/ m.channel # c \/ Complete(written, store[n], d, c, m.seqno, {}),
         \A t \in Threads : rx'[n][t] # None /\ rx'[n][t].channel = c =>
             rx'[n][t] = rx[n][t] \/
               (rx'[n][t].mode = "seqno" /\ Sound(written', store'[n], d, c, rx'[n][t].todo))
  PROVE  Hearer(n, d, c)'
  <1>1. /\ \A r \in store'[n] : r \in store[n] \/ (n = y /\ r = Row(m, lastId[y] + 1))
        /\ store[n] \subseteq store'[n]
    BY AddMessageRows DEF TableInv, UniqueRows
  <1>2. \A id : /\ Row(m, id).origin = m.origin /\ Row(m, id).seqno = m.seqno
                /\ Row(m, id).channel = m.channel
    BY DEF Row
  <1>3. ASSUME NEW s \in store'[n], s.channel = c, s.origin = d, s \notin store[n]
        PROVE  Complete(written', store'[n], d, c, s.seqno, {})
    <2>1. n = y /\ s.seqno = m.seqno /\ m.origin = d /\ m.channel = c
      BY <1>1, <1>2, <1>3
    <2>2. Complete(written, store[n], d, c, s.seqno, {})
      BY <2>1
    <2> QED
      BY <1>1, <2>2, CompleteKept
  <1> QED
    BY <1>1, <1>3, HearerFrame

\* The next step of n's thread t, after which the list is todo: a record that n
\* has is done.
LEMMA HearerContinue ==
  ASSUME TableInv, NEW n \in Stations, NEW d \in Stations, NEW c, Hearer(n, d, c),
         NEW y \in Stations, NEW t \in Threads, rx[y][t] # None, NEW r \in rx[y][t].todo,
         NEW absent, NEW todo, todo = rx[y][t].todo \/ todo = rx[y][t].todo \ {r},
         Continue(y, t, todo, absent), written' = written, store[n] \subseteq store'[n],
         todo = rx[y][t].todo \/ y # n \/ r.origin # d \/ Has(store'[n], d, r.seqno)
  PROVE  \A u \in Threads : rx'[n][u] # None /\ rx'[n][u].channel = c =>
           rx'[n][u] = rx[n][u] \/
             (rx'[n][u].mode = "seqno" /\ Sound(written', store'[n], d, c, rx'[n][u].todo))
  <1> SUFFICES ASSUME NEW u \in Threads, rx'[n][u] # None, rx'[n][u].channel = c,
                      rx'[n][u] # rx[n][u]
               PROVE  /\ rx'[n][u].mode = "seqno"
                      /\ Sound(written', store'[n], d, c, rx'[n][u].todo)
    OBVIOUS
  <1>1. rx'[n][u] = IF n = y /\ u = t
                    THEN IF todo = {} THEN None ELSE Work(rx[y][t], todo, absent)
                    ELSE rx[n][u]
    BY DEF Continue, TableInv, WrittenInv, Shape
  <1>2. n = y /\ u = t /\ rx'[n][u] = Work(rx[n][t], todo, absent)
    BY <1>1
  <1> PICK w, w2 : w = rx[n][t] /\ w2 = rx'[n][u]
    OBVIOUS
  <1>3. w2.channel = w.channel /\ w2.mode = w.mode /\ w2.todo = todo
    BY <1>2 DEF Work
  <1>4. w # None /\ w.mode = "seqno" /\ Sound(written, store[n], d, c, w.todo)
    BY <1>2, <1>3 DEF Hearer
  <1> PICK rows, rows2 : rows = store[n] /\ rows2 = store'[n]
    OBVIOUS
  <1>5. Sound(written, rows2, d, c, w.todo)
    BY <1>4, SoundKept
  <1>6. Sound(written, rows2, d, c, todo)
    <2>1. CASE todo = w.todo
      BY <1>5, <2>1
    <2>2. CASE todo # w.todo
      <3>1. todo = w.todo \ {r} /\ (r.origin # d \/ Has(rows2, d, r.seqno))
        BY <1>2, <2>2
      <3>2. \A s \in todo : s.origin = d => Complete(written, rows2, d, c, s.seqno, todo)
        BY <1>5, <3>1 DEF Sound, Complete
      <3> QED
        BY <1>5, <3>1, <3>2 DEF Sound
    <2> QED
      BY <2>1, <2>2
  <1> QED
    BY <1>3, <1>4, <1>6

\* Every step keeps what n has, is sent and asks for without holes.
LEMMA NextHearer ==
  ASSUME TableInv, Bounds, NEW n \in Stations, NEW d \in Stations, NEW c \in Channels,
         Hears(n, d, c), Undisturbed(n, d), Author(d), Hearer(n, d, c), [Next]_vars
  PROVE  Hearer(n, d, c)'
  <1> USE DEF tableVars
  <1>1. ASSUME NEW w \in Writes, SendMessage(w[1], w[2], w[3]) PROVE Hearer(n, d, c)'
    <2>1. w[1] \in Stations
      BY AskAssumption DEF AskAssumption
    <2> QED
      BY <1>1, <2>1, HearerSend
  <1>2. ASSUME NEW a \in Asks, Ask(a[1], a[2], a[3], a[4]) PROVE Hearer(n, d, c)'
    <2>1. PICK arg : /\ net' = net \cup {Request(a[1], a[2], a[3], a[4], arg)}
                     /\ a[4] = "seqno" => arg = Inventory(a[1], a[3])
      BY <1>2 DEF Ask
    <2>2. UNCHANGED <<counter, store, rx, written>>
      BY <1>2 DEF Ask
    <2> PICK p : p = Request(a[1], a[2], a[3], a[4], arg)
      OBVIOUS
    <2>3. /\ p.type = "request" /\ p.to = a[2] /\ p.from = a[1] /\ p.channel = a[3]
          /\ p.mode = a[4] /\ p.last_n = LastN[a[1]] /\ p.arg = arg
      BY DEF Request
    <2>4. ASSUME p.from = n, p.channel = c PROVE Asking(p, n, d, c)'
      <3>1. a[1] = n /\ a[3] = c
        BY <2>3, <2>4
      <3>2. a[2] = d /\ a[4] = "seqno"
        BY <3>1 DEF Hears, OnlyBySync
      <3>3. p.arg = Inventory(n, c)
        BY <2>1, <2>3, <3>1, <3>2
      <3>4. /\ Inventory(n, c)[d] <= counter[d]
            /\ Complete(written, store[n], d, c, Inventory(n, c)[d] + 1, {})
        BY InventoryComplete DEF Undisturbed
      <3> QED
        BY <2>2, <2>3, <3>1, <3>2, <3>3, <3>4 DEF Asking
    <2> QED
      BY <2>1, <2>2, <2>3, <2>4, HearerFrame
  <1>3. ASSUME NEW y \in Stations, LogSent(y) PROVE Hearer(n, d, c)'
    <2>1. writing[y] \in written /\ writing[y].origin = y
      BY <1>3 DEF LogSent, TableInv, WrittenInv, LoggedWasWritten, Bounds
    <2> PICK m \in written : m = writing[y]
      BY <2>1
    <2>2. AddMessage(y, m) /\ UNCHANGED <<counter, rx, net, written>>
      BY <1>3 DEF LogSent
    <2>3. y = n => m.origin # d
      BY <2>1 DEF Hears
    <2> QED
      BY <2>2, <2>3, HearerStore
  <1>4. ASSUME NEW y \in Stations, Prune(y) PROVE Hearer(n, d, c)'
    <2>1. y # n
      BY <1>4 DEF Prune, Bounds, Undisturbed
    <2>2. store'[n] = store[n]
      BY <1>4, <2>1 DEF Prune, PruneDb, RunRetention, TableInv, UniqueRows
    <2> QED
      BY <1>4, <2>2, HearerFrame DEF Prune
  <1>5. ASSUME NEW y \in Stations, Restart(y) PROVE Hearer(n, d, c)'
    <2>1. y # d
      <3>1. boots[d] \in Nat \ {0} /\ MaxBoots[d] \in Nat
        BY BoundAssumption DEF Bounds, BoundAssumption
      <3> QED
        BY <1>5, <3>1 DEF Restart, Undisturbed
    <2>2. counter'[d] = counter[d] /\ UNCHANGED <<store, net, written>>
      BY <1>5, <2>1 DEF Restart, TableInv, Numbers
    <2>3. \A t \in Threads : rx'[n][t] = IF n = y THEN None ELSE rx[n][t]
      BY <1>5 DEF Restart, TableInv, WrittenInv, Shape
    <2> QED
      BY <2>2, <2>3, HearerFrame
  <1>6. ASSUME NEW y \in Stations, NEW t \in Threads, NEW p \in net, HandleMessage(y, t, p)
        PROVE  Hearer(n, d, c)'
    <2>1. p.body \in written
      BY <1>6 DEF HandleMessage, TableInv, WrittenInv, SentWasWritten
    <2> PICK m \in written : m = p.body
      BY <2>1
    <2>2. /\ AddMessage(y, m) /\ UNCHANGED <<counter, rx, written>> /\ net' \subseteq net
          /\ p.type = "message" /\ p.to = y
      BY <1>6 DEF HandleMessage, Taken
    <2>3. y = n => m.origin # d \/ m.channel # c
      BY <2>2 DEF Bounds, Hears, OnlyBySync
    <2> QED
      BY <2>2, <2>3, HearerStore
  <1>7. ASSUME NEW y \in Stations, NEW t \in Threads, NEW p \in net, HandleSyncRequest(y, t, p)
        PROVE  Hearer(n, d, c)'
    <2>1. /\ UNCHANGED <<counter, store, rx, written>> /\ p.type = "request" /\ p.to = y
      BY <1>7 DEF HandleSyncRequest
    <2> PICK x : x = [type |-> "response", to |-> p.from, channel |-> p.channel,
                      mode |-> p.mode, records |-> {Record(r) : r \in Answer(y, p)}]
      OBVIOUS
    <2>2. net' \subseteq net \cup {x}
      BY <1>7 DEF HandleSyncRequest, Taken
    <2>3. /\ x.type = "response" /\ x.to = p.from /\ x.channel = p.channel /\ x.mode = p.mode
          /\ x.records = {Record(r) : r \in Answer(y, p)}
      OBVIOUS
    <2>4. ASSUME x.to = n, x.channel = c
          PROVE  x.mode = "seqno" /\ Sound(written, store[n], d, c, x.records)
      <3>1. Asking(p, n, d, c)
        BY <2>1, <2>3, <2>4 DEF Hearer
      <3>2. y = d /\ p.mode = "seqno" /\ p.channel = c
        BY <2>1, <2>3, <2>4, <3>1 DEF Asking
      <3>3. p.arg[d] \in Nat
        <4>1. p \in Packet
          BY <2>1 DEF TableInv, Packets, IsPacket
        <4>2. p.arg \in [Stations -> 0 .. MaxSeq]
          BY <2>1, <3>2, <4>1 DEF Packet
        <4> QED
          BY <4>2, BoundAssumption DEF BoundAssumption
      <3>4. Sound(written, store[n], d, c, {Record(r) : r \in Answer(d, p)})
        BY <3>1, <3>2, <3>3, AnswerSound
      <3> QED
        BY <2>3, <3>2, <3>4
    <2> QED
      BY <2>1, <2>2, <2>3, <2>4, HearerFrame
  <1>8. ASSUME NEW y \in Stations, NEW t \in Threads, NEW p \in net, HandleSyncResponse(y, t, p)
        PROVE  Hearer(n, d, c)'
    <2>1. /\ UNCHANGED <<counter, store, written>> /\ net' \subseteq net
          /\ p.type = "response" /\ p.to = y
      BY <1>8 DEF HandleSyncResponse, Taken
    <2> PICK w : w = Work(p, p.records, FALSE)
      OBVIOUS
    <2>2. \A u \in Threads : rx'[n][u] = IF n = y /\ u = t
                                         THEN IF p.records = {} THEN None ELSE w
                                         ELSE rx[n][u]
      BY <1>8 DEF HandleSyncResponse, TableInv, WrittenInv, Shape
    <2>3. w.channel = p.channel /\ w.mode = p.mode /\ w.todo = p.records
      BY DEF Work
    <2>4. n = y /\ w.channel = c => w.mode = "seqno" /\ Sound(written, store[n], d, c, w.todo)
      BY <2>1, <2>3 DEF Hearer
    <2> QED
      BY <2>1, <2>2, <2>4, HearerFrame
  <1>9. ASSUME NEW y \in Stations, NEW t \in Threads, CheckRecord(y, t) PROVE Hearer(n, d, c)'
    <2>1. UNCHANGED <<counter, store, net, written>> /\ rx[y][t] # None
      BY <1>9 DEF CheckRecord
    <2>2. PICK r, todo, absent :
            /\ r \in rx[y][t].todo
            /\ Continue(y, t, todo, absent)
            /\ \/ todo = rx[y][t].todo
               \/ todo = rx[y][t].todo \ {r} /\ Has(store[y], r.origin, r.seqno)
      BY <1>9 DEF CheckRecord
    <2>3. todo = rx[y][t].todo \/ y # n \/ r.origin # d \/ Has(store'[n], d, r.seqno)
      BY <2>1, <2>2
    <2>4. todo = rx[y][t].todo \/ todo = rx[y][t].todo \ {r}
      BY <2>2
    <2>5. \A u \in Threads : rx'[n][u] # None /\ rx'[n][u].channel = c =>
            rx'[n][u] = rx[n][u] \/
              (rx'[n][u].mode = "seqno" /\ Sound(written', store'[n], d, c, rx'[n][u].todo))
      BY <2>1, <2>2, <2>3, <2>4, HearerContinue
    <2> QED
      BY <2>1, <2>5, HearerFrame
  <1>10. ASSUME NEW y \in Stations, NEW t \in Threads, AddRecord(y, t) PROVE Hearer(n, d, c)'
    <2>1. UNCHANGED <<counter, net, written>> /\ rx[y][t] # None
      BY <1>10 DEF AddRecord
    <2>2. PICK r \in rx[y][t].todo :
            /\ NextRecord(rx[y][t], r)
            /\ AddMessage(y, Applied(rx[y][t], r))
            /\ Continue(y, t, rx[y][t].todo \ {r}, FALSE)
      BY <1>10 DEF AddRecord
    <2> PICK w : w = rx[y][t]
      OBVIOUS
    <2>3. Applied(w, r) \in written
      BY <2>1 DEF TableInv, WrittenInv, TodoWasWritten
    <2> PICK m \in written : m = Applied(w, r)
      BY <2>3
    <2>4. m.origin = r.origin /\ m.seqno = r.seqno /\ m.channel = w.channel
      BY DEF Applied
    <2>5. AddMessage(y, m)
      BY <2>2
    <2>6. store[n] \subseteq store'[n] /\ (y = n => Has(store'[n], m.origin, m.seqno))
      <3>1. store[n] \subseteq store'[n]
        BY <2>5, AddMessageRows DEF TableInv, UniqueRows
      <3>2. Row(m, lastId[n] + 1).origin = m.origin /\ Row(m, lastId[n] + 1).seqno = m.seqno
        BY DEF Row
      <3> QED
        BY <2>5, <3>1, <3>2 DEF AddMessage, Has, TableInv, UniqueRows
    <2>7. ASSUME y = n, m.origin = d, m.channel = c
          PROVE  Complete(written, store[n], d, c, m.seqno, {})
      <3>1. w.mode = "seqno" /\ Sound(written, store[n], d, c, w.todo)
        BY <2>1, <2>4, <2>7 DEF Hearer
      <3>2. \A s \in w.todo : s.origin = d => ~(s.seqno < r.seqno)
        BY <2>2, <2>4, <2>7, <3>1 DEF NextRecord, Sound
      <3>3. Complete(written, store[n], d, c, r.seqno, w.todo)
        BY <2>2, <2>4, <2>7, <3>1 DEF Sound
      <3> QED
        BY <2>4, <3>2, <3>3 DEF Complete
    <2>8. \A u \in Threads : rx'[n][u] # None /\ rx'[n][u].channel = c =>
            rx'[n][u] = rx[n][u] \/
              (rx'[n][u].mode = "seqno" /\ Sound(written', store'[n], d, c, rx'[n][u].todo))
      <3> PICK todo : todo = rx[y][t].todo \ {r}
        OBVIOUS
      <3>1. todo = rx[y][t].todo \/ y # n \/ r.origin # d \/ Has(store'[n], d, r.seqno)
        BY <2>4, <2>6
      <3>2. Continue(y, t, todo, FALSE)
        BY <2>2
      <3> QED
        BY <2>1, <2>6, <3>1, <3>2, HearerContinue
    <2> QED
      BY <2>1, <2>5, <2>7, <2>8, HearerStore
  <1>11. ASSUME NEW p \in net, Lose(p) PROVE Hearer(n, d, c)'
    BY <1>11, HearerFrame DEF Lose
  <1>12. CASE Tick
    BY <1>12, HearerFrame DEF Tick
  <1>13. CASE UNCHANGED vars
    BY <1>13, HearerFrame DEF vars
  <1> QED
    BY <1>1, <1>2, <1>3, <1>4, <1>5, <1>6, <1>7, <1>8, <1>9, <1>10, <1>11, <1>12, <1>13
       DEF Next, RxStep, OnMeshAppData

\* Last-N sync leaves no holes: a station that hears an author through these
\* requests alone never holds a message of it while the author holds an earlier
\* one that the station lacks, for any number of stations, receive threads and
\* messages, with answers that are cut off, lost, repeated and overtaken, and
\* with restarts of the asking station.  The windows are as long as the history,
\* neither station prunes its table and the author does not start again:
\* without any of these the inventory of _handle_sync_request, which only tells
\* the highest number, hides a hole.
THEOREM SyncLeavesNoHoles == LongWindows => (Spec => []NoHoles)
  <1> SUFFICES ASSUME LongWindows PROVE Spec => []NoHoles
    OBVIOUS
  <1>0. ASSUME NEW a \in Asks, Hears(a[1], a[2], a[3])
        PROVE  /\ a[1] \in Stations /\ a[2] \in Stations /\ a[3] \in Channels
               /\ Undisturbed(a[1], a[2])
    BY <1>0, AskAssumption DEF AskAssumption, LongWindows, Hears
  <1>1. Init => HoleInv
    <2> SUFFICES ASSUME Init PROVE HoleInv
      OBVIOUS
    <2>1. Cardinality(written) <= MaxMsgs
      BY FS_EmptySet, BoundAssumption DEF BoundAssumption, Init
    <2> QED
      BY <1>0, <2>1 DEF Init, HoleInv, Bounds, Author, Hearer
  <1>2. TableInv /\ TableInv' /\ HoleInv /\ [Next]_vars => HoleInv'
    <2> SUFFICES ASSUME TableInv, TableInv', HoleInv, [Next]_vars PROVE HoleInv'
      OBVIOUS
    <2>1. Bounds'
      BY NextBounds DEF HoleInv
    <2>2. ASSUME NEW a \in Asks, Hears(a[1], a[2], a[3])
          PROVE  Author(a[2])' /\ Hearer(a[1], a[2], a[3])'
      <3> PICK n \in Stations, d \in Stations, c \in Channels : n = a[1] /\ d = a[2] /\ c = a[3]
        BY <1>0, <2>2
      <3>1. Undisturbed(n, d) /\ Hears(n, d, c) /\ Author(d) /\ Hearer(n, d, c) /\ Bounds
        BY <1>0, <2>2 DEF HoleInv
      <3>2. Author(d)'
        BY <3>1, NextAuthor DEF Undisturbed
      <3>3. Hearer(n, d, c)'
        BY <3>1, NextHearer
      <3> QED
        BY <3>2, <3>3
    <2> QED
      BY <2>1, <2>2 DEF HoleInv
  <1>3. TableInv /\ HoleInv => NoHoles
    <2> SUFFICES ASSUME TableInv, HoleInv, NEW a \in Asks, OnlyBySync(a[1], a[2], a[3]),
                        NEW s \in OfChannel(store[a[1]], a[3]),
                        NEW r \in OfChannel(store[a[2]], a[3]),
                        s.origin = a[2], r.origin = a[2], r.seqno < s.seqno
                 PROVE  Has(store[a[1]], r.origin, r.seqno)
      BY DEF NoHoles
    <2>1. CASE a[1] = a[2]
      BY <2>1 DEF Has, OfChannel
    <2>2. CASE a[1] # a[2]
      <3>1. Hears(a[1], a[2], a[3])
        BY <2>2 DEF Hears
      <3>2. a[1] \in Stations /\ a[2] \in Stations
        BY <1>0, <3>1
      <3>3. Hearer(a[1], a[2], a[3])
        BY <3>1 DEF HoleInv
      <3>4. Complete(written, store[a[1]], a[2], a[3], s.seqno, {})
        BY <3>3 DEF Hearer, OfChannel
      <3>5. /\ Message(r) \in written /\ Message(r).origin = a[2]
            /\ Message(r).channel = a[3] /\ Message(r).seqno = r.seqno
        BY <3>2 DEF TableInv, WrittenInv, StoredWasWritten, Message, OfChannel
      <3> QED
        BY <3>4, <3>5 DEF Complete
    <2> QED
      BY <2>1, <2>2
  <1>4. Spec => []TableInv
    <2>1. Init => TableInv
      BY InitTypes
    <2>2. TableInv /\ [Next]_vars => TableInv'
      BY NextTypes
    <2> QED
      BY <2>1, <2>2, PTL DEF Spec
  <1> QED
    BY <1>1, <1>2, <1>3, <1>4, PTL DEF Spec
=============================================================================
