----------------------------- MODULE GapTracker -----------------------------
(***************************************************************************)
(* _GapTracker of chat_client.py: what one station remembers of the        *)
(* sequence numbers it has received from one origin (the state of          *)
(* different origins is independent), and the gap reports it emits.        *)
(*                                                                         *)
(* The list of missing ranges is modelled as a set: its members are        *)
(* disjoint and the code keeps it sorted by start, so the set determines   *)
(* the list (RangesSeparated is checked).                                  *)
(***************************************************************************)
EXTENDS Integers, FiniteSets, FiniteSetsExt

CONSTANTS
    Seqs,               \* sequence numbers the origin uses (it starts at 1)
    ConfirmDelay,       \* confirm_delay_seconds
    MinReportInterval,  \* min_report_interval_seconds
    MaxTime             \* bound on the clock

ASSUME GapAssumption == /\ Seqs \subseteq Nat /\ IsFiniteSet(Seqs)
                        /\ ConfirmDelay \in Nat /\ MinReportInterval \in Nat
                        /\ MaxTime \in Nat

VARIABLES
    now,             \* recv_ts of the last message, or later
    hi_contig,       \* everything up to here has been received
    ooo,             \* received above hi_contig
    missing,         \* ranges [start, end, ts] believed missing
    last_report_ts,
    last_sig,        \* what the last report said: <<start, end, confirmed>>
    lines,           \* report lines the last on_seqno returned
    received         \* history: every sequence number ever received

trackVars == <<hi_contig, ooo, missing>>
reportVars == <<last_report_ts, last_sig, lines>>
gapVars == <<now, trackVars, reportVars, received>>

-----------------------------------------------------------------------------
Never == -1
Top   == Max(Seqs \cup {0})
Line  == [confirmed : BOOLEAN, ranges : SUBSET ((0 .. Top) \X (0 .. Top))]

Rng(s, e, t) == [start |-> s, end |-> e, ts |-> t]
In(x, r)     == r.start <= x /\ x <= r.end
Covered(x)   == \E r \in missing : In(x, r)

\* Mutant: adjacent ranges are not merged.
AddRange_NoMerge(M, s, e, t) == IF s > e THEN M ELSE M \cup {Rng(s, e, t)}

\* _add_range: the new range swallows every range it overlaps or touches and
\* takes over the earliest detection time.
AddRange(M, s, e, t) ==
    LET touching == {r \in M : s <= r.end + 1 /\ r.start <= e + 1}
    IN  IF s > e THEN M
        ELSE (M \ touching) \cup
             {Rng(Min({s} \cup {r.start : r \in touching}),
                  Max({e} \cup {r.end : r \in touching}),
                  Min({t} \cup {r.ts : r \in touching}))}

\* Mutant: the part above x is lost when a range is split.
RemoveSeq_LosesTail(M, x) ==
    {r \in M : ~In(x, r)} \cup
    {r \in {Rng(q.start, x - 1, q.ts) : q \in {p \in M : In(x, p)}} : r.start <= r.end}

\* _remove_seq: a range that contains x is split around it.
RemoveSeq(M, x) ==
    LET hit    == {r \in M : In(x, r)}
        halves == {Rng(r.start, x - 1, r.ts) : r \in hit}
                    \cup {Rng(x + 1, r.end, r.ts) : r \in hit}
    IN  (M \ hit) \cup {r \in halves : r.start <= r.end}

\* Mutant: the list is left as it is.
Trim_Kept(M, hi) == M

\* The last loop of on_seqno: nothing at or below hi_contig is missing.
Trim(M, hi) == {Rng(Max({r.start, hi + 1}), r.end, r.ts) : r \in {q \in M : q.end > hi}}

\* Mutants: buffered messages are not looked at when a gap closes; the loop
\* steps over the next number too.
Advance_OneStep(x) == x
Advance_TooFar(x) == Min({h \in x .. Top : h + 1 \notin ooo}) + 1

\* The while loop of on_seqno: x closes the first gap, buffered numbers follow.
Advance(x) == Min({h \in x .. Top : h + 1 \notin ooo})

-----------------------------------------------------------------------------
Init ==
    /\ now = 0
    /\ hi_contig = -1
    /\ ooo = {}
    /\ missing = {}
    /\ last_report_ts = -MinReportInterval    \* 0.0 against wall-clock time
    /\ last_sig = {}
    /\ lines = {}
    /\ received = {}

\* _maybe_report, for the new list of missing ranges M.  An empty signature
\* stands for "".
Confirmed(r) == now - r.ts >= ConfirmDelay
Sig(M)       == {<<r.start, r.end, Confirmed(r)>> : r \in M}

Bucket(M, c) == {<<r.start, r.end>> : r \in {q \in M : Confirmed(q) = c}}

ReportDue(M) == Sig(M) # last_sig /\ now - last_report_ts >= MinReportInterval

MaybeReport(M) ==
    IF ReportDue(M)
    THEN /\ last_report_ts' = now
         /\ last_sig' = Sig(M)
         /\ lines' = {l \in {[confirmed |-> c, ranges |-> Bucket(M, c)] : c \in BOOLEAN} :
                         l.ranges # {}}       \* none: "gaps resolved"
    ELSE /\ UNCHANGED <<last_report_ts, last_sig>>
         /\ lines' = {}

\* on_seqno, for a number that was seen before.
OnOldSeqno(x) ==
    /\ x <= hi_contig \/ x \in ooo
    /\ lines' = {}
    /\ UNCHANGED <<now, trackVars, last_report_ts, last_sig, received>>

\* on_seqno, for a new number: in order, or beyond a gap.
OnNewSeqno(x) ==
    /\ ~(x <= hi_contig \/ x \in ooo)
    /\ \/ /\ x = hi_contig + 1
          /\ hi_contig' = Advance(x)
          /\ ooo' = ooo \ (x .. Advance(x))
          /\ missing' = Trim(RemoveSeq(missing, x), Advance(x))
       \/ /\ x > hi_contig + 1
          /\ ooo' = ooo \cup {x}
          /\ missing' = Trim(RemoveSeq(AddRange(missing, hi_contig + 1, x - 1, now), x),
                             hi_contig)
          /\ UNCHANGED hi_contig
    /\ MaybeReport(missing')
    /\ received' = received \cup {x}
    /\ UNCHANGED now

OnSeqno(x) == OnOldSeqno(x) \/ OnNewSeqno(x)

Tick ==
    /\ now < MaxTime
    /\ now' = now + 1
    /\ lines' = {}
    /\ UNCHANGED <<trackVars, last_report_ts, last_sig, received>>

Next == (\E x \in Seqs : OnSeqno(x)) \/ Tick

Spec == Init /\ [][Next]_gapVars

-----------------------------------------------------------------------------
\* Type invariant of the tracker's state.
TypeOK ==
    /\ now \in 0 .. MaxTime
    /\ hi_contig \in -1 .. Top
    /\ ooo \subseteq Seqs
    /\ missing \subseteq [start : 0 .. Top, end : 0 .. Top, ts : 0 .. MaxTime]
    /\ last_report_ts \in -MinReportInterval .. MaxTime
    /\ last_sig \subseteq (0 .. Top) \X (0 .. Top) \X BOOLEAN
    /\ lines \subseteq Line
    /\ received \subseteq Seqs

\* The missing list stays a sorted list of separate ranges above hi_contig,
\* whatever the order of arrival: adding, splitting and trimming neither
\* produce empty ranges nor leave two that overlap or touch.
RangesSeparated ==
    /\ \A r \in missing : hi_contig < r.start /\ r.start <= r.end
    /\ \A r, q \in missing : r # q => r.end + 1 < q.start \/ q.end + 1 < r.start

\* No gap is forgotten: every number below the highest one received that has
\* not been received itself is on the missing list.
NoGapForgotten ==
    \A y \in received : \A x \in 0 .. y - 1 : x \notin received => Covered(x)

\* hi_contig and the buffer of on_seqno together are exactly what has been
\* received, and hi_contig stops at the first hole.
ContigExact ==
    /\ received = (0 .. hi_contig) \cup ooo
    /\ hi_contig + 1 \notin received

\* The list ends below the highest number that arrived out of order: nothing is
\* reported, and asked for, that the origin may not have sent yet, and with the
\* last hole the list is empty.  (Numbers that were received may be on it: a new
\* range takes in everything from hi_contig up to the new number.)
ListedBelowHighest == \A r \in missing : \E y \in ooo : r.end < y
=============================================================================
