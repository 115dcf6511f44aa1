---------------------------- MODULE TargetedSync ----------------------------
(***************************************************************************)
(* Targeted sync: the gap reports of _GapTracker (chat_client.py) as       *)
(* MeshChatBackend._on_gap_report (mesh_backend.py) answers them, within   *)
(* the same call of the receive handler.  Confirmed ranges are coalesced,  *)
(* cut into bounded requests and the first few are sent to the origin.     *)
(***************************************************************************)
EXTENDS GapTracker, SequencesExt

CONSTANTS
    MergeDistance,   \* targeted_sync_merge_distance
    MaxRangeLen,     \* targeted_sync_max_range_len, at least 1
    MaxRequests,     \* targeted_sync_max_requests_per_trigger, at least 1
    MinInterval      \* minimum seconds between gap-triggered batches

ASSUME TargetAssumption == /\ MergeDistance \in Nat /\ MinInterval \in Nat
                           /\ MaxRangeLen \in Nat \ {0} /\ MaxRequests \in Nat \ {0}

VARIABLES
    peerKnown,   \* the origin's callsign is in _discovered_node_ids
    lastSync,    \* _last_sync_time[(callsign, "__gap_range__")], or Never
    requests,    \* range requests the last report put on the link, in order
    wanted       \* history: confirmed ranges those requests answer

syncVars == <<peerKnown, lastSync, requests, wanted>>
tVars == <<gapVars, syncVars>>

-----------------------------------------------------------------------------
\* The parsed ranges, sorted by start.
Sorted(ranges) ==
    CHOOSE s \in SetToSeqs(ranges) : IsSorted(s, LAMBDA p, q : p[1] <= q[1])

\* Mutant: an adjacent range replaces the current one instead of extending it.
Extend_LosesFirst(acc, p) ==
    IF p[1] <= Last(acc)[2] + 1 + MergeDistance
    THEN Append(Front(acc), p)
    ELSE Append(acc, p)

\* One turn of the coalescing loop: the current range, the last one of acc,
\* takes in p when they are at most MergeDistance apart.
Extend(acc, p) ==
    IF p[1] <= Last(acc)[2] + 1 + MergeDistance
    THEN Append(Front(acc), <<Last(acc)[1], Max({p[2], Last(acc)[2]})>>)
    ELSE Append(acc, p)

\* The coalescing loop over the sorted ranges, of which there is at least one.
Coalesce(ps) ==
    LET merged[i \in 1 .. Len(ps)] ==
            IF i = 1 THEN <<ps[1]>> ELSE Extend(merged[i - 1], ps[i])
    IN  merged[Len(ps)]

\* Mutant: consecutive chunks share a sequence number.
Chunks_Overlap(p) ==
    [i \in 1 .. (p[2] - p[1] + MaxRangeLen) \div MaxRangeLen |->
        <<p[1] + (i - 1) * MaxRangeLen, Min({p[2], p[1] + i * MaxRangeLen})>>]

\* Cut one range into pieces of at most MaxRangeLen.
Chunks(p) ==
    [i \in 1 .. (p[2] - p[1] + MaxRangeLen) \div MaxRangeLen |->
        <<p[1] + (i - 1) * MaxRangeLen, Min({p[2], p[1] + i * MaxRangeLen - 1})>>]

Batch(ranges) ==
    LET merged == Coalesce(Sorted(ranges))
        all    == FlattenSeq([i \in DOMAIN merged |-> Chunks(merged[i])])
    IN  SubSeq(all, 1, Min({Len(all), MaxRequests}))

\* The origin is known and the last complete batch is long enough ago.
MaySync == peerKnown /\ (lastSync = Never \/ now - lastSync >= MinInterval)

\* _on_gap_report for the lines one on_seqno returned: only a confirmed line
\* leads to requests.  The link may raise after k of them were sent; then the
\* time of the batch is not recorded.
OnGapReport(ls) ==
    \/ /\ \E l \in ls : l.confirmed
       /\ MaySync
       /\ LET l == CHOOSE x \in ls : x.confirmed
              b == Batch(l.ranges)
          IN  /\ wanted' = l.ranges
              /\ \/ requests' = b /\ lastSync' = now
                 \/ \E k \in 0 .. Len(b) - 1 :
                        requests' = SubSeq(b, 1, k) /\ UNCHANGED lastSync
    \/ /\ ~ (MaySync /\ \E l \in ls : l.confirmed)
       /\ requests' = << >> /\ wanted' = {}
       /\ UNCHANGED lastSync

Receive(x) == OnSeqno(x) /\ OnGapReport(lines') /\ UNCHANGED peerKnown

\* _nodes_loop learns the callsign of the origin from the routing table.
Discover ==
    /\ ~peerKnown
    /\ peerKnown' = TRUE
    /\ requests' = << >> /\ wanted' = {}
    /\ lines' = {}
    /\ UNCHANGED <<now, trackVars, last_report_ts, last_sig, received, lastSync>>

TTick == Tick /\ requests' = << >> /\ wanted' = {} /\ UNCHANGED <<peerKnown, lastSync>>

TInit == /\ Init
         /\ peerKnown = FALSE
         /\ lastSync = Never
         /\ requests = << >>
         /\ wanted = {}

TNext == (\E x \in Seqs : Receive(x)) \/ Discover \/ TTick

TSpec == TInit /\ [][TNext]_tVars

-----------------------------------------------------------------------------
Asked == UNION {requests[i][1] .. requests[i][2] : i \in DOMAIN requests}
Want  == UNION {p[1] .. p[2] : p \in wanted}

\* The requests of a batch ascend without overlapping, none is longer than
\* max_range_len, there are at most max_requests_per_trigger of them, and they
\* ask for nothing that was not reported, apart from holes of at most
\* merge_distance numbers between two reported ones.
RequestsBounded ==
    /\ Len(requests) <= MaxRequests
    /\ \A i \in DOMAIN requests : requests[i][2] - requests[i][1] \in 0 .. MaxRangeLen - 1
    /\ \A i, j \in DOMAIN requests : i < j => requests[i][2] < requests[j][1]
    /\ \A x \in Asked \ Want : \E v, w \in Want : v < x /\ x < w /\ w - v - 1 <= MergeDistance

\* Coalescing, chunking and the cap skip nothing: a confirmed number that a
\* batch leaves out lies above everything the batch asks for.
LowestGapsFirst ==
    \A x \in Want \ Asked : \A y \in Asked : y < x
=============================================================================
