----------------------------- MODULE MCChatSync -----------------------------
(* Small instances of ChatSync for TLC. *)
EXTENDS ChatSync, TLC

CONSTANTS A, B, C, T1, T2

\* B writes to A, on two channels or on one.
BtoA == {<<B, A, "general">>, <<B, A, "dm">>}

BtoAGeneral == {<<B, A, "general">>}

\* A repairs by ranges what it misses of B's; C hears B by last-N sync only.
AandC == {<<A, B, "general", "range">>, <<C, B, "general", "seqno">>}

\* A and B ask each other; B's own messages may come back to it.
Mutual == {<<A, B, "general", "since_ts">>, <<B, A, "general", "seqno">>}

ThreadSymmetry == Permutations(Threads)
First == <<1, 1>>
Window == [n \in Stations |-> 3]
One == [n \in Stations |-> 1]
NoPruning == [n \in Stations |-> 0]
APrunes == [n \in Stations |-> IF n = A THEN 1 ELSE 0]
BRestarts == [n \in Stations |-> IF n = B THEN 2 ELSE 1]
CRestarts == [n \in Stations |-> IF n = C THEN 2 ELSE 1]
=============================================================================
