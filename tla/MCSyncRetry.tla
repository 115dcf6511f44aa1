---------------------------- MODULE MCSyncRetry -----------------------------
(* Small instances of SyncRetry for TLC. *)
EXTENDS SyncRetry

CONSTANTS K1, K2

\* K1 stands for a peer's DMs, K2 for a peer and #general, which defers.
Channels == [k \in Keys |-> IF k = K1 THEN "dm" ELSE "general"]
=============================================================================
