------------------------------ MODULE MCTcpLink -----------------------------
(* A small instance of TcpLink for TLC. *)
EXTENDS TcpLink

CONSTANTS S, A

ServerSends == [e \in Ends |-> IF e = S THEN 2 ELSE 0]
=============================================================================
