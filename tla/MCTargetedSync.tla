--------------------------- MODULE MCTargetedSync ---------------------------
(* Small instances of TargetedSync for TLC. *)
EXTENDS TargetedSync

FromZero == 0 .. 4
=============================================================================
