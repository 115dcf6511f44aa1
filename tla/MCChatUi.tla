------------------------------ MODULE MCChatUi ------------------------------
(* A small instance of ChatUi for TLC. *)
EXTENDS ChatUi, TLC

CONSTANTS M1, U1, S1

\* M1 comes on a new channel, the user types on #general, and the table starts
\* with a direct message.
ChannelOf == (M1 :> "net") @@ (U1 :> "general") @@ (S1 :> "dm")
=============================================================================
