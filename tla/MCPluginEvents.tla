--------------------------- MODULE MCPluginEvents ---------------------------
(* A small instance of PluginEvents for TLC. *)
EXTENDS PluginEvents, TLC

CONSTANTS Log, Reply

\* Log is a catch-all; Reply has a function for received messages only.
LogThenReply == <<Log, Reply>>
Handlers == (Log :> DOMAIN Fields \cup {"on_link_state_change"})
            @@ (Reply :> {"on_message_received"})
=============================================================================
