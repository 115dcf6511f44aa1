SPECIFICATION Spec
CONSTANTS
    Log = Log
    Reply = Reply
    None = None
    Plugins <- LogThenReply
    Handles <- Handlers
    QueueSize = 2
    Links = {"ardop"}
    MaxEvents = 4
INVARIANT PluginsServed
CHECK_DEADLOCK FALSE
