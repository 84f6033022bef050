\* Three streams, so that two chats can follow a shutdown, on its own thread
\* or not; responses of two versions.
CONSTANTS
    Cluster = Cluster
    Types = {Cluster}
    Names = {}
    Watchers = {}
    WatchUrl <- NoWatchUrl
    Versions = {"1", "2"}
    NoVersion = ""
    MaxStreams = 3
    MaxResponses = 2
    ShutdownThread = TRUE
SPECIFICATION ChatSpec
INVARIANTS
    ChatAnswersAll
PROPERTIES
    ChatOnlyAfterShutdown
    ChatReturns
