\* One type with a watch that may come and go, and shutdown() on a thread
\* of its own; a stream and a reconnect.
CONSTANTS
    Cluster = Cluster
    Endpoint = Endpoint
    c1 = c1
    Types = {Cluster}
    Names = {"a"}
    Watchers = {c1}
    WatchUrl <- BothWatchUrl
    Versions = {"1"}
    NoVersion = ""
    MaxStreams = 2
    MaxResponses = 3
    ShutdownThread = TRUE
SPECIFICATION Spec
INVARIANTS
    TypeOK
    RepliesSent
    UndefinedOnlyAfterResponse
PROPERTIES
    ResponsesAnswered
    OneSendAfterShutdown
    ReturnsAfterEnd
