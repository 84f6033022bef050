\* A watched response is not acknowledged.
CONSTANTS
    Cluster = Cluster
    Endpoint = Endpoint
    c1 = c1
    Types = {Cluster}
    Names = {"a"}
    Watchers = {c1}
    WatchUrl <- BothWatchUrl
    Versions = {"1"}
    NoVersion = ""
    MaxStreams = 1
    MaxResponses = 1
    ShutdownThread = FALSE
SPECIFICATION Spec
INVARIANT
    WatchedResponseAcked
