\* The queue underflows when a stream on which a response came ends.
CONSTANTS
    Cluster = Cluster
    Endpoint = Endpoint
    c1 = c1
    Types = {Cluster}
    Names = {}
    Watchers = {}
    WatchUrl <- NoWatchUrl
    Versions = {"1"}
    NoVersion = ""
    MaxStreams = 1
    MaxResponses = 1
    ShutdownThread = FALSE
SPECIFICATION Spec
INVARIANT
    NoUnderflow
