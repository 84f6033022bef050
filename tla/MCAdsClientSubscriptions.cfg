\* A subscription is not requested.
CONSTANTS
    Cluster = Cluster
    Endpoint = Endpoint
    c1 = c1
    Types = {Cluster, Endpoint}
    Names = {"a"}
    Watchers = {e1}
    WatchUrl <- BothWatchUrl
    Versions = {"1"}
    NoVersion = ""
    MaxStreams = 1
    MaxResponses = 1
    ShutdownThread = FALSE
SPECIFICATION Spec
INVARIANT
    SubscriptionsRequested
