\* Two types with a watch of each, one thread; a stream and a reconnect,
\* responses of two versions.
CONSTANTS
    Cluster = Cluster
    Endpoint = Endpoint
    c1 = c1
    Types = {Cluster, Endpoint}
    Names = {"a"}
    Watchers = {c1, e1}
    WatchUrl <- BothWatchUrl
    Versions = {v1, v2}
    NoVersion = ""
    MaxStreams = 2
    MaxResponses = 2
    ShutdownThread = FALSE
SYMMETRY VersionSymmetry
SPECIFICATION Spec
INVARIANTS
    NestedSends
    QueueWithinCalls
    NoncesOfThisStream
    NoncesNeverGoBack
    OnlyClusterRequested
    TypedRequests
    VersionsOfEmpty
    SubscriptionsMatch
    WireNamesCurrent
    NoWriteAfterShutdown
PROPERTIES
    ImplementsAckProtocol
