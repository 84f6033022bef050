\* Two responses are enough for an acknowledgement of the wrong type.
CONSTANTS
    Cluster = Cluster
    Listener = Listener
    ClusterLoadAssignment = ClusterLoadAssignment
    RouteConfiguration = RouteConfiguration
    OtherTypes = {}
    Addresses = {}
    EnvAddress = "istiod"
    NodeIds = {"node"}
    NoId = ""
    Loggers = {}
    Noop = "noop"
    Null = Null
    MaxResponses = 2
SPECIFICATION Spec
INVARIANT
    AcksOwnType
