\* The four types and one the client does not know, both forms of init called
\* again and again, a response for every turn (a fifth would never be read).
CONSTANTS
    Cluster = Cluster
    Listener = Listener
    ClusterLoadAssignment = ClusterLoadAssignment
    RouteConfiguration = RouteConfiguration
    OtherTypes = {Secret}
    Addresses = {"pilot"}
    EnvAddress = "istiod"
    NodeIds = {"node"}
    NoId = ""
    Loggers = {"file"}
    Noop = "noop"
    Null = Null
    MaxResponses = 4
SPECIFICATION Spec
INVARIANTS
    TypeOK
    AckedAsHandled
    CrashOnlyOnOtherType
    AcksNameResponses
    FirstInitWins
    ResponsesLogged
    OrderlyAcks
PROPERTIES
    ReturnsAfterEnd
