\* A call to each server and one more, which may hang; all three programs.
\* A program without clients and signals serves on, and one that ended is over.
CONSTANTS
    HttpCalls = {h1, h2}
    GrpcCalls = {g1, g2}
CHECK_DEADLOCK FALSE
SPECIFICATION Spec
INVARIANT TypeOK
INVARIANT FrontHasConnections
PROPERTY ServersStop
PROPERTY SignalEndsProcess
