\* One call to each server is enough.
CONSTANTS
    HttpCalls = {h1}
    GrpcCalls = {g1}
CHECK_DEADLOCK FALSE
SPECIFICATION Spec
INVARIANT BothDrained
