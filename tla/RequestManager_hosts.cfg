SPECIFICATION Spec
CONSTANTS
    r1 = r1  r2 = r2  r3 = r3
    c1 = c1  c2 = c2  c3 = c3  c4 = c4  c5 = c5
    h1 = h1  h2 = h2
    NoConn = NoConn  NoRequest = NoRequest  NoLocation = NoLocation
    NoHost = NoHost  BadUrl = BadUrl
    Request <- TwoRequests
    Conn <- FourConns
    Host <- TwoHosts
    Location <- TwoHosts
    Token = {0}
    Time = {1}
    Unbuildable = {}
    MaxParallel = 2
    MaxAttempts = 1
    MaxCancels = 0
SYMMETRY Symmetry
CHECK_DEADLOCK FALSE
INVARIANTS
    StackServesHost PoolBounded Ownership
