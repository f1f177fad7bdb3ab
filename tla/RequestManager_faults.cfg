SPECIFICATION Spec
CONSTANTS
    r1 = r1  r2 = r2  r3 = r3
    c1 = c1  c2 = c2  c3 = c3  c4 = c4  c5 = c5
    h1 = h1  h2 = h2
    NoConn = NoConn  NoRequest = NoRequest  NoLocation = NoLocation
    NoHost = NoHost  BadUrl = BadUrl
    Request <- ThreeRequests
    Conn <- FiveConns
    Host <- OneHost
    Location <- BadRedirection
    Token = {0}
    Time = {1}
    Unbuildable = {r1}
    MaxParallel = 2
    MaxAttempts = 1
    MaxCancels = 0
SYMMETRY StackSymmetry
CHECK_DEADLOCK FALSE
INVARIANTS
    ParallelBound AnsweredOnce
