SPECIFICATION Spec
CONSTANTS
    Requests <- MCRequests
    Packed = {1, 2, 4, 5}
    MaxWrong = 3
    BlockSize = 2
    OutBuffer = 2
    MaxAttempts = 2
    DEFAULT_PORT_HTTP = 8
    DEFAULT_PORT_HTTPS = 9
    MaxPort = 99
    HostWord = {"http", "https", "h", "x"}
    OtherChar = {"%"}
CHECK_DEADLOCK FALSE
INVARIANT RequestArrives
