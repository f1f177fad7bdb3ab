SPECIFICATION Spec
CONSTANTS
    x1 = x1  x2 = x2  x3 = x3  c1 = c1  c2 = c2
    None = None
    Request <- ThreeRequests
    Coroutine <- TwoCoroutines
    AwaitAtOnce = TRUE
CHECK_DEADLOCK FALSE
INVARIANTS ReceivesOwnResult
PROPERTIES EveryAwaitResumes
