SPECIFICATION Spec
CONSTANTS
    x1 = x1  x2 = x2  x3 = x3  c1 = c1  c2 = c2
    None = None
    Request <- TwoRequests
    Coroutine <- OneCoroutine
    AwaitAtOnce = FALSE
CHECK_DEADLOCK FALSE
PROPERTIES EveryAwaitResumes
