SPECIFICATION Spec
CONSTANTS
    Responses <- MCResponses
    FollowUps <- MCFollowUps
    ReadSizes = {1, 4, 100}
    MaxExchanges = 2
    HTTP_MAX_HEADER_SIZE = 90
    ULLONG_MAX = 127
    Strays = {" ", "CR", "9", "SOH"}
CHECK_DEADLOCK FALSE
INVARIANTS
    TypeOK
    DeliversResponse
    AcceptsResponse
    ReusableIffPersistent
    HeaderBounded
    LengthExact
    AssertionsHold
PROPERTY EveryExchangeEnds
