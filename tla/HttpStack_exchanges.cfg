SPECIFICATION FairSpec
CONSTANTS
    MaxExchanges = 3
    MaxCancels = 2
    MaxBody = 1
    MaxEndpoints = 2
    MaxInterim = 1
CHECK_DEADLOCK FALSE
INVARIANTS
    TypeOK OneOperation CompletedInOrder PooledQuiet ResponseMatches
PROPERTIES
    OwnTimeout EveryExchangeCompletes ImplementsContract
