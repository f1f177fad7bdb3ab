SPECIFICATION FairSpec
CONSTANTS
    t1 = t1  t2 = t2  t3 = t3
    r1 = r1  r2 = r2  r3 = r3  r4 = r4
    Thread <- Threads
    Ref <- Refs
    N = 4
    Based <- Layers
    Nobody = Nobody
INVARIANTS NoUseAfterFree DestroyedOnce NeverBadPtr LifeCycle
PROPERTIES NoLeak
CHECK_DEADLOCK FALSE
