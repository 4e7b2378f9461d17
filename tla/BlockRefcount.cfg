CONSTANTS
    Thread = {t1, t2, t3}
    Ref = {r1, r2, r3, r4}
    Mask <- MCMask
    WeakLoads = 2
    HelperOps = 3
    NoThread = NoThread
    NoRef = NoRef
SPECIFICATION FairSpec
INVARIANTS TypeOK NoUseAfterFree CountExact NoResurrection
PROPERTIES DisposedOnce LatchedForever RefinesLifetime UnownedIsFreed
CHECK_DEADLOCK FALSE
