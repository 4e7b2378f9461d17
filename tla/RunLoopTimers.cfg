CONSTANTS
    Timer = {"once", "beat", "lax"}
    Client = {"c1"}
    Nobody = Nobody
    Interval <- MCInterval
    Tolerance <- MCTolerance
    FireDate <- MCFireDate
    Scheduled <- MCScheduled
    Calls <- MCCalls
    Dates = {0, 2}
    MaxTime = 2
    Distant = 8
    Never = 9
    Many = 1
    Depth = 2
SPECIFICATION LiveSpec
INVARIANTS TypeOK DeadlinesRight FiresOnce
PROPERTIES DateHonoured ArmedForFirst DueFires
CHECK_DEADLOCK FALSE
