CONSTANTS
    Timer = {"beat", "lax"}
    Client = {"c1", "c2"}
    Nobody = Nobody
    Interval <- MCInterval
    Tolerance <- MCTolerance
    FireDate <- MCFireDate
    Scheduled <- MCOne
    Calls <- MCRace
    Dates = {0, 2}
    MaxTime = 3
    Distant = 8
    Never = 9
    Many = 1
    Depth = 1
SPECIFICATION Spec
INVARIANTS SoftDeadlineFires
CHECK_DEADLOCK FALSE
