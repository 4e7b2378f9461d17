CONSTANTS
    Mode = {"default", "tracking"}
    Source = {"s1", "s2"}
    Block = {"b1", "b3"}
    Port = {"wakeUp", "queue"}
    WakeUpPort = "wakeUp"
    DispatchPort = "queue"
    In <- MCIn
    Order <- MCOrder
    Observed = {}
    Client = {"c1"}
    Nobody = Nobody
    Runs <- Tracking
    Deadline = {"never"}
    Stops = {"stop", "tracking"}
    Invalidated = {}
    Nests <- MCNestAll
    Depth = 2
SPECIFICATION Spec

INVARIANTS BlocksOnce
PROPERTIES PerformsOnlyDue
