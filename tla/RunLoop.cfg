CONSTANTS
    Mode = {"default", "tracking"}
    Source = {"s1", "s2"}
    Block = {"b1", "b4"}
    Port = {"wakeUp", "queue"}
    WakeUpPort = "wakeUp"
    DispatchPort = "queue"
    In <- MCIn
    Order <- MCOrder
    Observed = {"tracking"}
    Client = {"c1"}
    Nobody = Nobody
    Runs <- Main
    Deadline = {"ahead"}
    Stops = {"stop"}
    Invalidated = {"s2"}
    Nests = {}
    Depth = 1
SPECIFICATION LiveSpec
INVARIANTS TypeOK NoLostWakeUp FirstCome
PROPERTIES Served Ends
