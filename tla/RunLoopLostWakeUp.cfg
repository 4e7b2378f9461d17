CONSTANTS
    Mode = {"default", "tracking"}
    Source = {}
    Block = {"b1", "b4"}
    Port = {"wakeUp", "queue"}
    WakeUpPort = "wakeUp"
    DispatchPort = "queue"
    In <- MCInSecondary
    Order <- MCOrder
    Observed = {}
    Client = {"c1"}
    Nobody = Nobody
    Runs <- Main
    Deadline = {"never"}
    Stops = {}
    Invalidated = {}
    Nests <- MCNestOther
    Depth = 2
SPECIFICATION Spec
INVARIANTS NoLostWakeUp
