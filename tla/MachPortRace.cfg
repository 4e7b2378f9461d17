CONSTANTS
    Thread = {"t1", "t2"}
    Obj = {"a", "b"}
    Source = {}
    Port = {"send"}
    None = None
    PortOf <- MCPortOf
    Calls <- MCRace
    Sends = {"send"}
SPECIFICATION Spec
INVARIANTS NoWatchLeft
CHECK_DEADLOCK FALSE
