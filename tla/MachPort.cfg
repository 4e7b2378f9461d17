CONSTANTS
    Thread = {"t1", "t2"}
    Obj = {"a", "c"}
    Source = {"s1"}
    Port = {"send", "plain"}
    None = None
    PortOf <- MCPortOf
    Calls <- MCCalls
    Sends = {"send"}
SPECIFICATION LiveSpec
INVARIANTS TypeOK NotifiedOnce SourcesEnd InUseStays
PROPERTIES InfoNotRevived InvalidBeforeDealloc DeathNotified Reclaimed
CHECK_DEADLOCK FALSE
