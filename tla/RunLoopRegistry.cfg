CONSTANTS
    Thread = {"main", "t1", "t2"}
    Main = "main"
    None = None
    Others = {"t1"}
    Asks <- AsksFor
    Iterations = 4
    MaxLoops = 5
SPECIFICATION Spec
INVARIANTS TypeOK UniqueLoop DestroyedAtEnd
CHECK_DEADLOCK FALSE
