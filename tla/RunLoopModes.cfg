CONSTANTS
    Thread = {"t1", "t2"}
    Loop = {"l1", "l2"}
    Mode = {"default", "tracking"}
    Item = {"src", "tmr", "obs"}
    Kind <- MCKind
    Common = "common"
    Default = "default"
    None = None
    Calls <- MCCalls
SPECIFICATION Spec
INVARIANTS TypeOK BackPointers InvalidOut CommonCovered
CHECK_DEADLOCK FALSE
