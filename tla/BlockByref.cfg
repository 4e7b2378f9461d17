CONSTANTS
    Thread = {t1, t2, t3}
    FrameThreads = {t1}
    Block = {b1, b2, b3}
    Heap = {h1, h2}
    Stack = Stack
    Nil = Nil
    MaxWrites = 2
    Mask = 6
SPECIFICATION FairSpec
INVARIANTS TypeOK CountExact OneVariable
PROPERTIES Reclaimed
CHECK_DEADLOCK FALSE
