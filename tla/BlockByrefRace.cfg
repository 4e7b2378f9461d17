CONSTANTS
    Thread = {t1, t2}
    FrameThreads = {t1, t2}
    Block = {b1, b2, b3}
    Heap = {h1, h2}
    Stack = Stack
    Nil = Nil
    MaxWrites = 2
    Mask = 8
SPECIFICATION Spec
INVARIANTS RefcountAsserted
SYMMETRY Symmetry
CHECK_DEADLOCK FALSE
