SPECIFICATION Spec
CONSTANTS
    Threads = {t1, t2}
    Refs    = {r1, r2, r3}
    Buffers = {b1, b2, b3}
    Data    = {d1, d2, d3}
    Values  = {0, 1}
    None    = None
SYMMETRY Symmetry
INVARIANTS TypeOK NoUseAfterFree NothingLeaks
PROPERTY ImplementsCopies
