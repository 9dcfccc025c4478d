CONSTANTS
    Threads = 2
    BufferSize = 4
    MaxFrames = 6
    Outcomes = {"packet", "nothing", "error"}
    None = None
SPECIFICATION Spec
INVARIANTS TypeOK ReturnedInOrder EofIsEnd
PROPERTIES EveryCallReturns
