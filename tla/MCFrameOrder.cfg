SPECIFICATION Spec
CONSTANTS
    NThreads = 3
    MaxPackets = 3
    Codecs <- OrderCodecs
INVARIANTS TypeOK InOrder EofComplete BoundedDelay ContextIsCurrent FramesAreComplete
