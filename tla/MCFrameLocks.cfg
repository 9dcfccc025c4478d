SPECIFICATION Spec
CONSTANTS
    NThreads = 2
    MaxPackets = 3
    Codecs <- LockCodecs
INVARIANTS HwaccelIsSerial CallbacksAreServed
PROPERTIES EveryCallReturns
