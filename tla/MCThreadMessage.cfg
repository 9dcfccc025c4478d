SPECIFICATION Spec
CONSTANTS
    Threads  = {t1, t2, t3}
    Messages = {m1, m2}
    Capacity = 2
    Errors   = {eof}
    Ok       = ok
    Nil      = nil
INVARIANTS TypeOK NoLostWakeup
PROPERTY ImplementsChannel
