\* Two mailboxes at every cap: one blob per queue, one consumer per registry,
\* one tracked mailbox, TTLs that are defaulted and clamped.
CONSTANTS
    Subject = {s1, s2}
    Consumer = {c1, c2}
    Legacy = Legacy
    Conn = {k1}
    Id = {m1}
    TTLs = {0, 9}
    NoAck = NoAck
    DefaultTTL = 1
    MaxTTL = 2
    MaxPending = 1
    MaxConsumers = 1
    EvictionFloor = 1
    Retention = 2
    MaxTracked = 1
    Headroom = 1
    Horizon = 3
    MaxPublish = 2
SYMMETRY SymmetrySubjects
SPECIFICATION Spec
INVARIANTS Bounded
PROPERTIES CursorKept
CHECK_DEADLOCK FALSE
