\* One mailbox, two devices and a legacy client: the held queue, retransmitted
\* ids, TTL expiry, crash and re-subscribe.
CONSTANTS
    Subject = {s1}
    Consumer = {c1, c2}
    Legacy = Legacy
    Conn = {k1, k2}
    Id = {m1, m2}
    TTLs = {0}
    NoAck = NoAck
    DefaultTTL = 1
    MaxTTL = 2
    MaxPending = 2
    MaxConsumers = 2
    EvictionFloor = 1
    Retention = 0
    MaxTracked = 1
    Headroom = 1
    Horizon = 1
    MaxPublish = 2
SYMMETRY Symmetry
SPECIFICATION Spec
INVARIANTS TypeOK IdleRegistryPruned BacklogCompleteAndFirst
PROPERTIES HeldUntilAcked
CHECK_DEADLOCK FALSE
