\* Two devices share a mailbox; an id is published twice (a retransmission), a
\* device crashes.  No cap is reached, no channel fills and no registration
\* expires within the horizon.
CONSTANTS
    k1 = k1  k2 = k2  c1 = c1  c2 = c2
    Subject = {s1}
    Consumer = {c1, c2}
    Legacy = Legacy
    Conn = {k1, k2}
    Owner <- MCOwner
    Id = {m1}
    TTLs = {0}
    NoAck = NoAck
    DefaultTTL = 1
    MaxTTL = 1
    MaxPending = 2
    MaxConsumers = 2
    EvictionFloor = 1
    Retention = 1
    MaxTracked = 1
    Headroom = 2
    Horizon = 1
    MaxPublish = 2
    MaxCrash = 1
SPECIFICATION FairSpec
PROPERTIES AtLeastOnce EventuallyDurable
CHECK_DEADLOCK FALSE
