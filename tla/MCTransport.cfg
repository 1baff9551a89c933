\* Three envelopes over a bucket of one token, a retry buffer of two, one lost
\* socket, one rate-limited subscribe.
CONSTANTS
    Envelope = {m1, m2, m3}
    Burst = 1
    GapFloor = 2
    GapCap = 4
    CleanStreak = 2
    MaxUnconfirmed = 2
    Paced = TRUE
    MaxInFlight = 3
    MaxDrop = 1
    MaxSubscribe = 1
SPECIFICATION FairSpec
INVARIANTS TypeOK NeverSilentlyLost NeverStalled
PROPERTIES EventuallySent
CHECK_DEADLOCK FALSE
