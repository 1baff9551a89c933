\* Two sign-ins with a drop, a wake and a fault; two peers, two calls, one candidate,
\* a navigation and a refused capture; a file of three chunks with one fault;
\* two devices with a buddy, a folder, two edits and a crash, their clocks further apart
\* than the allowance.
CONSTANTS
    MaxBackoff = 1
    MaxSignIn = 2
    MaxDrop = 1
    MaxWake = 1
    MaxSignFault = 1
    EarlyClose = FALSE
    Peer = {p1, p2}
    MaxCall = 2
    MaxIce = 1
    MaxPendingIce = 1
    MaxNavigate = 1
    MaxRefusal = 1
    Chunks = 3
    HighWater = 1
    LowWater = 0
    MaxCandidate = 1
    MaxFileFault = 1
    Replica = {1, 2}
    Buddy = {b1}
    Folder = {g1}
    MaxFuture = 0
    MaxEdit = 2
    MaxTime = 2
    Ahead <- MCAhead
    MaxAdopt = 1
    MaxMapCrash = 1
SPECIFICATION SessionSpec
INVARIANTS NoOrphanCapture NoStrandedIce ReceivedWhole
PROPERTIES HangupReaches AcceptedArrives OfflineRecovers MapsConverge
CHECK_DEADLOCK FALSE
