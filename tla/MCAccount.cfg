\* Two devices that may each mint, three group ids and one fault; two pairing windows,
\* two attempts and one fault; a founding device, a paired one and one that may be
\* unpaired or long revoked, with one more revocation and one failed read, upload or
\* reload.
CONSTANTS
    Device = {1, 2}
    GroupId = {1, 2, 3}
    FailureLimit = 1
    AttemptLimit = 1
    MaxSelfFault = 1
    MaxWindow = 2
    MaxAttempt = 2
    MaxPairFault = 1
    Own = {1, 2, 3}
    Founding = 1
    Paired = {2}
    MaxRevoke = 1
    MaxRevFault = 1
SPECIFICATION AccountSpec
INVARIANTS MintOnce LiveHasTimer
PROPERTIES Canonical PairingEnds RevocationSettles
CHECK_DEADLOCK FALSE
