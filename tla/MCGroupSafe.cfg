\* Two founders and a joiner with rival commits, in two environments: the backstops
\* outlast the gateway and two faults happen; or nothing is assumed (timers race
\* frames, members lag behind, reseals fail) and one fault happens.
CONSTANTS
    Device = {a, b, x}
    Founder = {a, b}
    Regimes <- SafeRegimes
    MaxCommit = 2
SYMMETRY Symmetry
SPECIFICATION Spec
INVARIANTS TypeOK NoFork HeldUntilDurable NoPrivateEpoch
CHECK_DEADLOCK FALSE
