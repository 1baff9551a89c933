\* Two tabs over one store with a burn or a timed message and every kind of fault; or
\* one tab with a message of each lifetime and frames in order.
CONSTANTS
    Burn = {b}
    Timed = {d}
    Recallable = {r}
    Tab = {t1, t2}
    Regimes <- MCRegimes
SPECIFICATION FairSpec
INVARIANTS TypeOK BurnLatchHolds AckedIsDurable RecallEffective
PROPERTY CountdownEnds
CHECK_DEADLOCK FALSE
