\* Two tabs that receive one burn-on-read message; nothing fails.
CONSTANTS
    Burn = {b}
    Timed = {d}
    Recallable = {r}
    Tab = {t1, t2}
    Regimes <- NoFault
SPECIFICATION Spec
INVARIANT BurnShownOnce
CHECK_DEADLOCK FALSE
