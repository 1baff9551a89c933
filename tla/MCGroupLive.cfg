\* One fault in an orderly environment: staged commits are resolved, founders converge.
CONSTANTS
    Device = {a, b, x}
    Founder = {a, b}
    Regimes <- LiveRegimes
    MaxCommit = 2
SPECIFICATION FairSpec
PROPERTY Converges
CHECK_DEADLOCK FALSE
