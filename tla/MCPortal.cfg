\* Restarts, failed writes and clock changes between concurrent handlers; more
\* episodes than the ledger holds; and overlapping episodes.
SPECIFICATION Spec
CONSTANTS
    Handler = {h1, h2}
    Owner = {o1}
    Result = {"opened", "uncertain"}
    Limit = 2
    Fallbacks = 2
    Lifetime = 1
    MaxLaunch = 3
    MaxNm = 2
    MaxConn = 2
    MaxNow = 2
    MaxBack = 1
    MaxRestart = 1
SYMMETRY MCSymmetry
CONSTRAINT MCBound
INVARIANTS
    AutomaticOnce
    LaunchesSerial
    LedgerReopens
