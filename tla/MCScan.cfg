\* Two callers share a device in every way; a third joins or waits behind them.
SPECIFICATION FairSpec
CONSTANTS
    Caller = {c1, c2, c3}
    Third = c3
    Scope <- MCScope
    MaxGeneration = 3
CHECK_DEADLOCK FALSE
CONSTRAINT MCBound
INVARIANTS
    LeaseExclusive
    WaiterServed
    SuccessCovers
    
PROPERTY
    CallReturns
