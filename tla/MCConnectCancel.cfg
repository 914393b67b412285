\* Two requests, one network: cancellation, deadline, clients, retention.
SPECIFICATION Spec
CONSTANTS
    Identity = {"key", "ap"}
    SsidOf <- MCSsidOf
    Credential = {"saved"}
    Supplied = {}
    Reason = {"ActivationFailed", "WrongPassword"}
    Request = {r1, r2}
    Owner = {o1}
    MaxRevision = 1
    MaxAborts = 1
    MaxBus = 1
SYMMETRY MCSymmetry
CHECK_DEADLOCK FALSE
INVARIANTS
    AdmissionExclusive
    AttemptRespectsPolicy
    SuccessExcludesAbort
    
