\* An abort that runs late, after another request has connected.
SPECIFICATION Spec
CONSTANTS
    Identity = {"key"}
    SsidOf <- MCSsidOf
    Credential = {"saved"}
    Supplied = {}
    Reason = {"ActivationFailed"}
    Request = {r1, r2}
    Owner = {o1}
    MaxRevision = 1
    MaxAborts = 1
    MaxBus = 1
CHECK_DEADLOCK FALSE
PROPERTY
    AbortSparesCompletedLink
