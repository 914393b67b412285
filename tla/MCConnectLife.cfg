\* One request while NetworkManager leaves, returns and leaves again.
SPECIFICATION FairSpec
CONSTANTS
    Identity = {"key"}
    SsidOf <- MCSsidOf
    Credential = {"saved"}
    Supplied = {}
    Reason = {"ActivationFailed"}
    Request = {r1}
    Owner = {o1}
    MaxRevision = 2
    MaxAborts = 1
    MaxBus = 4
CHECK_DEADLOCK FALSE
PROPERTIES
    StaleOwnerNeverSucceeds
    RefinesContract
    AcceptedUnwinds
