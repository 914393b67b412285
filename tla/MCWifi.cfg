SPECIFICATION MCSpec
CONSTANTS
    NONE = NONE
    Nil = Nil
    Asked <- MCAsked
    Reported = {"none", "no-secrets", "supplicant", "dhcp"}
    MaxEvents = 2
    w1 = w1
    w2 = w2
    Workers = {w1, w2}
    Profiles = {p1, p2}
    Target = p1
    Jobs <- MCJobs
    MaxMoves = 1
    AccessPoints <- MCAccessPoints
    ForeignProfiles <- MCForeign
    MaxWifiMoves = 2
CHECK_DEADLOCK FALSE
INVARIANTS CreatedProfilesCleaned   PromptSuffices
PROPERTIES EditsRespectOthers SecretsKept
