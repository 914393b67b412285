\* NetworkManager restarts after the connect that is the proof.
SPECIFICATION Spec
CONSTANTS
    Handler = {h1}
    Owner = {o1}
    Result = {"opened", "uncertain"}
    Limit = 2
    Fallbacks = 1
    Lifetime = 1
    MaxLaunch = 1
    MaxNm = 2
    MaxConn = 1
    MaxNow = 0
    MaxBack = 0
    MaxRestart = 0
INVARIANT
    AutomaticProven
