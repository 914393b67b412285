\* Two calls, one staged handoff, one save at a time.
SPECIFICATION FairSpec
CONSTANTS
    NONE = NONE
    Requests = {1, 2}
    Paths = {p1}
    Settings = {s1}
    Frontends = {f1}
    Activations = {a1, a2}
    Policies = {"persistent"}
    Scenarios <- MCScenarios
    Handoffs = 1
    Capacity = 1
CHECK_DEADLOCK FALSE

    
PROPERTIES
    
    HandoffOnce
    AgentServes
