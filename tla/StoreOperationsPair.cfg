CONSTANTS
    o1 = o1
    o2 = o2
    a1 = a1
    Op = {o1, o2}
    App = {a1}
    AppOf <- TwoOfOneApp
    MaxConcurrent = 2
    MaxSteps = 1
    MaxTicks = 1
    MaxFaults = 1
    MaxRestarts = 1
SPECIFICATION FairSpec
INVARIANTS
    EventMatchesRow
PROPERTIES
    AdmittedEnds
    InterruptedResolved
CHECK_DEADLOCK FALSE
