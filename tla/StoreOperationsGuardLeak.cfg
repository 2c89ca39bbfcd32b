CONSTANTS
    o1 = o1
    o2 = o2
    a1 = a1
    Op = {o1, o2}
    App = {a1}
    AppOf <- TwoOfOneApp
    MaxConcurrent = 1
    MaxSteps = 0
    MaxTicks = 0
    MaxFaults = 1
    MaxRestarts = 0
SPECIFICATION Spec
INVARIANTS
    GuardHasOwner
CHECK_DEADLOCK FALSE
