CONSTANTS
    o1 = o1
    a1 = a1
    c1 = c1
    Op = {o1}
    App = {a1}
    AppOf <- Alone
    Client = {c1}
    MaxConcurrent = 1
    MaxSteps = 1
    MaxTicks = 1
    MaxFaults = 0
    MaxRestarts = 0
SPECIFICATION FairStreamSpec
PROPERTIES
    StreamEnds
CHECK_DEADLOCK FALSE
