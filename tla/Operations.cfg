CONSTANTS
    o1 = o1
    o2 = o2
    o3 = o3
    o4 = o4
    a1 = a1
    a2 = a2
    a3 = a3
    Op = {o1, o2, o3, o4}
    App = {a1, a2, a3}
    AppOf <- AppOfEach
    Client = {c1, c2}
    MaxConcurrent = 2
    MaxSteps = 1
    MaxTicks = 1
    MaxFaults = 1
    MaxRestarts = 1
SPECIFICATION OperationsSpec
INVARIANTS
    NoMissedEnd
PROPERTIES
    LifecycleSpec
CHECK_DEADLOCK FALSE
