CONSTANTS
    i1 = i1
    i2 = i2
    Absent = Absent
    Invocation = {i1, i2}
    MaxLoss = 2
    Recovery = 1
    Config <- OrderedConfig
    MaxClock = 6
    MaxFaults = 0
SPECIFICATION Spec
CHECK_DEADLOCK FALSE
PROPERTY OvertakenIsDiscarded
