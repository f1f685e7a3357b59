CONSTANTS
    i1 = i1
    i2 = i2
    a = a
    b = b
    Flag = Flag
    Null = Null
    Invocation = {i1, i2}
    Setting = {a, b}
    Required = {a}
    Editable = {b}
    MaxFaults = 2
SPECIFICATION FairSpec
INVARIANTS TypeOK FlagMeansAll NobodyActsOnPart
PROPERTIES EditsLast Settles
