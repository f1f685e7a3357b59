CONSTANTS
    i1 = i1
    i2 = i2
    Absent = Absent
    Invocation = {i1, i2}
    MaxLoss = 2
    Recovery = 2
    Config <- MCConfig
    MaxClock = 6
    MaxFaults = 1
SPECIFICATION Spec
CHECK_DEADLOCK FALSE
SYMMETRY Interchangeable
INVARIANTS TypeOK CountersAgree ReadersAgree LossesAreReal TerminationIsUnderWay
PROPERTIES NoFallBack HeartbeatsAreJudgements
