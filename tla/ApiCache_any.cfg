CONSTANTS
    i1 = i1
    i2 = i2
    v1 = v1
    v2 = v2
    Absent = Absent
    Invocation = {i1, i2}
    VM = {v1, v2}
SPECIFICATION Spec
CHECK_DEADLOCK FALSE
SYMMETRY Interchangeable
INVARIANTS TypeOK GoneVmIsNotDescribed
PROPERTY LivingVmIsFound
