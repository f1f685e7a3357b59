CONSTANTS
    i1 = i1
    i2 = i2
    v1 = v1
    v2 = v2
    v3 = v3
    l1 = l1
    l2 = l2
    None = None
    Absent = Absent
    Invocation = {i1, i2}
    VM = {v1, v2, v3}
    License = {l1, l2}
    Etag <- MCEtag
    MaxFaults = 0
SPECIFICATION Spec
CHECK_DEADLOCK FALSE
INVARIANT NoSharedLicense
