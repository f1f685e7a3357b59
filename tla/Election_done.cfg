CONSTANTS
    a = a
    b = b
    c = c
    None = None
    Absent = Absent
    VM = {a, b}
    Preferred = {a, b}
    Classic = {}
    Initial = {a, b}
    Verdict <- AnyVerdict
    Terminate = TRUE
    Etag <- MCEtag
    MaxFaults = 0
SPECIFICATION Spec
CHECK_DEADLOCK FALSE
PROPERTY DoneRecordsStay
