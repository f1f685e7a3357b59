CONSTANTS
    a = a
    b = b
    c = c
    None = None
    Absent = Absent
    VM = {a, b}
    Preferred = {a}
    Classic = {a}
    Initial = {b}
    Verdict <- AnyVerdict
    Terminate = FALSE
    Etag <- MCEtag
    MaxFaults = 2
SPECIFICATION Spec
CHECK_DEADLOCK FALSE
INVARIANTS TypeOK OnlyPreferred RecordTracksDevice
PROPERTY LaunchedAsSecondary
