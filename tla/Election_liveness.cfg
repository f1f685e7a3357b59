CONSTANTS
    a = a
    b = b
    c = c
    None = None
    Absent = Absent
    VM = {a, b}
    Preferred = {a, b}
    Classic = {}
    Initial = {a, b}
    Verdict <- RankedVerdict
    Terminate = TRUE
    Etag <- MCEtag
    MaxFaults = 1
SPECIFICATION FairSpec
CHECK_DEADLOCK FALSE
INVARIANT RecordTracksDevice
PROPERTIES Converges UndoubtedPrimaryStays
