CONSTANTS
    a = a
    Null = Null
    Undefined = Undefined
    NaN = NaN
    True = True
    False = False
    NullText = NullText
    TrueText = TrueText
    FalseText = FalseText
    UndefinedText = UndefinedText
    VM = {1, 2, 3, 4}
    Checksum = {a, UndefinedText}
    Report <- MCReport
    Counters <- MCCounters
    MaxLoss = 2
    MaxHeartbeats = 4
SPECIFICATION ReportedSpec
CHECK_DEADLOCK FALSE
INVARIANTS ReportedTypeOK OrderDoesNotMatter NewcomerIsLastResort
INVARIANTS ReportsSurvive WhichRecordsMatch ReportedPrimaryIsElected
