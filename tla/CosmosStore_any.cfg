\* two invocations, five versions
CONSTANTS
    c1 = c1
    c2 = c2
    Absent = Absent
    Client <- MCClient
    Key <- MCKey
    Item <- MCItem
    Passes <- MCPasses
    Requests <- MCRequests
    MaxEtag = 4
SPECIFICATION Spec
CHECK_DEADLOCK FALSE
INVARIANT TypeOK
PROPERTIES CheckedOverwrite GuardedSavesAreAtomic
