CONSTANTS
    a = a
    b = b
    Timer = Timer
    VM = {a, b}
    MaxFaults = 2
SPECIFICATION FairSpec
INVARIANT TypeOK
PROPERTIES EveryDeviceIsAuthorized HeartbeatsEnd
