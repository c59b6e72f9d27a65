SPECIFICATION Spec
CONSTANTS
    BYTE = 4
    Readings = {32, 33}
    Settings <- MCSettings
    Found <- MCFound
    Stack <- MCStack
    MAXTICKS = 2
INVARIANTS
    TypeOK
    ReadsTrue
    ReportedSound
    ZeroKept
PROPERTIES
    NeverTwelveHour
