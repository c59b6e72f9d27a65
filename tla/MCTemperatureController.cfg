SPECIFICATION Spec
CONSTANTS
    PERIOD = 3
    CalReadings = 2
    Timeouts = TRUE
INVARIANTS
    TypeOK
    MissedOnlyIfSlow
    OwnValues
    ExcitationOff
PROPERTIES
    SampleSpacing
    SamplesGoOn
