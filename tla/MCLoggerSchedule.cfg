SPECIFICATION Spec
CONSTANTS
    BYTE = 256
    HOUR = 60
    SKIP = 5
    RATE = 30
    Garbage = {29, 58, 255}
INVARIANTS
    TypeOK
    OnTime
PROPERTIES
    SamplesPerDataSet
