SPECIFICATION BuzzerSpec
CONSTANTS
    BYTE = 5
    ROLLOVER = 22
    Requests = {1, 2, 4, 5, 6, 13, 21, 22, 24}
INVARIANTS
    TypeOK
    DelayLength
    BuzzerTypeOK
    QuietAfterBeep
PROPERTIES
    ReachedDelayReturns
    BeepEnds
