SPECIFICATION Spec
CONSTANTS
    BYTE = 8
    ROLLOVER = 58
    Requests = {2}
PROPERTIES
    DelayReturns
