CONSTANTS
    PAGES = 3
    PER = 3
    ROOM = 1
    erased = erased
    zero = zero
    PowerUp = {erased, zero}
    MAXSETS = 9
SPECIFICATION HSpec
INVARIANTS TypeOK LogOrdered NothingHidden
PROPERTIES ImplementsRecordLog
CONSTRAINT Unspoiled
