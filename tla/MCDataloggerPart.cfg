CONSTANTS
    PAGES = 3
    PER = 3
    ROOM = 1
    erased = erased
    zero = zero
    PowerUp = {erased}
    MAXSETS = 9
SPECIFICATION Spec
PROPERTIES SavesOnlyThePart
