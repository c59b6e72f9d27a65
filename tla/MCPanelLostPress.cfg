SPECIFICATION HSpec
CONSTANTS
    Buttons = {1, 2}
    LedCalls <- SomeCalls
    Controller = TRUE
    TwiFaults = FALSE
    TwiNests = TRUE
    Chords = FALSE
    Bounce = FALSE
INVARIANTS
    NoLostPress
