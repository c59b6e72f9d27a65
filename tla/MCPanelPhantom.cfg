SPECIFICATION HSpec
CONSTANTS
    Buttons = {1, 2}
    LedCalls <- SomeCalls
    Controller = FALSE
    TwiFaults = FALSE
    TwiNests = TRUE
    Chords = TRUE
    Bounce = FALSE
INVARIANTS
    NoPhantomPress
