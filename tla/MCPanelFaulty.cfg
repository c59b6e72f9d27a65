SPECIFICATION LSpec
CONSTANTS
    Buttons = {1, 2}
    LedCalls <- OddCalls
    Controller = FALSE
    TwiFaults = TRUE
    TwiNests = FALSE
    Chords = TRUE
    Bounce = FALSE
INVARIANTS
    StoreLosesOnlyPresses
    LedAgreement
PROPERTIES
    RedPressTaken
    BlackPressTaken
