CONSTANTS
    Settings <- MCSettings
    Data <- MCData
    Frames <- MCFrames
    MaxTokens = 3
    MaxSaid = 2
SPECIFICATION FilterSpec
CHECK_DEADLOCK FALSE
INVARIANTS StreamUnderstood CommandsFirst OutputUnderstood
