SPECIFICATION Spec
CONSTANTS
    Sources <- AllSources
    MaxChallenges = 2
    MaxQueue = 2
CHECK_DEADLOCK FALSE
INVARIANTS TypeOK OnePromptPerChallenge
PROPERTIES FirstCauseWins LogsConsumed DecidedExits
