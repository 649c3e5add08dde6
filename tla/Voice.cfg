CONSTANTS
    MaxTurns = 3
    MaxHeard = 4
    QueueMax = 2
    Providers = 2
    Keys = {1, 2, 3}
    Generations = {1, 2, 3}
    Contents = {1, 2, 3}
    Nobody = Nobody
SPECIFICATION VoiceSpec
INVARIANTS
    VoiceInvariant
    ClosedReleases
    ListensAgain
PROPERTY EveryTurnEnds
CHECK_DEADLOCK FALSE
