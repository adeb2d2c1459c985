SPECIFICATION MiningSpec
CONSTANTS
    nPowTargetTimespan = 9
    nPowTargetSpacing = 3
    nDifficultyForkHeight = 4
    nPowTargetTimespanV2 = 6
    powLimit = 255
    fPowAllowMinDifficultyBlocks = FALSE
    enforce_BIP94 = FALSE
    fPowNoRetargeting = FALSE
    MAX_TIMEWARP = 1
    nMedianTimeSpan = 3
    CompactBase = 4
    CompactDigits = 2
    ArithDigits = 8
    MAX_FUTURE_BLOCK_TIME = 9
    GenesisTime = 10
    TimeSteps <- MCTimeSteps
    ClockSteps = {9}
    MaxHeight = 6
    MaxNow = 37
    WrapRound = 4
    ForceRound = 3
    MaxRounds = 4
INVARIANTS
    RetargetMeasuresOwnPeriod
    PresyncPermitsChain
    MinedAcceptable
