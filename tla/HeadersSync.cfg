SPECIFICATION FairSpec
CONSTANTS
    nPowTargetTimespan = 9
    nPowTargetSpacing = 3
    nDifficultyForkHeight = 2
    nPowTargetTimespanV2 = 6
    powLimit = 255
    fPowAllowMinDifficultyBlocks = FALSE
    enforce_BIP94 = FALSE
    fPowNoRetargeting = FALSE
    MAX_TIMEWARP = 1
    nMedianTimeSpan = 3
    CompactBase = 4
    CompactDigits = 2
    ArithDigits = 8
    MAX_FUTURE_BLOCK_TIME = 9
    GenesisTime = 10
    TimeSteps <- MCTimeSteps
    ClockSteps = {24}
    MaxHeight = 7
    MaxNow = 34
    MinimumChainWork = 1700
    max_headers_result = 2
    commitment_period = 2
    redownload_buffer_size = 1
    MaxBlockRate = 2
    ForeignSteps = {5}
    MaxTimeouts = 1
    MaxAnswers = 5
INVARIANTS
    BufferConnects
PROPERTIES
    StoredHasWork
    HonestChainStored
CHECK_DEADLOCK FALSE
